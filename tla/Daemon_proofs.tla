---- MODULE Daemon_proofs ----
(***************************************************************************)
(* Proofs about Daemon, for every set of rules, every configuration and    *)
(* every pattern of failures.                                              *)
(***************************************************************************)
EXTENDS Daemon, TLAPS

USE DEF Never, Instant, OptionalInstant

\* The engine's transition keeps rule states well formed.
LEMMA NextRuleStateType ==
    ASSUME EngineTypeOK, NEW r \in Rules, NEW exceeded \in BOOLEAN,
           NEW at \in OptionalInstant
    PROVE  /\ NextRuleState(r, exceeded, at) \in RuleState
           /\ NextEvent(r, exceeded, at) \in EventKind
<1> DEFINE s == engine[r]
<1>1. s \in RuleState
  BY DEF EngineTypeOK
<1>2. NextRuleState(r, exceeded, at) \in RuleState
  <2>1. NormalRule \in RuleState
    BY DEF NormalRule, RuleState, Status
  <2>2. [s EXCEPT !.status = "pending", !.pendingSince = at] \in RuleState
    BY <1>1 DEF RuleState, Status
  <2>3. [s EXCEPT !.status = "normal", !.pendingSince = Never] \in RuleState
    BY <1>1 DEF RuleState, Status
  <2>4. [s EXCEPT !.status = "firing", !.firingSince = at] \in RuleState
    BY <1>1 DEF RuleState, Status
  <2> QED
    BY <1>1, <2>1, <2>2, <2>3, <2>4 DEF NextRuleState
<1>3. NextEvent(r, exceeded, at) \in EventKind
  BY DEF NextEvent, EventKind
<1> QED
  BY <1>2, <1>3

\* What is written to state.json, and what is restored from it.
LEMMA StatesType ==
    ASSUME engine \in [Rules -> RuleState], lastSent \in [Rules -> OptionalInstant]
    PROVE  StatesWithLastSent(lastSent) \in [Rules -> SavedRule]
BY DEF StatesWithLastSent, RuleState, SavedRule, Status

LEMMA NewEngineType ==
    ASSUME NEW config
    PROVE  NewEngine(config) \in [Rules -> RuleState]
BY DEF NewEngine, NormalRule, AbsentRule, RuleState, Status

LEMMA NothingSavedType == NothingSaved \in [Rules -> SavedRule]
BY DEF NothingSaved, AbsentSaved, SavedRule, Status

LEMMA RestoreType ==
    ASSUME NEW config, NEW file \in [Rules -> SavedRule]
    PROVE  /\ RestoreStates(config, file) \in [Rules -> RuleState]
           /\ RestoreLastSent(file) \in [Rules -> OptionalInstant]
<1>1. \A r \in Rules :
        [status |-> file[r].status, pendingSince |-> file[r].pendingSince,
         firingSince |-> file[r].firingSince] \in RuleState
  BY DEF SavedRule, RuleState
<1>2. RestoreStates(config, file) \in [Rules -> RuleState]
  BY <1>1, NewEngineType DEF RestoreStates
<1>3. RestoreLastSent(file) \in [Rules -> OptionalInstant]
  BY DEF RestoreLastSent, SavedRule
<1> QED
  BY <1>2, <1>3

LEMMA FaultType ==
    ASSUME faultsLeft \in Nat, NEW kind
    PROVE  /\ Fault(kind) => faultsLeft' \in Nat
           /\ NoFault => faultsLeft' \in Nat
BY DEF Fault, NoFault

LEMMA ProcessEndsType ==
    ASSUME TypeOK, ProcessEnds, saved' \in [Rules -> SavedRule], faultsLeft' \in Nat,
           forgot' \in SUBSET Rules
    PROVE  TypeOK'
<1>1. engine' \in [Rules -> RuleState]
  BY NewEngineType DEF ProcessEnds
<1> QED
  BY <1>1 DEF TypeOK, ProcessEnds, EngineTypeOK, AlertTypeOK, NoEvents,
     NothingSent, NoReadings, EventKind, Reading, PC

LEMMA WriteStateType ==
    ASSUME TypeOK, WriteState
    PROVE  /\ saved' \in [Rules -> SavedRule]
           /\ faultsLeft' \in Nat
           /\ forgot' \in SUBSET Rules
BY StatesType, FaultType DEF TypeOK, EngineTypeOK, AlertTypeOK, WriteState

\* Every variable keeps its type.
THEOREM TypeCorrect == Spec => []TypeOK
<1>1. Init => TypeOK
  <2> SUFFICES ASSUME Init PROVE TypeOK
    OBVIOUS
  <2>1. EngineTypeOK
    BY NewEngineType DEF Init, EngineTypeOK, NoEvents, EventKind
  <2>2. AlertTypeOK
    BY DEF Init, AlertInit, AlertTypeOK, NothingSent, NoEvents, EventKind, Message
  <2> QED
    BY <2>1, <2>2, NothingSavedType, FaultsAssumption
    DEF Init, TypeOK, PC, NoReadings, Reading, NothingSent
<1>2. TypeOK /\ [Next]_vars => TypeOK'
  <2> SUFFICES ASSUME TypeOK, [Next]_vars PROVE TypeOK'
    OBVIOUS
  <2> USE DEF TypeOK, PC
  <2>1. CASE Start
    <3>1. PICK config \in Configs, file \in {saved, NothingSaved} :
            InitState(config, file) /\ faultsLeft' \in Nat
      BY <2>1, FaultType DEF Start
    <3>2. file \in [Rules -> SavedRule] /\ config \in SUBSET Rules
      BY <3>1, NothingSavedType, ConfigsAssumption
    <3>3. /\ engine' \in [Rules -> RuleState]
          /\ lastSent' \in [Rules -> OptionalInstant]
          /\ configured' \in SUBSET Rules
      BY <3>1, <3>2, RestoreType, NothingSavedType DEF InitState
    <3>4. forgot' \in SUBSET Rules
      BY <3>1 DEF InitState
    <3> QED
      BY <2>1, <3>1, <3>3, <3>4 DEF Start, EngineTypeOK, AlertTypeOK
  <2>2. CASE BeginCycle
    BY <2>2 DEF BeginCycle, NoFault, EngineTypeOK, AlertTypeOK, engineVars, alertVars
  <2>3. CASE SampleCPU
    BY <2>3 DEF SampleCPU, NoFault, EngineTypeOK, AlertTypeOK, engineVars, alertVars, Reading
  <2>4. CASE Collect
    <3>1. snap' \in [Rules -> Reading \cup {"none"}]
      BY <2>4 DEF Collect, Reading
    <3>2. aboveSince' \in [Rules -> OptionalInstant]
      BY <2>4 DEF Collect
    <3>3. faultsLeft' \in Nat
      BY <2>4, FaultType DEF Collect
    <3> QED
      BY <2>4, <3>1, <3>2, <3>3 DEF Collect, EngineTypeOK, AlertTypeOK, engineVars, alertVars
  <2>5. CASE EvaluateRules
    <3>1. \A r \in Rules : Exceeded(snap[r]) \in BOOLEAN
      BY DEF Exceeded
    <3>2. EngineTypeOK'
      BY <2>5, <3>1, NextRuleStateType DEF EvaluateRules, Evaluate, EngineTypeOK
    <3> QED
      BY <2>5, <3>2 DEF EvaluateRules, NoFault, AlertTypeOK, alertVars
  <2>6. ASSUME NEW r \in Rules, ProcessEvent(r) PROVE TypeOK'
    <3>1. faultsLeft' \in Nat
      BY <2>6, FaultType DEF ProcessEvent
    <3>2. EngineTypeOK' /\ AlertTypeOK'
      BY <2>6 DEF ProcessEvent, BeginDispatch, EngineTypeOK, AlertTypeOK, EventKind, processVars
    <3> QED
      BY <2>6, <3>1, <3>2 DEF ProcessEvent, processVars
  <2>7. ASSUME NEW r \in Rules, Notify(r) PROVE TypeOK'
    <3>1. EngineTypeOK' /\ AlertTypeOK'
      BY <2>7 DEF Notify, EndDispatch, EngineTypeOK, AlertTypeOK, EventKind, Message
    <3> QED
      BY <2>7, <3>1 DEF Notify, NoFault, processVars
  <2>8. CASE ProcessDone
    BY <2>8 DEF ProcessDone, NoFault, EngineTypeOK, AlertTypeOK, engineVars, alertVars
  <2>9. CASE Remind
    <3>1. EngineTypeOK' /\ AlertTypeOK'
      BY <2>9 DEF Remind, CheckRepeat, EngineTypeOK, AlertTypeOK, Message
    <3> QED
      BY <2>9, <3>1 DEF Remind, NoFault
  <2>10. CASE SaveState
    BY <2>10, WriteStateType
    DEF SaveState, NoReadings, Reading, EngineTypeOK, AlertTypeOK, engineVars, alertVars
  <2>11. CASE BeginShutdown
    BY <2>11 DEF BeginShutdown, NoFault, EngineTypeOK, AlertTypeOK, engineVars, alertVars
  <2>12. CASE FinishShutdown
    BY <2>12, WriteStateType, ProcessEndsType DEF FinishShutdown
  <2>13. CASE Cancel
    BY <2>13 DEF Cancel, NoFault, EngineTypeOK, AlertTypeOK, engineVars, alertVars
  <2>14. CASE Crash
    BY <2>14, FaultType, ProcessEndsType DEF Crash
  <2>15. CASE TimePasses
    BY <2>15 DEF TimePasses, NoFault, processVars, EngineTypeOK, AlertTypeOK, engineVars, alertVars
  <2>16. CASE Tick
    BY <2>16 DEF Tick, NoFault, EngineTypeOK, AlertTypeOK, engineVars, alertVars
  <2>17. CASE ClockSetBack
    BY <2>17, FaultType
    DEF ClockSetBack, processVars, EngineTypeOK, AlertTypeOK, engineVars, alertVars
  <2>18. CASE UNCHANGED vars
    BY <2>18 DEF vars, processVars, EngineTypeOK, AlertTypeOK, engineVars, alertVars
  <2> QED
    BY <2>1, <2>2, <2>3, <2>4, <2>5, <2>6, <2>7, <2>8, <2>9, <2>10, <2>11,
       <2>12, <2>13, <2>14, <2>15, <2>16, <2>17, <2>18 DEF Next, Cycle
<1> QED
  BY <1>1, <1>2, PTL DEF Spec

----------------------------------------------------------------------------
(***************************************************************************)
(* AlertedIffFiring is not inductive alone.  It needs that events exist    *)
(* only inside Process, that the engine knows exactly the configured       *)
(* rules, and that state.json is a consistent source for the next start.   *)
(***************************************************************************)
EventsOnlyInProcess ==
    /\ pc # "process" => event = NoEvents /\ dispatching = NothingSent
    /\ \A r \in Rules : dispatching[r] # Never => event[r] # "none"

EngineKnowsConfigured ==
    \A r \in Rules : engine[r].status = "absent" <=> r \notin configured

IInv ==
    /\ TypeOK
    /\ EventsOnlyInProcess
    /\ EngineKnowsConfigured
    /\ AlertedIffFiring
    /\ SavedAlertedIffFiring

\* A new process starts consistent, whatever file it is given, provided that
\* the file is.
LEMMA StartConsistent ==
    ASSUME IInv, NEW config, NEW file \in [Rules -> SavedRule],
           \A r \in Rules : file[r].status = "firing" <=> file[r].lastSentAt # Never,
           InitState(config, file), event = NoEvents, UNCHANGED event
    PROVE  EngineKnowsConfigured' /\ AlertedIffFiring'
<1> DEFINE restored == IF ResetBaselineOnStart THEN NothingSaved ELSE file
<1>1. /\ restored \in [Rules -> SavedRule]
      /\ \A r \in Rules : restored[r].status = "firing" <=> restored[r].lastSentAt # Never
  BY NothingSavedType DEF NothingSaved, AbsentSaved
<1>2. /\ configured' = config
      /\ engine' = RestoreStates(config, restored)
      /\ lastSent' = RestoreLastSent(restored)
  BY DEF InitState
<1> HIDE DEF restored
<1>3. \A r \in Rules :
        /\ engine'[r].status =
             IF r \notin config THEN "absent"
             ELSE IF restored[r].status = "absent" THEN "normal" ELSE restored[r].status
        /\ lastSent'[r] = restored[r].lastSentAt
  BY <1>2 DEF RestoreStates, RestoreLastSent, NewEngine, NormalRule, AbsentRule
<1>4. EngineKnowsConfigured'
  BY <1>2, <1>3 DEF EngineKnowsConfigured
<1>5. AlertedIffFiring'
  BY <1>1, <1>2, <1>3 DEF AlertedIffFiring, NoEvents
<1> QED
  BY <1>4, <1>5

\* Between Process runs, a write to state.json is consistent.
LEMMA WriteConsistent ==
    ASSUME IInv, WriteState, event = NoEvents
    PROVE  SavedAlertedIffFiring'
<1>1. CASE saved' = StatesWithLastSent(lastSent)
  <2>1. \A r \in Rules :
          /\ saved'[r].status = engine[r].status
          /\ saved'[r].lastSentAt =
               IF engine[r].status = "absent" THEN Never ELSE lastSent[r]
    BY <1>1 DEF StatesWithLastSent
  <2> QED
    BY <2>1 DEF IInv, EngineKnowsConfigured, AlertedIffFiring, SavedAlertedIffFiring, NoEvents
<1>2. CASE UNCHANGED saved
  BY <1>2 DEF IInv, SavedAlertedIffFiring
<1> QED
  BY <1>1, <1>2 DEF WriteState

\* A process that ends leaves nothing to be inconsistent with.
LEMMA EndsConsistent ==
    ASSUME ProcessEnds
    PROVE  EventsOnlyInProcess' /\ EngineKnowsConfigured' /\ AlertedIffFiring'
BY DEF ProcessEnds, EventsOnlyInProcess, EngineKnowsConfigured, AlertedIffFiring,
   NewEngine, AbsentRule, NoEvents, NothingSent

LEMMA EvaluateConsistent ==
    ASSUME IInv, EvaluateRules
    PROVE  EventsOnlyInProcess' /\ EngineKnowsConfigured' /\ AlertedIffFiring'
<1>1. event = NoEvents /\ dispatching = NothingSent
  BY DEF IInv, EventsOnlyInProcess, EvaluateRules
<1>2. UNCHANGED <<lastSent, dispatching, configured>> /\ pc' = "process"
  BY DEF EvaluateRules, alertVars
<1> SUFFICES ASSUME NEW r \in Rules
             PROVE  /\ engine'[r].status = "absent" <=> engine[r].status = "absent"
                    /\ event'[r] = "none" =>
                         (engine'[r].status = "firing" <=> engine[r].status = "firing")
                    /\ event'[r] = "firing" =>
                         engine[r].status = "pending" /\ engine'[r].status = "firing"
                    /\ event'[r] = "recovered" =>
                         engine[r].status = "firing" /\ engine'[r].status = "normal"
                    /\ event'[r] \in EventKind
  BY <1>1, <1>2 DEF IInv, EventsOnlyInProcess, EngineKnowsConfigured,
     AlertedIffFiring, NoEvents, NothingSent, EventKind
<1> DEFINE s == engine[r]
           high == Exceeded(snap[r])
<1>3. /\ engine'[r] = NextRuleState(r, high, evalAt)
      /\ event'[r] = NextEvent(r, high, evalAt)
  BY DEF EvaluateRules, Evaluate
<1>4. s \in RuleState /\ high \in BOOLEAN
  BY DEF IInv, TypeOK, EngineTypeOK, Exceeded
<1> QED
  BY <1>3, <1>4 DEF NextRuleState, NextEvent, RuleState, Status, NormalRule, EventKind

LEMMA DispatchConsistent ==
    ASSUME IInv, NEW r \in Rules, ProcessEvent(r) \/ Notify(r)
    PROVE  EventsOnlyInProcess' /\ EngineKnowsConfigured' /\ AlertedIffFiring'
<1> USE DEF IInv, TypeOK, EngineTypeOK, AlertTypeOK
<1>1. CASE ProcessEvent(r)
  <2>1. ~Deduped(r, now)
    BY DEF Deduped, AlertedIffFiring
  <2>2. /\ pc = "process"
        /\ event[r] # "none"
        /\ dispatching' = [dispatching EXCEPT ![r] = now]
        /\ UNCHANGED <<pc, event, engine, lastSent, configured>>
    BY <1>1, <2>1 DEF ProcessEvent, BeginDispatch, processVars
  <2> QED
    BY <2>2 DEF EventsOnlyInProcess, EngineKnowsConfigured, AlertedIffFiring
<1>2. CASE Notify(r)
  <2>1. /\ pc = "process"
        /\ dispatching[r] # Never
        /\ lastSent' = [lastSent EXCEPT
              ![r] = IF event[r] = "firing" THEN dispatching[r] ELSE Never]
        /\ event' = [event EXCEPT ![r] = "none"]
        /\ dispatching' = [dispatching EXCEPT ![r] = Never]
        /\ UNCHANGED <<pc, engine, configured>>
    BY <1>2 DEF Notify, EndDispatch, processVars
  <2>2. event[r] \in {"firing", "recovered"}
    BY <2>1 DEF EventsOnlyInProcess, EventKind
  <2>3. EventsOnlyInProcess'
    BY <2>1 DEF EventsOnlyInProcess
  <2>4. EngineKnowsConfigured'
    BY <2>1 DEF EngineKnowsConfigured
  <2>5. AlertedIffFiring'
    BY <2>1, <2>2 DEF AlertedIffFiring
  <2> QED
    BY <2>3, <2>4, <2>5
<1> QED
  BY <1>1, <1>2

LEMMA RemindConsistent ==
    ASSUME IInv, Remind
    PROVE  EventsOnlyInProcess' /\ EngineKnowsConfigured' /\ AlertedIffFiring'
<1>1. /\ event = NoEvents /\ dispatching = NothingSent
      /\ UNCHANGED <<event, dispatching, engine, configured>>
      /\ \A r \in Rules : lastSent'[r] = IF r \in DueForReminder(now) THEN now ELSE lastSent[r]
  BY DEF Remind, CheckRepeat, IInv, EventsOnlyInProcess
<1>2. \A r \in DueForReminder(now) : lastSent[r] # Never
  BY DEF DueForReminder
<1>3. \A r \in Rules : lastSent'[r] # Never <=> lastSent[r] # Never
  BY <1>1, <1>2 DEF IInv, TypeOK
<1> QED
  BY <1>1, <1>3 DEF IInv, EventsOnlyInProcess, EngineKnowsConfigured,
     AlertedIffFiring, NoEvents, NothingSent

LEMMA IInvStep == IInv /\ TypeOK' /\ [Next]_vars => IInv'
<1> SUFFICES ASSUME IInv, TypeOK', [Next]_vars PROVE IInv'
  OBVIOUS
<1>1. CASE Start
  <2>1. event = NoEvents /\ dispatching = NothingSent
    BY <1>1 DEF Start, IInv, EventsOnlyInProcess
  <2>2. \E config : InitState(config, saved) \/ InitState(config, NothingSaved)
    BY <1>1 DEF Start
  <2>3. /\ \A r \in Rules : NothingSaved[r].status = "firing" <=> NothingSaved[r].lastSentAt # Never
        /\ \A r \in Rules : saved[r].status = "firing" <=> saved[r].lastSentAt # Never
    BY DEF NothingSaved, AbsentSaved, IInv, SavedAlertedIffFiring
  <2>4. UNCHANGED <<event, dispatching, saved>> /\ pc' = "ready"
    BY <1>1 DEF Start
  <2>5. saved \in [Rules -> SavedRule]
    BY DEF IInv, TypeOK
  <2>6. EngineKnowsConfigured' /\ AlertedIffFiring'
    BY <2>1, <2>2, <2>3, <2>4, <2>5, StartConsistent, NothingSavedType
  <2>7. EventsOnlyInProcess' /\ SavedAlertedIffFiring'
    BY <2>1, <2>4 DEF IInv, EventsOnlyInProcess, SavedAlertedIffFiring, NothingSent, NoEvents
  <2> QED
    BY <2>6, <2>7 DEF IInv
<1>2. CASE EvaluateRules
  <2>1. UNCHANGED saved
    BY <1>2 DEF EvaluateRules
  <2> QED
    BY <1>2, <2>1, EvaluateConsistent DEF IInv, SavedAlertedIffFiring
<1>3. ASSUME NEW r \in Rules, ProcessEvent(r) \/ Notify(r) PROVE IInv'
  <2>1. UNCHANGED saved
    BY <1>3 DEF ProcessEvent, Notify
  <2> QED
    BY <1>3, <2>1, DispatchConsistent DEF IInv, SavedAlertedIffFiring
<1>4. CASE Remind
  <2>1. UNCHANGED saved
    BY <1>4 DEF Remind
  <2> QED
    BY <1>4, <2>1, RemindConsistent DEF IInv, SavedAlertedIffFiring
<1>5. CASE SaveState
  <2>1. event = NoEvents
    BY <1>5 DEF SaveState, IInv, EventsOnlyInProcess
  <2>2. SavedAlertedIffFiring'
    BY <1>5, <2>1, WriteConsistent DEF SaveState
  <2>3. UNCHANGED <<event, dispatching, engine, lastSent, configured>>
    BY <1>5 DEF SaveState, engineVars, alertVars
  <2>4. EventsOnlyInProcess' /\ EngineKnowsConfigured' /\ AlertedIffFiring'
    BY <1>5, <2>1, <2>3 DEF SaveState, IInv, EventsOnlyInProcess,
       EngineKnowsConfigured, AlertedIffFiring, NoEvents, NothingSent
  <2> QED
    BY <2>2, <2>4 DEF IInv
<1>6. CASE FinishShutdown
  <2>1. event = NoEvents
    BY <1>6 DEF FinishShutdown, IInv, EventsOnlyInProcess
  <2>2. SavedAlertedIffFiring'
    BY <1>6, <2>1, WriteConsistent DEF FinishShutdown
  <2> QED
    BY <1>6, <2>2, EndsConsistent DEF FinishShutdown, IInv
<1>7. CASE Crash
  BY <1>7, EndsConsistent DEF Crash, IInv, SavedAlertedIffFiring
<1>8. CASE BeginCycle \/ SampleCPU \/ Collect \/ ProcessDone \/ BeginShutdown
           \/ Cancel \/ Tick \/ TimePasses \/ ClockSetBack \/ UNCHANGED vars
  <2>1. UNCHANGED <<event, dispatching, engine, lastSent, configured, saved>>
    BY <1>8 DEF BeginCycle, SampleCPU, Collect, ProcessDone, BeginShutdown,
       Cancel, Tick, TimePasses, ClockSetBack, vars, engineVars, alertVars, processVars
  <2>2. pc # "process" \/ event = NoEvents \/ pc' = "process"
    BY <1>8 DEF BeginCycle, SampleCPU, Collect, ProcessDone, BeginShutdown,
       Cancel, Tick, TimePasses, ClockSetBack, vars, processVars
  <2>3. event = NoEvents => dispatching = NothingSent
    BY DEF IInv, TypeOK, AlertTypeOK, EventsOnlyInProcess, NoEvents, NothingSent
  <2>4. EventsOnlyInProcess'
    BY <2>1, <2>2, <2>3 DEF IInv, EventsOnlyInProcess, NoEvents, NothingSent
  <2> QED
    BY <2>1, <2>4 DEF IInv, EngineKnowsConfigured, AlertedIffFiring, SavedAlertedIffFiring
<1> QED
  BY <1>1, <1>2, <1>3, <1>4, <1>5, <1>6, <1>7, <1>8 DEF Next, Cycle

\* The inductive invariant holds of every behaviour, with every failure.
THEOREM IInvCorrect == Spec => []IInv
<1>1. Init => EventsOnlyInProcess /\ EngineKnowsConfigured /\ AlertedIffFiring
              /\ SavedAlertedIffFiring
  BY DEF Init, AlertInit, NoEvents, NothingSent, NewEngine, AbsentRule,
     NothingSaved, AbsentSaved, EventsOnlyInProcess, EngineKnowsConfigured,
     AlertedIffFiring, SavedAlertedIffFiring
<1>2. Init /\ TypeOK => IInv
  BY <1>1 DEF IInv
<1> QED
  BY <1>2, IInvStep, TypeCorrect, PTL DEF Spec

\* A rule is firing exactly when its alert has been sent and its recovery has
\* not: sendAlert never drops a new alert as a duplicate, and every firing rule
\* has the lastSent entry without which CheckRepeat would pass it over.
THEOREM AlertedIffFiringCorrect == Spec => []AlertedIffFiring
<1>1. IInv => AlertedIffFiring
  BY DEF IInv
<1> QED
  BY <1>1, IInvCorrect, PTL

\* state.json always restores a firing rule together with its lastSent.
THEOREM SavedAlertedIffFiringCorrect == Spec => []SavedAlertedIffFiring
<1>1. IInv => SavedAlertedIffFiring
  BY DEF IInv
<1> QED
  BY <1>1, IInvCorrect, PTL

\* After CheckRepeat no firing rule has been silent for repeat_interval.
THEOREM NoReminderOverdueCorrect == Spec => NoReminderOverdue
<1> DEFINE InTime(r) == /\ lastSent'[r] # Never
                        /\ lastSent'[r] = now \/ now - lastSent'[r] < RepeatInterval
           NoneOverdue == \A r \in FiringRules : InTime(r)
<1>1. IInv /\ [Next]_vars => [pc = "repeat" /\ pc' = "save" => NoneOverdue]_vars
  <2> SUFFICES ASSUME IInv, Next, pc = "repeat", pc' = "save" PROVE NoneOverdue
    OBVIOUS
  <2>1. Remind
    BY DEF Next, Cycle, Start, BeginCycle, SampleCPU, Collect, EvaluateRules,
       ProcessEvent, Notify, ProcessDone, SaveState, BeginShutdown,
       FinishShutdown, ProcessEnds, Cancel, Crash, Tick, TimePasses, ClockSetBack, processVars
  <2>2. /\ event = NoEvents
        /\ \A r \in Rules : lastSent'[r] = IF r \in DueForReminder(now) THEN now ELSE lastSent[r]
    BY <2>1 DEF Remind, CheckRepeat, IInv, EventsOnlyInProcess
  <2> SUFFICES ASSUME NEW r \in FiringRules PROVE InTime(r)
    OBVIOUS
  <2>3. r \in Rules /\ engine[r].status = "firing" /\ event[r] = "none" /\ r \in configured
    BY <2>2 DEF FiringRules, NoEvents, IInv, EngineKnowsConfigured
  <2>4. lastSent[r] # Never
    BY <2>3 DEF IInv, AlertedIffFiring
  <2>5. lastSent[r] \in Nat /\ now \in Nat
    BY <2>3, <2>4 DEF IInv, TypeOK, AlertTypeOK
  <2> QED
    BY <2>2, <2>3, <2>4, <2>5, RepeatAssumption DEF DueForReminder
<1> QED
  BY <1>1, IInvCorrect, PTL DEF Spec, NoReminderOverdue, NoneOverdue, InTime

----------------------------------------------------------------------------
(***************************************************************************)
(* What the steps do to the engine, the manager, the file and the wire,    *)
(* for the invariants below.                                               *)
(***************************************************************************)
Quietly ==
    \/ BeginCycle \/ SampleCPU \/ Collect \/ ProcessDone \/ BeginShutdown
    \/ Cancel \/ Tick \/ TimePasses \/ ClockSetBack \/ UNCHANGED vars

LEMMA QuietEffect ==
    ASSUME Quietly
    PROVE  UNCHANGED <<engine, event, lastSent, dispatching, wire, journal, configured,
                       saved, forgot>>
BY DEF Quietly, BeginCycle, SampleCPU, Collect, ProcessDone, BeginShutdown, Cancel, Tick,
   TimePasses, ClockSetBack, vars, engineVars, alertVars, processVars

LEMMA EvaluateEffect ==
    ASSUME IInv, EvaluateRules, NEW r \in Rules
    PROVE  /\ event[r] = "none" /\ dispatching[r] = Never
           /\ event'[r] = "none" =>
                (engine'[r].status = "firing" <=> engine[r].status = "firing")
           /\ event'[r] = "firing" =>
                engine[r].status = "pending" /\ engine'[r].status = "firing"
           /\ event'[r] = "recovered" =>
                engine[r].status = "firing" /\ engine'[r].status = "normal"
           /\ event'[r] \in EventKind
           /\ UNCHANGED <<lastSent, dispatching, wire, journal, configured, saved, forgot>>
<1>1. /\ event = NoEvents /\ dispatching = NothingSent
      /\ UNCHANGED <<lastSent, dispatching, wire, journal, configured, saved, forgot>>
  BY DEF IInv, EventsOnlyInProcess, EvaluateRules, alertVars
<1> DEFINE s == engine[r]
           high == Exceeded(snap[r])
<1>2. /\ engine'[r] = NextRuleState(r, high, evalAt)
      /\ event'[r] = NextEvent(r, high, evalAt)
  BY DEF EvaluateRules, Evaluate
<1>3. s \in RuleState /\ high \in BOOLEAN
  BY DEF IInv, TypeOK, EngineTypeOK, Exceeded
<1> QED
  BY <1>1, <1>2, <1>3 DEF NextRuleState, NextEvent, RuleState, Status, NormalRule, EventKind,
     NoEvents, NothingSent

\* No event is dropped as a duplicate.
LEMMA ProcessEffect ==
    ASSUME IInv, NEW r \in Rules, ProcessEvent(r)
    PROVE  /\ event[r] # "none"
           /\ dispatching = NothingSent
           /\ dispatching' = [dispatching EXCEPT ![r] = now]
           /\ now \in Nat
           /\ \/ journal' = [journal EXCEPT ![r] = event[r]]
              \/ Fault("append") /\ UNCHANGED journal
           /\ UNCHANGED <<pc, engine, event, lastSent, wire, configured, saved, forgot, now>>
<1>1. ~Deduped(r, now)
  BY DEF Deduped, IInv, AlertedIffFiring
<1> QED
  BY <1>1 DEF ProcessEvent, BeginDispatch, processVars, IInv, TypeOK

LEMMA NotifyEffect ==
    ASSUME IInv, NEW r \in Rules, Notify(r)
    PROVE  /\ dispatching[r] # Never
           /\ \/ event[r] = "firing" /\ engine[r].status = "firing"
              \/ event[r] = "recovered" /\ engine[r].status = "normal"
           /\ wire' = [wire EXCEPT ![r] = [kind |-> event[r], at |-> dispatching[r]]]
           /\ lastSent' = [lastSent EXCEPT
                 ![r] = IF event[r] = "firing" THEN dispatching[r] ELSE Never]
           /\ event' = [event EXCEPT ![r] = "none"]
           /\ dispatching' = [dispatching EXCEPT ![r] = Never]
           /\ UNCHANGED <<pc, engine, journal, configured, saved, forgot, now>>
<1>1. dispatching[r] # Never
  BY DEF Notify, EndDispatch
<1>2. event[r] \in {"firing", "recovered"}
  BY <1>1 DEF IInv, TypeOK, EngineTypeOK, EventKind, EventsOnlyInProcess
<1> QED
  BY <1>1, <1>2 DEF Notify, EndDispatch, processVars, IInv, AlertedIffFiring

LEMMA RemindEffect ==
    ASSUME IInv, Remind
    PROVE  /\ event = NoEvents /\ dispatching = NothingSent
           /\ pc # "down" /\ pc' # "down"
           /\ \A r \in Rules :
                /\ lastSent'[r] = IF r \in DueForReminder(now) THEN now ELSE lastSent[r]
                /\ wire'[r] = IF r \in DueForReminder(now)
                              THEN [kind |-> "reminder", at |-> now] ELSE wire[r]
           /\ UNCHANGED <<engine, event, dispatching, journal, configured, saved, forgot, now>>
BY DEF Remind, CheckRepeat, IInv, EventsOnlyInProcess

\* A write to state.json happens between Process runs, in SaveState or at the
\* end of an orderly shutdown.
LEMMA WriteEffect ==
    ASSUME IInv, SaveState \/ FinishShutdown
    PROVE  /\ event = NoEvents /\ dispatching = NothingSent
           /\ UNCHANGED <<wire, journal>>
           /\ \/ /\ \A r \in Rules :
                      /\ saved'[r].status = engine[r].status
                      /\ saved'[r].pendingSince = engine[r].pendingSince
                      /\ saved'[r].lastSentAt =
                           IF engine[r].status = "absent" THEN Never ELSE lastSent[r]
                 /\ forgot' = {}
              \/ Fault("save") /\ UNCHANGED <<saved, forgot>>
<1>1. WriteState /\ UNCHANGED <<wire, journal>> /\ pc # "process"
  BY DEF SaveState, FinishShutdown, ProcessEnds, alertVars
<1>2. event = NoEvents /\ dispatching = NothingSent
  BY <1>1 DEF IInv, EventsOnlyInProcess
<1>3. \/ saved' = StatesWithLastSent(lastSent) /\ forgot' = {}
      \/ Fault("save") /\ UNCHANGED <<saved, forgot>>
  BY <1>1 DEF WriteState
<1> QED
  BY <1>1, <1>2, <1>3 DEF StatesWithLastSent

\* A new process is given the file, or nothing.
GivenRules(restored) ==
    /\ restored = saved \/ ResetBaselineOnStart \/ "load" \in Faults
    /\ forgot' = {r \in Rules : saved[r].status = "firing" /\ restored[r].status # "firing"}
    /\ \A r \in Rules :
        /\ engine'[r] = IF r \notin configured' THEN AbsentRule
                        ELSE IF restored[r].status = "absent" THEN NormalRule
                        ELSE [status |-> restored[r].status,
                              pendingSince |-> restored[r].pendingSince,
                              firingSince |-> restored[r].firingSince]
        /\ lastSent'[r] = restored[r].lastSentAt

LEMMA GivenStatus ==
    ASSUME NEW restored, GivenRules(restored), NEW r \in Rules
    PROVE  /\ engine'[r].status = IF r \notin configured' THEN "absent"
                                  ELSE IF restored[r].status = "absent" THEN "normal"
                                  ELSE restored[r].status
           /\ engine'[r].status \notin {"absent", "normal"} =>
                engine'[r].pendingSince = restored[r].pendingSince
<1>1. CASE r \notin configured'
  <2>1. engine'[r] = AbsentRule
    BY <1>1 DEF GivenRules
  <2> QED
    BY <1>1, <2>1 DEF AbsentRule
<1>2. CASE r \in configured' /\ restored[r].status = "absent"
  <2>1. engine'[r] = NormalRule
    BY <1>2 DEF GivenRules
  <2> QED
    BY <1>2, <2>1 DEF NormalRule
<1>3. CASE r \in configured' /\ restored[r].status # "absent"
  <2>1. engine'[r] = [status |-> restored[r].status,
                      pendingSince |-> restored[r].pendingSince,
                      firingSince |-> restored[r].firingSince]
    BY <1>3 DEF GivenRules
  <2> QED
    BY <1>3, <2>1
<1> QED
  BY <1>1, <1>2, <1>3

LEMMA StartEffect ==
    ASSUME IInv, Start
    PROVE  /\ pc = "down" /\ pc' = "ready"
           /\ event = NoEvents /\ dispatching = NothingSent
           /\ UNCHANGED <<event, dispatching, wire, journal, saved, now, aboveSince, evalAt>>
           /\ configured' \in Configs
           /\ \E restored \in {saved, NothingSaved} : GivenRules(restored)
<1>1. /\ pc = "down" /\ pc' = "ready"
      /\ UNCHANGED <<event, dispatching, wire, journal, saved, now, aboveSince, evalAt>>
  BY DEF Start
<1>2. event = NoEvents /\ dispatching = NothingSent
  BY <1>1 DEF IInv, EventsOnlyInProcess
<1>3. PICK config \in Configs, file \in {saved, NothingSaved} :
        InitState(config, file) /\ (file = saved \/ "load" \in Faults)
  BY DEF Start, Fault
<1> DEFINE restored == IF ResetBaselineOnStart THEN NothingSaved ELSE file
<1>4. /\ configured' = config
      /\ engine' = RestoreStates(config, restored)
      /\ lastSent' = RestoreLastSent(restored)
      /\ forgot' = {r \in Rules : saved[r].status = "firing" /\ restored[r].status # "firing"}
  BY <1>3 DEF InitState
<1>5. /\ restored \in {saved, NothingSaved}
      /\ restored = saved \/ ResetBaselineOnStart \/ "load" \in Faults
  BY <1>3
<1> HIDE DEF restored
<1>6. GivenRules(restored)
  BY <1>4, <1>5 DEF GivenRules, RestoreStates, RestoreLastSent, NewEngine
<1> QED
  BY <1>1, <1>2, <1>3, <1>4, <1>5, <1>6

----------------------------------------------------------------------------
(***************************************************************************)
(* PersistedChangesAnnounced: while the engine and the file disagree about *)
(* a rule, the wire shows why, unless the process was not given the entry. *)
(***************************************************************************)
Owed ==
    \A r \in configured : event[r] = "none" =>
        /\ engine[r].status = "firing" /\ saved[r].status \notin {"firing", "absent"} =>
             Announced(r)
        /\ engine[r].status # "firing" /\ saved[r].status = "firing" /\ r \notin forgot =>
             wire[r].kind = "recovered"

LEMMA OwedStep == IInv /\ Owed /\ [Next]_vars => Owed'
<1> SUFFICES ASSUME IInv, Owed, [Next]_vars PROVE Owed'
  OBVIOUS
<1> configured \subseteq Rules
  BY DEF IInv, TypeOK
<1>1. CASE Quietly
  BY <1>1, QuietEffect DEF Owed, Announced
<1>2. CASE Start
  <2>1. configured' \subseteq Rules
    BY <1>2, StartEffect, ConfigsAssumption
  <2>2. \A r \in configured' :
          /\ engine'[r].status = "firing" => saved'[r].status = "firing"
          /\ engine'[r].status # "firing" /\ saved'[r].status = "firing" => r \in forgot'
    <3>1. PICK restored \in {saved, NothingSaved} : GivenRules(restored)
      BY <1>2, StartEffect
    <3>2. \A r \in configured' :
            engine'[r].status = IF restored[r].status = "absent" THEN "normal"
                                ELSE restored[r].status
      BY <2>1, <3>1, GivenStatus
    <3>3. UNCHANGED saved
      BY <1>2, StartEffect
    <3> QED
      BY <2>1, <3>1, <3>2, <3>3 DEF GivenRules, NothingSaved, AbsentSaved
  <2> QED
    BY <2>2 DEF Owed
<1>3. CASE EvaluateRules
  <2>1. UNCHANGED configured
    BY <1>3 DEF EvaluateRules
  <2> QED
    BY <1>3, <2>1, EvaluateEffect DEF Owed, Announced
<1>4. ASSUME NEW r \in Rules, ProcessEvent(r) PROVE Owed'
  BY <1>4, ProcessEffect DEF Owed, Announced
<1>5. ASSUME NEW r \in Rules, Notify(r) PROVE Owed'
  <2>1. \A q \in Rules : q # r =>
          wire'[q] = wire[q] /\ event'[q] = event[q]
    BY <1>5, NotifyEffect DEF IInv, TypeOK, EngineTypeOK, AlertTypeOK
  <2>2. \/ wire'[r].kind = "firing" /\ engine[r].status = "firing"
        \/ wire'[r].kind = "recovered" /\ engine[r].status = "normal"
    BY <1>5, NotifyEffect DEF IInv, TypeOK, AlertTypeOK
  <2> QED
    BY <1>5, <2>1, <2>2, NotifyEffect DEF Owed, Announced
<1>6. CASE Remind
  BY <1>6, RemindEffect DEF Owed, Announced, DueForReminder, FiringRules, NoEvents
<1>7. CASE SaveState
  <2>1. UNCHANGED <<engine, event, configured>>
    BY <1>7 DEF SaveState, engineVars
  <2> QED
    BY <1>7, <2>1, WriteEffect DEF Owed, Announced
<1>8. CASE FinishShutdown \/ Crash
  BY <1>8 DEF FinishShutdown, Crash, ProcessEnds, Owed
<1> QED
  BY <1>1, <1>2, <1>3, <1>4, <1>5, <1>6, <1>7, <1>8 DEF Next, Cycle, Quietly

\* Whatever crashes, saves and reads fail, and however the clock is set:
\* state.json changes a rule to or from firing only after the notifiers were
\* told, unless the process was refused the entry.
THEOREM PersistedChangesAnnouncedCorrect == Spec => PersistedChangesAnnounced
<1> DEFINE Told(r) ==
              saved[r].status # "absent" /\ saved'[r].status # "absent" =>
                /\ saved[r].status # "firing" /\ saved'[r].status = "firing" => Announced(r)'
                /\ saved[r].status = "firing" /\ saved'[r].status # "firing" =>
                     wire'[r].kind = "recovered" \/ r \in forgot
<1>1. Init => Owed
  BY DEF Init, Owed
<1>2. IInv /\ Owed /\ [Next]_vars => [\A r \in Rules : Told(r)]_vars
  <2> SUFFICES ASSUME IInv, Owed, Next, NEW r \in Rules PROVE Told(r)
    OBVIOUS
  <2>1. CASE SaveState \/ FinishShutdown
    <3>1. engine[r].status # "absent" => r \in configured
      BY DEF IInv, EngineKnowsConfigured
    <3> QED
      BY <2>1, <3>1, WriteEffect DEF Owed, Announced, NoEvents
  <2>2. CASE ~(SaveState \/ FinishShutdown)
    <3>1. UNCHANGED saved
      BY <2>2, QuietEffect
         DEF Next, Cycle, Quietly, Start, EvaluateRules, ProcessEvent, Notify, Remind, Crash
    <3> QED
      BY <3>1
  <2> QED
    BY <2>1, <2>2
<1> QED
  BY <1>1, <1>2, OwedStep, IInvCorrect, PTL DEF Spec, PersistedChangesAnnounced, Told

----------------------------------------------------------------------------
(***************************************************************************)
(* JournalMatchesWire, where every end of the process is orderly and every *)
(* write succeeds: a reminder is only sent of what the journal says is     *)
(* firing, also when the engine learned it from the file.                  *)
(***************************************************************************)
Recorded == Faults \cap {"crash", "append", "save"} = {}

Matches(r) == /\ journal[r] = "firing" <=> Announced(r)
              /\ journal[r] = "recovered" <=> wire[r].kind = "recovered"

JRule(r) ==
    /\ dispatching[r] = Never => Matches(r)
    /\ dispatching[r] # Never => journal[r] = event[r]
    /\ engine[r].status = "firing" /\ event[r] # "firing" => Announced(r)
    /\ pc = "down" /\ saved[r].status = "firing" => Announced(r)

JInv == \A r \in Rules : JRule(r)

LEMMA JInvInitially == Init => JInv
BY DEF Init, AlertInit, NothingSent, NoEvents, NewEngine, AbsentRule, NothingSaved, AbsentSaved,
   JInv, JRule, Matches, Announced

LEMMA JInvStep == ASSUME Recorded PROVE IInv /\ JInv /\ [Next]_vars => JInv'
<1> SUFFICES ASSUME IInv, JInv, [Next]_vars PROVE JInv'
  OBVIOUS
<1> USE DEF JRule, Matches, Announced
<1>1. CASE Quietly
  <2>1. pc' = "down" => pc = "down"
    BY <1>1 DEF Quietly, BeginCycle, SampleCPU, Collect, ProcessDone, BeginShutdown, Cancel,
       Tick, TimePasses, ClockSetBack, vars, processVars
  <2> QED
    BY <1>1, <2>1, QuietEffect DEF JInv
<1>2. CASE Start
  <2> SUFFICES ASSUME NEW r \in Rules, engine'[r].status = "firing" PROVE Announced(r)'
    BY <1>2, StartEffect DEF JInv
  <2>1. PICK restored \in {saved, NothingSaved} : GivenRules(restored)
    BY <1>2, StartEffect
  <2>2. restored[r].status = "firing"
    BY <2>1, GivenStatus
  <2>3. saved[r].status = "firing"
    BY <2>2 DEF NothingSaved, AbsentSaved
  <2> QED
    BY <1>2, <2>3, StartEffect DEF JInv
<1>3. CASE EvaluateRules
  <2> SUFFICES ASSUME NEW r \in Rules PROVE JRule(r)'
    BY DEF JInv
  <2>1. pc' # "down"
    BY <1>3 DEF EvaluateRules
  <2>2. dispatching'[r] = Never /\ Matches(r)'
    BY <1>3, EvaluateEffect DEF JInv
  <2>3. engine'[r].status = "firing" /\ event'[r] # "firing" => Announced(r)'
    BY <1>3, EvaluateEffect DEF JInv, EventKind
  <2> QED
    BY <2>1, <2>2, <2>3
<1>4. ASSUME NEW r \in Rules, ProcessEvent(r) PROVE JInv'
  <2>1. /\ journal' = [journal EXCEPT ![r] = event[r]]
        /\ dispatching' = [dispatching EXCEPT ![r] = now]
        /\ event[r] # "none" /\ dispatching[r] = Never /\ now # Never
        /\ UNCHANGED <<pc, engine, event, wire, saved>>
    BY <1>4, ProcessEffect DEF Fault, Recorded, NothingSent
  <2>2. journal \in [Rules -> EventKind] /\ dispatching \in [Rules -> OptionalInstant]
    BY DEF IInv, TypeOK, AlertTypeOK
  <2>3. JRule(r)'
    BY <2>1, <2>2 DEF JInv
  <2>4. ASSUME NEW q \in Rules, q # r PROVE JRule(q)'
    <3>1. journal'[q] = journal[q] /\ dispatching'[q] = dispatching[q]
      BY <2>1, <2>2, <2>4
    <3> QED
      BY <2>1, <2>4, <3>1 DEF JInv
  <2> QED
    BY <2>3, <2>4 DEF JInv
<1>5. ASSUME NEW r \in Rules, Notify(r) PROVE JInv'
  <2>1. /\ wire \in [Rules -> Message] /\ dispatching \in [Rules -> OptionalInstant]
        /\ event \in [Rules -> EventKind]
    BY DEF IInv, TypeOK, AlertTypeOK, EngineTypeOK
  <2>2. JRule(r)'
    <3>1. /\ wire'[r].kind = event[r] /\ event'[r] = "none" /\ dispatching'[r] = Never
          /\ journal'[r] = event[r] /\ UNCHANGED <<pc, engine, saved>>
      BY <1>5, <2>1, NotifyEffect DEF JInv
    <3>2. \/ event[r] = "firing" /\ engine[r].status = "firing"
          \/ event[r] = "recovered" /\ engine[r].status = "normal"
      BY <1>5, NotifyEffect
    <3>3. pc # "down"
      BY <1>5 DEF Notify
    <3> QED
      BY <3>1, <3>2, <3>3
  <2>3. ASSUME NEW q \in Rules, q # r PROVE JRule(q)'
    <3>1. /\ wire'[q] = wire[q] /\ event'[q] = event[q] /\ dispatching'[q] = dispatching[q]
          /\ UNCHANGED <<pc, engine, saved, journal>>
      BY <1>5, <2>1, <2>3, NotifyEffect
    <3> QED
      BY <2>3, <3>1 DEF JInv
  <2> QED
    BY <2>2, <2>3 DEF JInv
<1>6. CASE Remind
  <2>1. \A r \in DueForReminder(now) : engine[r].status = "firing" /\ r \in Rules
    BY DEF DueForReminder, FiringRules
  <2> SUFFICES ASSUME NEW r \in Rules PROVE JRule(r)'
    BY DEF JInv
  <2>2. /\ pc' # "down" /\ event[r] = "none" /\ dispatching[r] = Never
        /\ UNCHANGED <<engine, event, dispatching, journal>>
    BY <1>6, RemindEffect DEF NoEvents, NothingSent
  <2>3. CASE r \in DueForReminder(now)
    <3>1. wire'[r].kind = "reminder"
      BY <1>6, <2>3, RemindEffect
    <3>2. Announced(r) /\ Matches(r)
      BY <2>1, <2>2, <2>3 DEF JInv
    <3> QED
      BY <2>2, <3>1, <3>2
  <2>4. CASE r \notin DueForReminder(now)
    <3>1. wire'[r] = wire[r]
      BY <1>6, <2>4, RemindEffect
    <3> QED
      BY <2>2, <3>1 DEF JInv
  <2> QED
    BY <2>3, <2>4
<1>7. CASE SaveState
  <2>1. UNCHANGED <<engine, event, dispatching>> /\ pc' # "down"
    BY <1>7 DEF SaveState, engineVars, alertVars
  <2>2. UNCHANGED <<wire, journal>>
    BY <1>7, WriteEffect
  <2> QED
    BY <2>1, <2>2 DEF JInv
<1>8. CASE FinishShutdown
  <2>1. \A r \in Rules : saved'[r].status = engine[r].status
    BY <1>8, WriteEffect DEF Fault, Recorded
  <2>2. \A r \in Rules : engine'[r].status = "absent" /\ dispatching'[r] = Never
    BY <1>8 DEF FinishShutdown, ProcessEnds, NewEngine, AbsentRule, NothingSent
  <2> QED
    BY <1>8, <2>1, <2>2, WriteEffect DEF JInv, NoEvents, NothingSent
<1>9. CASE Crash
  BY <1>9 DEF Crash, Fault, Recorded
<1> QED
  BY <1>1, <1>2, <1>3, <1>4, <1>5, <1>6, <1>7, <1>8, <1>9 DEF Next, Cycle, Quietly

\* For any rules and configurations, lost readings, unreadable files and clocks
\* set back: while writes succeed and no crash falls between the journal and the
\* notifiers, alerts.ndjson agrees with what was sent.
THEOREM JournalMatchesWireCorrect ==
    ASSUME Recorded PROVE Spec => []JournalMatchesWire
<1>1. IInv /\ JInv => JournalMatchesWire
  BY DEF IInv, EventsOnlyInProcess, JInv, JRule, Matches, JournalMatchesWire
<1>2. IInv /\ JInv /\ [Next]_vars => JInv'
  BY JInvStep
<1> QED
  BY <1>1, <1>2, JInvInitially, IInvCorrect, PTL DEF Spec

----------------------------------------------------------------------------
(***************************************************************************)
(* SustainedBeforeFiring, where no start finds an older file than the last *)
(* cycle's and no clock is set back: a rule, in memory or in the file, has *)
(* been pending for no longer than its readings have been above.           *)
(***************************************************************************)
UpToDate == Faults \cap {"crash", "save", "clock"} = {}

InCycle == {"sample", "collect", "evaluate", "process"}

SRule(r) ==
    /\ aboveSince[r] <= now
    /\ pc \in InCycle => aboveSince[r] <= evalAt
    /\ pc = "evaluate" /\ snap[r] = "above" => aboveSince[r] # Never
    /\ engine[r].status = "pending" /\ (pc = "evaluate" => snap[r] = "above") =>
         aboveSince[r] # Never /\ aboveSince[r] <= engine[r].pendingSince
    /\ pc = "down" /\ saved[r].status = "pending" =>
         aboveSince[r] # Never /\ aboveSince[r] <= saved[r].pendingSince
    /\ event[r] = "firing" => aboveSince[r] # Never /\ evalAt - aboveSince[r] >= For[r]

SInv == /\ pc \in InCycle => evalAt # Never /\ evalAt <= now
        /\ \A r \in Rules : SRule(r)

LEMMA SInvInitially == Init => SInv
BY DEF Init, NewEngine, AbsentRule, NothingSaved, AbsentSaved, NothingSent, NoEvents, InCycle,
   SInv, SRule

LEMMA SInvStep == ASSUME UpToDate PROVE IInv /\ TypeOK' /\ SInv /\ [Next]_vars => SInv'
<1> SUFFICES ASSUME IInv, TypeOK', SInv, [Next]_vars PROVE SInv'
  OBVIOUS
<1> USE DEF SRule, InCycle
<1>a. /\ now \in Nat /\ evalAt \in OptionalInstant
      /\ \A r \in Rules : aboveSince[r] \in OptionalInstant /\ For[r] \in Nat
      /\ \A r \in Rules : engine[r] \in RuleState
      /\ pc # "process" => \A r \in Rules : event[r] = "none"
  BY ForAssumption DEF IInv, TypeOK, EngineTypeOK, EventsOnlyInProcess, NoEvents
<1>1. CASE Start
  <2>1. pc = "down" /\ pc' = "ready" /\ UNCHANGED <<event, saved, now, aboveSince, evalAt>>
    BY <1>1, StartEffect
  <2>2. PICK restored \in {saved, NothingSaved} : GivenRules(restored)
    BY <1>1, StartEffect
  <2> SUFFICES ASSUME NEW r \in Rules PROVE SRule(r)'
    BY <2>1 DEF SInv
  <2>3. engine'[r].status = "pending" =>
          saved[r].status = "pending" /\ engine'[r].pendingSince = saved[r].pendingSince
    BY <2>2, GivenStatus DEF NothingSaved, AbsentSaved
  <2> QED
    BY <1>a, <2>1, <2>3 DEF SInv
<1>2. CASE BeginCycle
  <2>1. /\ pc \in {"ready", "idle"} /\ pc' = "sample" /\ evalAt' = now
        /\ UNCHANGED <<engine, event, now, aboveSince, saved>>
    BY <1>2 DEF BeginCycle, engineVars
  <2> QED
    BY <1>a, <2>1 DEF SInv
<1>3. CASE SampleCPU
  <2>1. /\ pc = "sample" /\ pc' = "collect"
        /\ UNCHANGED <<engine, event, now, aboveSince, saved, evalAt>>
    BY <1>3 DEF SampleCPU, engineVars
  <2> QED
    BY <1>a, <2>1 DEF SInv
<1>4. CASE Collect
  <2>1. /\ pc = "collect" /\ pc' = "evaluate"
        /\ UNCHANGED <<engine, event, now, saved, evalAt>>
    BY <1>4 DEF Collect, engineVars
  <2> SUFFICES ASSUME NEW r \in Rules PROVE SRule(r)'
    BY <2>1 DEF SInv
  <2>2. \/ snap'[r] = "above" /\ aboveSince[r] = Never /\ aboveSince'[r] = evalAt
        \/ snap'[r] = "above" /\ aboveSince[r] # Never /\ aboveSince'[r] = aboveSince[r]
        \/ snap'[r] # "above" /\ aboveSince'[r] = Never
    BY <1>4 DEF Collect
  <2>3. evalAt # Never /\ evalAt <= now /\ aboveSince[r] <= evalAt /\ event[r] = "none"
    BY <1>a, <2>1 DEF SInv
  <2>4. engine[r].status = "pending" =>
          aboveSince[r] # Never /\ aboveSince[r] <= engine[r].pendingSince
    BY <2>1 DEF SInv
  <2> QED
    BY <1>a, <2>1, <2>2, <2>3, <2>4
<1>5. CASE EvaluateRules
  <2>1. /\ pc = "evaluate" /\ pc' = "process"
        /\ UNCHANGED <<now, aboveSince, saved, evalAt>>
    BY <1>5 DEF EvaluateRules
  <2> SUFFICES ASSUME NEW r \in Rules PROVE SRule(r)'
    BY <2>1 DEF SInv
  <2> DEFINE high == Exceeded(snap[r])
  <2>2. /\ engine'[r] = NextRuleState(r, high, evalAt)
        /\ event'[r] = NextEvent(r, high, evalAt)
    BY <1>5 DEF EvaluateRules, Evaluate
  <2>3. /\ evalAt # Never /\ aboveSince[r] <= evalAt /\ aboveSince[r] <= now
        /\ high => aboveSince[r] # Never
        /\ high /\ engine[r].status = "pending" => aboveSince[r] <= engine[r].pendingSince
        /\ high \in BOOLEAN
    BY <2>1 DEF SInv, Exceeded
  <2>4. /\ event'[r] = "firing" => high /\ engine[r].status = "pending" /\ LongEnough(r, evalAt)
        /\ engine'[r].status = "pending" =>
             high /\ (\/ engine'[r].pendingSince = evalAt
                     \/ /\ engine[r].status = "pending"
                        /\ engine'[r].pendingSince = engine[r].pendingSince)
    <3> HIDE DEF high
    <3> QED
      BY <1>a, <2>2, <2>3 DEF NextRuleState, NextEvent, RuleState, NormalRule
  <2>5. event'[r] = "firing" => evalAt - aboveSince[r] >= For[r]
    BY <1>a, <2>3, <2>4 DEF LongEnough, RuleState
  <2>6. engine'[r].status = "pending" =>
          aboveSince[r] # Never /\ aboveSince[r] <= engine'[r].pendingSince
    BY <2>3, <2>4
  <2> QED
    BY <2>1, <2>3, <2>4, <2>5, <2>6
<1>6. ASSUME NEW r \in Rules, ProcessEvent(r) \/ Notify(r) PROVE SInv'
  <2>1. pc = "process" /\ pc' = "process" /\ UNCHANGED <<engine, now, aboveSince, saved, evalAt>>
    BY <1>6 DEF ProcessEvent, Notify, processVars
  <2>2. \A q \in Rules : event'[q] = event[q] \/ event'[q] = "none"
    BY <1>6, ProcessEffect, NotifyEffect DEF IInv, TypeOK, EngineTypeOK
  <2> QED
    BY <2>1, <2>2 DEF SInv
<1>7. CASE ProcessDone \/ Remind \/ SaveState \/ BeginShutdown
  <2>1. /\ pc \in {"process", "repeat", "save", "idle"} /\ pc' \in {"repeat", "save", "idle", "stopping"}
        /\ UNCHANGED <<engine, now, aboveSince>>
        /\ \A r \in Rules : event'[r] = "none"
    BY <1>7, <1>a DEF ProcessDone, Remind, CheckRepeat, SaveState, BeginShutdown, engineVars, NoEvents
  <2> QED
    BY <2>1 DEF SInv
<1>8. CASE FinishShutdown
  <2>1. \A r \in Rules : /\ saved'[r].status = engine[r].status
                         /\ saved'[r].pendingSince = engine[r].pendingSince
    BY <1>8, WriteEffect DEF Fault, UpToDate
  <2>2. /\ pc = "stopping" /\ pc' = "down" /\ UNCHANGED <<now, aboveSince>>
        /\ \A r \in Rules : engine'[r].status = "absent" /\ event'[r] = "none"
    BY <1>8 DEF FinishShutdown, ProcessEnds, NewEngine, AbsentRule, NoEvents
  <2> QED
    BY <2>1, <2>2 DEF SInv
<1>9. CASE Cancel \/ Tick \/ UNCHANGED vars
  BY <1>9 DEF Cancel, Tick, vars, engineVars, processVars, SInv
<1>10. CASE TimePasses
  <2>1. now' = now + 1 /\ UNCHANGED <<pc, engine, event, aboveSince, saved, evalAt, snap>>
    BY <1>10 DEF TimePasses, engineVars, processVars
  <2> QED
    BY <1>a, <2>1 DEF SInv
<1>11. CASE Crash \/ ClockSetBack
  BY <1>11 DEF Crash, ClockSetBack, Fault, UpToDate
<1> QED
  BY <1>1, <1>2, <1>3, <1>4, <1>5, <1>6, <1>7, <1>8, <1>9, <1>10, <1>11 DEF Next, Cycle

\* For any rules, `for`s and configurations, lost readings, failed appends and
\* unreadable files, and whenever the process restarts: a rule that starts to
\* fire was above its threshold in every reading of the last For[r].
THEOREM SustainedBeforeFiringCorrect ==
    ASSUME UpToDate PROVE Spec => []SustainedBeforeFiring
<1>1. SInv => SustainedBeforeFiring
  BY DEF SInv, SRule, SustainedBeforeFiring
<1>2. IInv /\ TypeOK' /\ SInv /\ [Next]_vars => SInv'
  BY SInvStep
<1> QED
  BY <1>1, <1>2, SInvInitially, IInvCorrect, TypeCorrect, PTL DEF Spec

----------------------------------------------------------------------------
(***************************************************************************)
(* The refinement of NotificationContract, where only readings and journal *)
(* records are lost and the configuration stays: which rules are open, in  *)
(* memory or, between two processes, in the file, can be told from the     *)
(* wire, and so can when they were last sent.                              *)
(***************************************************************************)
Orderly ==
    /\ Faults \subseteq {"append", "collect"}
    /\ ~ResetBaselineOnStart
    /\ \A c, d \in Configs : c = d

Open(r) ==
    IF pc = "down" THEN saved[r].status = "firing"
    ELSE (engine[r].status = "firing" /\ event[r] # "firing") \/ event[r] = "recovered"

KRule(r) ==
    /\ Announced(r) <=> Open(r)
    /\ Announced(r) => wire[r].at = IF pc = "down" THEN saved[r].lastSentAt ELSE lastSent[r]
    /\ wire[r].at <= now
    /\ dispatching[r] # Never => wire[r].at <= dispatching[r] /\ dispatching[r] <= now
    /\ saved[r].status # "absent" => \A c \in Configs : r \in c

KInv == /\ pc # "down" => configured \in Configs
        /\ \A r \in Rules : KRule(r)

LEMMA KInvInitially == Init => KInv
BY DEF Init, AlertInit, NothingSent, NothingSaved, AbsentSaved, KInv, KRule, Open, Announced

LEMMA KInvStep == ASSUME Orderly PROVE IInv /\ TypeOK' /\ KInv /\ [Next]_vars => KInv'
<1> SUFFICES ASSUME IInv, TypeOK', KInv, [Next]_vars PROVE KInv'
  OBVIOUS
<1> USE DEF KRule, Open, Announced
<1>a. /\ now \in Nat /\ now' \in Nat
      /\ wire \in [Rules -> Message] /\ lastSent \in [Rules -> OptionalInstant]
      /\ dispatching \in [Rules -> OptionalInstant] /\ event \in [Rules -> EventKind]
      /\ \A r \in Rules : wire[r].at \in OptionalInstant
  BY DEF IInv, TypeOK, AlertTypeOK, EngineTypeOK, Message
<1>1. CASE Quietly
  <2>1. (pc = "down" <=> pc' = "down") /\ now' >= now
    BY <1>a, <1>1 DEF Quietly, BeginCycle, SampleCPU, Collect, ProcessDone, BeginShutdown, Cancel,
       Tick, TimePasses, ClockSetBack, vars, processVars, Fault, Orderly
  <2>2. UNCHANGED <<engine, event, lastSent, dispatching, wire, configured, saved>>
    BY <1>1, QuietEffect
  <2> QED
    BY <1>a, <2>1, <2>2 DEF KInv
<1>2. CASE Start
  <2>1. /\ pc = "down" /\ pc' = "ready" /\ configured' \in Configs
        /\ UNCHANGED <<event, dispatching, wire, saved, now>>
        /\ \A r \in Rules : event[r] = "none"
    BY <1>2, StartEffect DEF NoEvents
  <2>2. GivenRules(saved)
    BY <1>2, StartEffect DEF GivenRules, Orderly
  <2> SUFFICES ASSUME NEW r \in Rules PROVE KRule(r)'
    BY <2>1 DEF KInv
  <2>3. lastSent'[r] = saved[r].lastSentAt
    BY <2>2 DEF GivenRules
  <2>4. engine'[r].status = "firing" <=> saved[r].status = "firing"
    BY <2>1, <2>2, GivenStatus DEF KInv
  <2> QED
    BY <2>1, <2>3, <2>4 DEF KInv
<1>3. CASE EvaluateRules
  <2>1. pc # "down" /\ pc' # "down" /\ UNCHANGED <<now, configured>>
    BY <1>3 DEF EvaluateRules
  <2> SUFFICES ASSUME NEW r \in Rules PROVE KRule(r)'
    BY <2>1 DEF KInv
  <2>2. Open(r)' <=> Open(r)
    BY <1>3, <2>1, EvaluateEffect DEF EventKind
  <2>3. UNCHANGED <<lastSent, dispatching, wire, saved>>
    BY <1>3, EvaluateEffect
  <2> HIDE DEF Open
  <2> QED
    BY <2>1, <2>2, <2>3 DEF KInv
<1>4. ASSUME NEW r \in Rules, ProcessEvent(r) PROVE KInv'
  <2>1. /\ dispatching' = [dispatching EXCEPT ![r] = now]
        /\ UNCHANGED <<pc, engine, event, lastSent, wire, configured, saved, now>>
    BY <1>4, ProcessEffect
  <2> QED
    BY <1>a, <2>1 DEF KInv
<1>5. ASSUME NEW r \in Rules, Notify(r) PROVE KInv'
  <2>1. pc # "down" /\ UNCHANGED <<pc, engine, configured, saved, now>>
    BY <1>5, NotifyEffect DEF Notify
  <2>2. KRule(r)'
    <3>1. /\ dispatching[r] # Never /\ dispatching[r] <= now
          /\ wire'[r] = [kind |-> event[r], at |-> dispatching[r]]
          /\ lastSent'[r] = IF event[r] = "firing" THEN dispatching[r] ELSE Never
          /\ event'[r] = "none" /\ dispatching'[r] = Never
      BY <1>5, <1>a, NotifyEffect DEF KInv
    <3>2. wire'[r].kind = event[r] /\ wire'[r].at = dispatching[r]
      BY <3>1
    <3>3. \/ event[r] = "firing" /\ engine[r].status = "firing"
          \/ event[r] = "recovered" /\ engine[r].status = "normal"
      BY <1>5, NotifyEffect
    <3>4. saved[r].status # "absent" => \A c \in Configs : r \in c
      BY DEF KInv
    <3> QED
      BY <2>1, <3>1, <3>2, <3>3, <3>4
  <2>3. ASSUME NEW q \in Rules, q # r PROVE KRule(q)'
    <3>1. /\ wire'[q] = wire[q] /\ event'[q] = event[q] /\ dispatching'[q] = dispatching[q]
          /\ lastSent'[q] = lastSent[q]
      BY <1>5, <1>a, <2>3, NotifyEffect
    <3> QED
      BY <2>1, <2>3, <3>1 DEF KInv
  <2> QED
    BY <2>1, <2>2, <2>3 DEF KInv
<1>6. CASE Remind
  <2>1. /\ pc # "down" /\ pc' # "down"
        /\ UNCHANGED <<engine, event, dispatching, configured, saved, now>>
    BY <1>6, RemindEffect
  <2> SUFFICES ASSUME NEW r \in Rules PROVE KRule(r)'
    BY <2>1 DEF KInv
  <2>2. event[r] = "none" /\ dispatching[r] = Never
    BY <1>6, RemindEffect DEF NoEvents, NothingSent
  <2>3. CASE r \in DueForReminder(now)
    <3>1. /\ wire'[r] = [kind |-> "reminder", at |-> now] /\ lastSent'[r] = now
          /\ engine[r].status = "firing"
      BY <1>6, <2>3, RemindEffect DEF DueForReminder, FiringRules
    <3>2. wire'[r].kind = "reminder" /\ wire'[r].at = now
      BY <3>1
    <3> QED
      BY <1>a, <2>1, <2>2, <3>1, <3>2 DEF KInv
  <2>4. CASE r \notin DueForReminder(now)
    <3>1. wire'[r] = wire[r] /\ lastSent'[r] = lastSent[r]
      BY <1>6, <2>4, RemindEffect
    <3> QED
      BY <2>1, <3>1 DEF KInv
  <2> QED
    BY <2>3, <2>4
<1>7. CASE SaveState \/ FinishShutdown
  <2>1. \A r \in Rules :
          /\ saved'[r].status = engine[r].status
          /\ saved'[r].lastSentAt = IF engine[r].status = "absent" THEN Never ELSE lastSent[r]
    BY <1>7, WriteEffect DEF Fault, Orderly
  <2>2. /\ pc # "down" /\ UNCHANGED <<now, wire>>
        /\ \A r \in Rules : event[r] = "none" /\ event'[r] = "none" /\ dispatching'[r] = Never
        /\ \/ pc' # "down" /\ UNCHANGED <<configured, engine, lastSent>>
           \/ pc' = "down"
    BY <1>7, WriteEffect DEF SaveState, FinishShutdown, ProcessEnds, engineVars, alertVars,
       NoEvents, NothingSent
  <2> SUFFICES ASSUME NEW r \in Rules PROVE KRule(r)'
    BY <2>2 DEF KInv
  <2>3. saved'[r].status # "absent" => \A c \in Configs : r \in c
    BY <2>1, <2>2 DEF KInv, IInv, EngineKnowsConfigured, Orderly
  <2> QED
    BY <1>a, <2>1, <2>2, <2>3 DEF KInv
<1>8. CASE Crash
  BY <1>8 DEF Crash, Fault, Orderly
<1> QED
  BY <1>1, <1>2, <1>3, <1>4, <1>5, <1>6, <1>7, <1>8 DEF Next, Cycle, Quietly

\* Every step of the daemon is one of the contract, or does not show.
LEMMA StepMeetsContract ==
    ASSUME Orderly, IInv, KInv, [Next]_vars
    PROVE  [Contract!Next]_(Contract!vars)
<1> USE DEF Contract!vars
<1>a. /\ now \in Nat /\ wire \in [Rules -> Message]
      /\ dispatching \in [Rules -> OptionalInstant]
      /\ \A r \in Rules : wire[r].kind \in {"none", "firing", "reminder", "recovered"}
      /\ \A r \in Rules : wire[r].at \in OptionalInstant
  BY DEF IInv, TypeOK, AlertTypeOK, Message
<1>b. \A r \in Rules : Contract!Quiet(r) <=> ~Open(r)
  BY <1>a DEF Contract!Quiet, KInv, KRule, Announced
<1>1. ASSUME NEW r \in Rules, Notify(r) PROVE Contract!Next
  <2>1. /\ wire' = [wire EXCEPT ![r] = [kind |-> event[r], at |-> dispatching[r]]]
        /\ UNCHANGED now /\ pc # "down"
    BY <1>1, NotifyEffect DEF Notify
  <2>2. /\ dispatching[r] \in 0 .. now /\ wire[r].at <= dispatching[r]
    BY <1>a, <1>1, NotifyEffect DEF KInv, KRule
  <2>3. Contract!Send(r, event[r])
    BY <2>1, <2>2 DEF Contract!Send
  <2>4. \/ event[r] = "firing" /\ Contract!Quiet(r)
        \/ event[r] = "recovered" /\ ~Contract!Quiet(r)
    BY <1>b, <1>1, <2>1, NotifyEffect DEF Open
  <2> QED
    BY <2>3, <2>4 DEF Contract!Next, Contract!Alert, Contract!Recover
<1>2. CASE Remind
  <2> DEFINE due == DueForReminder(now)
  <2>1. /\ UNCHANGED now /\ pc # "down" /\ event = NoEvents
        /\ \A r \in Rules : wire'[r] = IF r \in due THEN [kind |-> "reminder", at |-> now] ELSE wire[r]
    BY <1>2, RemindEffect
  <2>2. wire' = [r \in Rules |-> IF r \in due THEN [kind |-> "reminder", at |-> now] ELSE wire[r]]
    BY <1>2 DEF Remind, CheckRepeat
  <2>3. CASE due = {}
    BY <1>a, <2>1, <2>2, <2>3
  <2>4. CASE due # {}
    <3>1. ASSUME NEW r \in due
          PROVE  r \in Rules /\ ~Contract!Quiet(r) /\ now - wire[r].at >= RepeatInterval
      <4>1. /\ r \in Rules /\ engine[r].status = "firing" /\ event[r] = "none"
            /\ now - lastSent[r] >= RepeatInterval
        BY <2>1, <3>1 DEF DueForReminder, FiringRules, NoEvents
      <4>2. Open(r)
        BY <2>1, <4>1 DEF Open
      <4>3. wire[r].at = lastSent[r]
        BY <2>1, <4>1, <4>2 DEF KInv, KRule
      <4> QED
        BY <1>b, <4>1, <4>2, <4>3
    <3>2. due \in SUBSET Rules
      BY <3>1
    <3>3. Contract!RemindAll(due)
      BY <2>1, <2>2, <2>4, <3>1 DEF Contract!RemindAll
    <3> QED
      BY <3>2, <3>3 DEF Contract!Next
  <2> QED
    BY <2>3, <2>4
<1>3. CASE TimePasses
  BY <1>3 DEF TimePasses, alertVars, Contract!Next, Contract!Tick
<1>4. CASE Start \/ EvaluateRules \/ SaveState \/ FinishShutdown \/ UNCHANGED vars
           \/ (\E r \in Rules : ProcessEvent(r))
  BY <1>4, ProcessEffect
     DEF Start, EvaluateRules, SaveState, FinishShutdown, ProcessEnds, vars, alertVars
<1>5. CASE BeginCycle \/ SampleCPU \/ Collect \/ ProcessDone \/ BeginShutdown \/ Cancel \/ Tick
  BY <1>5 DEF BeginCycle, SampleCPU, Collect, ProcessDone, BeginShutdown, Cancel, Tick, alertVars
<1>6. CASE Crash \/ ClockSetBack
  BY <1>6 DEF Crash, ClockSetBack, Fault, Orderly
<1> QED
  BY <1>1, <1>2, <1>3, <1>4, <1>5, <1>6 DEF Next, Cycle

\* For any rules and intervals, whenever the process is stopped and started: a
\* subscriber sees an alert, reminders that are repeat_interval apart and one
\* recovery of each rule, and no restart.
THEOREM MeetsContractCorrect == ASSUME Orderly PROVE Spec => MeetsContract
<1>1. Init => Contract!Init
  BY DEF Init, AlertInit, Contract!Init
<1>2. IInv /\ TypeOK' /\ KInv /\ [Next]_vars => KInv'
  BY KInvStep
<1>3. IInv /\ KInv /\ [Next]_vars => [Contract!Next]_(Contract!vars)
  BY StepMeetsContract
<1> QED
  BY <1>1, <1>2, <1>3, KInvInitially, IInvCorrect, TypeCorrect, PTL
     DEF Spec, MeetsContract, Contract!Spec

----------------------------------------------------------------------------
(***************************************************************************)
(* The complement of RecoveredOnlyIfMeasured, which does not hold: where   *)
(* no collector fails, the shutdown of the process is the only source of a *)
(* recovery nobody measured, and CPU rules are the only rules concerned.   *)
(***************************************************************************)
NoCollectorFails == "collect" \notin Faults

\* The cycle has a reading of r, or its sample was interrupted.
Read(r) == snap[r] \in {"above", "below"} \/ (r \in CpuRules /\ cancelled)

RInv ==
    /\ pc = "collect" => \A r \in configured \cap CpuRules : Read(r)
    /\ pc = "evaluate" => \A r \in configured : Read(r)
    /\ RecoveredUnlessInterrupted

LEMMA RInvInitially == Init => RInv
BY DEF Init, RInv, RecoveredUnlessInterrupted, NoEvents

LEMMA RInvStep == ASSUME NoCollectorFails PROVE IInv /\ RInv /\ [Next]_vars => RInv'
<1> SUFFICES ASSUME IInv, RInv, [Next]_vars PROVE RInv'
  OBVIOUS
<1> USE DEF RInv, RecoveredUnlessInterrupted, Read
<1>a. pc # "process" => event = NoEvents
  BY DEF IInv, EventsOnlyInProcess
<1>b. configured \subseteq Rules /\ CpuRules \subseteq Rules
  BY CpuAssumption DEF IInv, TypeOK
<1>1. CASE Start \/ BeginCycle \/ ProcessDone \/ Remind \/ SaveState \/ BeginShutdown
  <2>1. UNCHANGED event /\ event = NoEvents /\ pc' \notin {"collect", "evaluate"}
    BY <1>1, <1>a DEF Start, BeginCycle, ProcessDone, Remind, CheckRepeat, SaveState,
       BeginShutdown, engineVars, alertVars
  <2> QED
    BY <2>1 DEF NoEvents
<1>2. CASE SampleCPU
  <2>1. /\ pc' = "collect" /\ UNCHANGED <<event, configured, cancelled>> /\ event = NoEvents
        /\ \A r \in CpuRules \cap configured :
              snap'[r] \in {"above", "below"} \/ (snap'[r] = "lost" /\ cancelled)
    BY <1>2, <1>a, <1>b DEF SampleCPU, engineVars
  <2> QED
    BY <2>1 DEF NoEvents
<1>3. CASE Collect
  <2>1. /\ pc = "collect" /\ pc' = "evaluate"
        /\ UNCHANGED <<event, configured, cancelled>> /\ event = NoEvents
        /\ \E high \in SUBSET (configured \ CpuRules) :
              snap' = [r \in Rules |->
                CASE r \in {} -> "lost"
                  [] r \in high \ {} -> "above"
                  [] r \in (configured \ CpuRules) \ (high \cup {}) -> "below"
                  [] OTHER -> snap[r]]
    BY <1>3, <1>a DEF Collect, Fault, NoCollectorFails, engineVars
  <2>2. \A r \in configured :
          /\ r \notin CpuRules => snap'[r] \in {"above", "below"}
          /\ r \in CpuRules => snap'[r] = snap[r]
    BY <2>1, <1>b
  <2> QED
    BY <2>1, <2>2 DEF NoEvents
<1>4. CASE EvaluateRules
  <2>1. /\ pc = "evaluate" /\ pc' = "process" /\ UNCHANGED <<configured, cancelled, snap>>
        /\ \A r \in Rules : event'[r] = NextEvent(r, Exceeded(snap[r]), evalAt)
    BY <1>4 DEF EvaluateRules, Evaluate
  <2>2. ASSUME NEW r \in Rules, event'[r] = "recovered"
        PROVE  r \in configured /\ snap[r] # "above"
    BY <2>1, <2>2 DEF NextEvent, Exceeded, IInv, EngineKnowsConfigured
  <2> QED
    BY <2>1, <2>2
<1>5. ASSUME NEW r \in Rules, ProcessEvent(r) \/ Notify(r) PROVE RInv'
  <2>1. /\ pc = "process" /\ UNCHANGED <<pc, snap, cancelled>>
        /\ \A q \in Rules : event'[q] \in {event[q], "none"}
    BY <1>5 DEF ProcessEvent, BeginDispatch, Notify, EndDispatch, processVars,
       IInv, TypeOK, EngineTypeOK
  <2> QED
    BY <2>1
<1>6. CASE FinishShutdown \/ Crash
  BY <1>6 DEF FinishShutdown, Crash, ProcessEnds, NoEvents
<1>7. CASE Cancel
  BY <1>7 DEF Cancel, engineVars
<1>8. CASE Tick \/ TimePasses \/ ClockSetBack \/ UNCHANGED vars
  BY <1>8 DEF Tick, TimePasses, ClockSetBack, vars, engineVars, processVars
<1> QED
  BY <1>1, <1>2, <1>3, <1>4, <1>5, <1>6, <1>7, <1>8 DEF Next, Cycle

\* Where no collector fails: a rule is announced as recovered without a reading
\* below its threshold only if it is a CPU rule and the process is being stopped,
\* whatever crashes, saves and restarts came before.
THEOREM FalseRecoveryOnlyAtShutdown ==
    ASSUME NoCollectorFails PROVE Spec => []RecoveredUnlessInterrupted
<1>1. IInv /\ RInv /\ [Next]_vars => RInv'
  BY RInvStep
<1>2. RInv => RecoveredUnlessInterrupted
  BY DEF RInv
<1> QED
  BY <1>1, <1>2, RInvInitially, IInvCorrect, PTL DEF Spec

\* So a service without CPU rules announces only measured recoveries.
COROLLARY MeasuredWithoutCpuRules ==
    ASSUME NoCollectorFails, CpuRules = {} PROVE Spec => []RecoveredOnlyIfMeasured
<1>1. RecoveredUnlessInterrupted => RecoveredOnlyIfMeasured
  BY DEF RecoveredUnlessInterrupted, RecoveredOnlyIfMeasured
<1> QED
  BY <1>1, FalseRecoveryOnlyAtShutdown, PTL

\* The complement of the run DaemonReset: with reset_baseline_on_start off and
\* state.json readable, every rule of the new configuration goes on where the
\* file says it was, whatever else has failed and however the configuration has
\* changed.
THEOREM RuleStateSurvivesRestartCorrect ==
    ASSUME ~ResetBaselineOnStart, "load" \notin Faults
    PROVE  Spec => RuleStateSurvivesRestart
<1> DEFINE P == pc = "down" /\ pc' = "ready" =>
                  \A r \in configured' : saved[r].status # "absent" =>
                      engine'[r].status = saved[r].status
<1>1. IInv /\ [Next]_vars => [P]_vars
  <2> SUFFICES ASSUME IInv, Next, pc = "down", pc' = "ready" PROVE P
    OBVIOUS
  <2>1. Start
    BY DEF Next, Cycle, BeginCycle, SampleCPU, Collect, EvaluateRules, ProcessEvent,
       Notify, ProcessDone, Remind, SaveState, BeginShutdown, FinishShutdown,
       ProcessEnds, Cancel, Crash, Tick, TimePasses, ClockSetBack, processVars
  <2>2. PICK config \in Configs : InitState(config, saved)
    BY <2>1 DEF Start, Fault
  <2>3. configured' = config /\ config \subseteq Rules /\ engine' = RestoreStates(config, saved)
    BY <2>2, ConfigsAssumption DEF InitState
  <2> QED
    BY <2>3 DEF RestoreStates
<1> QED
  BY <1>1, IInvCorrect, PTL DEF Spec, RuleStateSurvivesRestart

====
