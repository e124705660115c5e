---- MODULE RuleEngine ----
(***************************************************************************)
(* internal/rule/engine.go: one state machine per configured rule,         *)
(*     normal -> pending -> firing -> normal,                              *)
(* advanced by Evaluate once per collection cycle.  The events Evaluate    *)
(* returns are the function `event`: Evaluate appends at most one event    *)
(* per rule, and nothing depends on their order, which is the order of the *)
(* rules in the configuration.                                             *)
(***************************************************************************)
EXTENDS ServiceModel

VARIABLES
    engine,   \* Engine.states: the runtime state of every rule
    event     \* event[r]: the event of r that Process has not handled yet

engineVars == <<engine, event>>

EventKind == {"none", "firing", "recovered"}

EngineTypeOK ==
    /\ engine \in [Rules -> RuleState]
    /\ event \in [Rules -> EventKind]

NoEvents == [r \in Rules |-> "none"]

----------------------------------------------------------------------------

\* NewEngine(rules): every configured rule starts normal.
NewEngine(configured) ==
    [r \in Rules |-> IF r \in configured THEN NormalRule ELSE AbsentRule]

\* Mutation: a restart forgets the rules' states.
RestoreNoStates(configured, saved) == NewEngine(configured)

\* RestoreStates(saved) on a new engine: a saved entry replaces the state of
\* a configured rule; entries of rules no longer configured are ignored.
RestoreStates(configured, saved) ==
    [r \in Rules |->
        IF r \in configured /\ saved[r].status # "absent"
        THEN [status |-> saved[r].status,
              pendingSince |-> saved[r].pendingSince,
              firingSince |-> saved[r].firingSince]
        ELSE NewEngine(configured)[r]]

\* The pending rule r has exceeded for long enough at instant `at`.
LongEnough(r, at) ==
    /\ engine[r].pendingSince # Never
    /\ at - engine[r].pendingSince >= For[r]

\* Mutation: a reading below the threshold leaves a pending rule pending.
NextRuleStateStaysPending(r, exceeded, at) ==
    LET s == engine[r] IN
    CASE s.status = "normal" /\ exceeded ->
            [s EXCEPT !.status = "pending", !.pendingSince = at]
      [] s.status = "pending" /\ exceeded /\ LongEnough(r, at) ->
            [s EXCEPT !.status = "firing", !.firingSince = at]
      [] s.status = "firing" /\ ~exceeded -> NormalRule
      [] OTHER -> s

\* One rule's transition in Evaluate.
NextRuleState(r, exceeded, at) ==
    LET s == engine[r] IN
    CASE s.status = "normal" /\ exceeded ->
            [s EXCEPT !.status = "pending", !.pendingSince = at]
      [] s.status = "pending" /\ ~exceeded ->
            [s EXCEPT !.status = "normal", !.pendingSince = Never]
      [] s.status = "pending" /\ exceeded /\ LongEnough(r, at) ->
            [s EXCEPT !.status = "firing", !.firingSince = at]
      [] s.status = "firing" /\ ~exceeded -> NormalRule
      [] OTHER -> s

\* Mutation: a rule that becomes pending appends an event too.
NextEventOfPending(r, exceeded, at) ==
    CASE engine[r].status = "normal" /\ exceeded -> "pending"
      [] engine[r].status = "pending" /\ exceeded /\ LongEnough(r, at) -> "firing"
      [] engine[r].status = "firing" /\ ~exceeded -> "recovered"
      [] OTHER -> "none"

\* The event that transition appends, if any.
NextEvent(r, exceeded, at) ==
    CASE engine[r].status = "pending" /\ exceeded /\ LongEnough(r, at) -> "firing"
      [] engine[r].status = "firing" /\ ~exceeded -> "recovered"
      [] OTHER -> "none"

\* Evaluate(snap, now): `at` is the snapshot's instant, captured before the
\* collectors ran.
Evaluate(reading, at) ==
    /\ engine' = [r \in Rules |-> NextRuleState(r, Exceeded(reading[r]), at)]
    /\ event' = [r \in Rules |-> NextEvent(r, Exceeded(reading[r]), at)]

FiringRules == {r \in Rules : engine[r].status = "firing"}

\* Mutation: the states are saved without merging lastSent into them.
StatesUnmerged(lastSent) ==
    [r \in Rules |->
        [status |-> engine[r].status,
         pendingSince |-> engine[r].pendingSince,
         firingSince |-> engine[r].firingSince,
         lastSentAt |-> Never]]

\* States() with mergeLastSent (internal/daemon/daemon.go): the entries that
\* state.json receives.  lastSent of a rule that is not configured is dropped.
StatesWithLastSent(lastSent) ==
    [r \in Rules |->
        [status |-> engine[r].status,
         pendingSince |-> engine[r].pendingSince,
         firingSince |-> engine[r].firingSince,
         lastSentAt |-> IF engine[r].status = "absent" THEN Never ELSE lastSent[r]]]

====
