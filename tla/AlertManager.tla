---- MODULE AlertManager ----
(***************************************************************************)
(* internal/alert/manager.go: turns the engine's events into notifications *)
(* and journal records, and reminds of rules that go on firing.            *)
(*                                                                         *)
(* A dispatch is two steps, because a crash may fall between them: the     *)
(* dedup check with AppendAlert (BeginDispatch), then the notifiers and    *)
(* the update of lastSent (EndDispatch).                                   *)
(*                                                                         *)
(* `wire` and `journal` are what the outside sees: the last message handed *)
(* to the notifiers and the last record appended to alerts.ndjson, per     *)
(* rule.  An error of a notifier is only logged (line 130), so the program *)
(* behaves the same whether the message arrives or not.                    *)
(***************************************************************************)
EXTENDS RuleEngine

VARIABLES
    lastSent,      \* Manager.lastSent: when the rule's last alert was sent
    dispatching,   \* dispatching[r]: the instant dispatch of r's event began
    wire,          \* last message about r given to the notifiers
    journal        \* status of r's last record in alerts.ndjson

alertVars == <<lastSent, dispatching, wire, journal>>

Message == [kind : {"none", "firing", "reminder", "recovered"},
            at : OptionalInstant]

AlertTypeOK ==
    /\ lastSent \in [Rules -> OptionalInstant]
    /\ dispatching \in [Rules -> OptionalInstant]
    /\ wire \in [Rules -> Message]
    /\ journal \in [Rules -> EventKind]

NothingSent == [r \in Rules |-> Never]

AlertInit ==
    /\ lastSent = NothingSent
    /\ dispatching = NothingSent
    /\ wire = [r \in Rules |-> [kind |-> "none", at |-> Never]]
    /\ journal = NoEvents

\* RestoreLastSent: every saved entry counts, whether or not its rule is
\* still configured.
RestoreLastSent(saved) == [r \in Rules |-> saved[r].lastSentAt]

----------------------------------------------------------------------------

\* sendAlert's check: the rule was alerted less than dedup_window ago.
Deduped(r, at) ==
    /\ event[r] = "firing"
    /\ lastSent[r] # Never
    /\ at - lastSent[r] < DedupWindow

\* Mutation: only alerts, not recoveries, are appended to alerts.ndjson.
BeginDispatchAlertsOnly(r, at, written) ==
    /\ event[r] # "none"
    /\ dispatching = NothingSent
    /\ dispatching' = [dispatching EXCEPT ![r] = at]
    /\ journal' = IF written /\ event[r] = "firing"
                  THEN [journal EXCEPT ![r] = "firing"] ELSE journal
    /\ UNCHANGED <<event, lastSent, wire>>

\* Process takes the next event: sendRecovery always dispatches it, sendAlert
\* drops it when it is deduped.  AppendAlert's error is only logged, so a
\* record that is not `written` changes nothing else.
BeginDispatch(r, at, written) ==
    /\ event[r] # "none"
    /\ dispatching = NothingSent
    /\ IF Deduped(r, at)
       THEN /\ event' = [event EXCEPT ![r] = "none"]
            /\ UNCHANGED <<dispatching, journal>>
       ELSE /\ dispatching' = [dispatching EXCEPT ![r] = at]
            /\ journal' = IF written THEN [journal EXCEPT ![r] = event[r]] ELSE journal
            /\ UNCHANGED event
    /\ UNCHANGED <<lastSent, wire>>

\* Mutation: sendRecovery does not delete the lastSent entry.
EndDispatchKeepingLastSent(r) ==
    /\ dispatching[r] # Never
    /\ wire' = [wire EXCEPT ![r] = [kind |-> event[r], at |-> dispatching[r]]]
    /\ lastSent' = [lastSent EXCEPT ![r] = dispatching[r]]
    /\ event' = [event EXCEPT ![r] = "none"]
    /\ dispatching' = [dispatching EXCEPT ![r] = Never]
    /\ UNCHANGED journal

\* The notifiers are called, then sendAlert records the instant it started
\* with and sendRecovery forgets the rule.
EndDispatch(r) ==
    /\ dispatching[r] # Never
    /\ wire' = [wire EXCEPT ![r] = [kind |-> event[r], at |-> dispatching[r]]]
    /\ lastSent' = [lastSent EXCEPT
            ![r] = IF event[r] = "firing" THEN dispatching[r] ELSE Never]
    /\ event' = [event EXCEPT ![r] = "none"]
    /\ dispatching' = [dispatching EXCEPT ![r] = Never]
    /\ UNCHANGED journal

\* Mutation: the interval is compared with > instead of >=.
DueForReminderLate(at) ==
    {r \in FiringRules : lastSent[r] # Never /\ at - lastSent[r] > RepeatInterval}

\* The rules CheckRepeat sends a reminder for: one without a lastSent entry
\* is skipped.
DueForReminder(at) ==
    {r \in FiringRules : lastSent[r] # Never /\ at - lastSent[r] >= RepeatInterval}

\* Reminders go to the notifiers only (dispatch with persist = false).
CheckRepeat(at) ==
    /\ lastSent' = [r \in Rules |-> IF r \in DueForReminder(at) THEN at ELSE lastSent[r]]
    /\ wire' = [r \in Rules |->
            IF r \in DueForReminder(at) THEN [kind |-> "reminder", at |-> at] ELSE wire[r]]
    /\ UNCHANGED <<dispatching, journal, event>>

====
