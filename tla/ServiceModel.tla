---- MODULE ServiceModel ----
(***************************************************************************)
(* The vocabulary the service's modules share: internal/model/model.go and *)
(* the part of internal/config/config.go that the alerting path reads.     *)
(*                                                                         *)
(* Instants are natural numbers.  A nil *time.Time and a key that is       *)
(* missing from a map[string]time.Time are both Never.                     *)
(***************************************************************************)
EXTENDS Integers, FiniteSets

CONSTANTS
    Rules,           \* names of alert rules, of every configuration
    For,             \* For[r]: how long r must exceed before it fires
    DedupWindow,     \* alerts.dedup_window
    RepeatInterval   \* alerts.repeat_interval

\* What an accepted configuration guarantees (ServiceConfig): Validate refuses
\* a rule whose `for` is not positive, and the defaults replace a zero
\* dedup_window or repeat_interval.  It accepts negative ones.
ASSUME ForAssumption == For \in [Rules -> Nat \ {0}]
ASSUME DedupAssumption == DedupWindow \in Int \ {0}
ASSUME RepeatAssumption == RepeatInterval \in Int \ {0}

Never == -1
Instant == Nat
OptionalInstant == Nat \cup {Never}

\* The value of RuleRuntimeState.Status; "absent" stands for a name that is
\* not a key of the map at all.
Status == {"absent", "normal", "pending", "firing"}

RuleState == [status : Status,
              pendingSince : OptionalInstant,
              firingSince : OptionalInstant]

\* A rule's entry of ServiceState.Rules in state.json.
SavedRule == [status : Status,
              pendingSince : OptionalInstant,
              firingSince : OptionalInstant,
              lastSentAt : OptionalInstant]

AbsentRule == [status |-> "absent", pendingSince |-> Never, firingSince |-> Never]
NormalRule == [status |-> "normal", pendingSince |-> Never, firingSince |-> Never]

\* What a cycle knows of the metric a rule watches.  "lost": its collector
\* returned an error or the context was cancelled, and the snapshot holds the
\* field's zero value.  "none": not collected yet in this cycle.
Reading == {"above", "below", "lost"}

\* Every threshold is > 0, so the zero value never exceeds one.
Exceeded(reading) == reading = "above"

====
