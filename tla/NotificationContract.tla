---- MODULE NotificationContract ----
(***************************************************************************)
(* What a subscriber may rely on, with no engine, manager, file or process *)
(* in sight: of each rule the messages alternate between an alert, any     *)
(* number of reminders at least repeat_interval apart, and one recovery.   *)
(* A restart is not visible.                                               *)
(***************************************************************************)
EXTENDS Integers

CONSTANTS Rules, RepeatInterval

VARIABLES now, wire

vars == <<now, wire>>

Quiet(r) == wire[r].kind \in {"none", "recovered"}

Init ==
    /\ now = 0
    /\ wire = [r \in Rules |-> [kind |-> "none", at |-> -1]]

Tick == now' = now + 1 /\ UNCHANGED wire

\* The message is stamped with the instant its sending began, which is not
\* later than now and not earlier than the message before it.
Send(r, kind) ==
    /\ \E at \in 0 .. now :
        /\ wire[r].at <= at
        /\ wire' = [wire EXCEPT ![r] = [kind |-> kind, at |-> at]]
    /\ UNCHANGED now

Alert(r) == Quiet(r) /\ Send(r, "firing")

Recover(r) == ~Quiet(r) /\ Send(r, "recovered")

\* One round of reminders.
RemindAll(rs) ==
    /\ rs # {}
    /\ \A r \in rs : ~Quiet(r) /\ now - wire[r].at >= RepeatInterval
    /\ wire' = [r \in Rules |->
            IF r \in rs THEN [kind |-> "reminder", at |-> now] ELSE wire[r]]
    /\ UNCHANGED now

Next ==
    \/ Tick
    \/ \E r \in Rules : Alert(r) \/ Recover(r)
    \/ \E rs \in SUBSET Rules : RemindAll(rs)

Spec == Init /\ [][Next]_vars

====
