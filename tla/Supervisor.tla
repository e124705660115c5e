---- MODULE Supervisor ----
(***************************************************************************)
(* internal/integration/process.go and manager.go: the child processes the *)
(* daemon hosts (victoriametrics, vmagent).  Of each process there is a    *)
(* goroutine `run` that starts it, waits for it and restarts it after a    *)
(* backoff; main's Manager.Stop stops one process after the other.  They   *)
(* share p.cmd and the context, and both signal the same child.            *)
(*                                                                         *)
(* Children are numbered per process in the order of their start; p.cmd is *)
(* such a number, 0 for nil.  Timers fire at any moment, in any order: the *)
(* two of 5 s that race during a stop are started at different moments.    *)
(***************************************************************************)
EXTENDS Integers, Sequences

CONSTANTS
    Procs,       \* supervised processes
    Order,       \* Manager.processes: the order in which Stop visits them
    MaxStarts    \* bound: children per process

ASSUME OrderAssumption ==
    /\ Order \in Seq(Procs)
    /\ \A p \in Procs : \E i \in 1 .. Len(Order) : Order[i] = p
    /\ \A i, j \in 1 .. Len(Order) : Order[i] = Order[j] => i = j
ASSUME MaxStartsAssumption == MaxStarts \in Nat \ {0}

VARIABLES
    run,         \* run[p]: where the goroutine of p is
    started,     \* started[p]: the last child of p started, run's local cmd
    child,       \* child[p][n]: the n-th child of p
    cmd,         \* cmd[p]: p.cmd
    cancelled,   \* the context of the run loops is cancelled
    main,        \* where main is
    turn,        \* Stop's position in Order
    held,        \* held[p]: p.cmd as Stop(p) read it
    atCancel     \* observer: `started` when the context was cancelled

vars == <<run, started, child, cmd, cancelled, main, turn, held, atCancel>>
mainVars == <<main, turn, held>>

Nums == 1 .. MaxStarts
RunPC == {"start", "publish", "wait", "clear", "backoff",
          "terminating", "reaping", "stopped", "gone"}
MainPC == {"running", "capture", "signal", "poll", "stopped", "exited"}
ChildState == {"unborn", "running", "terminating", "killed", "dead"}
Alive == {"running", "terminating", "killed"}

\* The types: p.cmd is nil or a child that can have been started.
TypeOK ==
    /\ run \in [Procs -> RunPC]
    /\ started \in [Procs -> 0 .. MaxStarts]
    /\ child \in [Procs -> [Nums -> ChildState]]
    /\ cmd \in [Procs -> 0 .. MaxStarts]
    /\ cancelled \in BOOLEAN
    /\ main \in MainPC
    /\ turn \in 1 .. Len(Order) + 1
    /\ held \in [Procs -> 0 .. MaxStarts]
    /\ atCancel \in [Procs -> 0 .. MaxStarts]

\* Manager.Start has started the goroutines.
Init ==
    /\ run = [p \in Procs |-> "start"]
    /\ started = [p \in Procs |-> 0]
    /\ child = [p \in Procs |-> [n \in Nums |-> "unborn"]]
    /\ cmd = [p \in Procs |-> 0]
    /\ cancelled = FALSE
    /\ main = "running"
    /\ turn = 1
    /\ held = [p \in Procs |-> 0]
    /\ atCancel = [p \in Procs |-> MaxStarts]

----------------------------------------------------------------------------
Goto(p, from, to) == run[p] = from /\ run' = [run EXCEPT ![p] = to]

\* Signals reach a child only while it lives; to a dead one they are
\* os.ErrProcessDone, which every caller tolerates.
Terminated(state) == IF state = "running" THEN "terminating" ELSE state
Killed(state) == IF state \in Alive THEN "killed" ELSE state

Current(p) == child[p][started[p]]

\* cmd.Start at the loop's top, which does not look at the context.  A failed
\* start ends the supervision of p.
Spawn(p) ==
    /\ Goto(p, "start", "publish")
    /\ started[p] < MaxStarts
    /\ started' = [started EXCEPT ![p] = @ + 1]
    /\ child' = [child EXCEPT ![p][started[p] + 1] = "running"]
    /\ UNCHANGED <<cmd, cancelled, mainVars, atCancel>>

SpawnFails(p) ==
    /\ Goto(p, "start", "gone")
    /\ UNCHANGED <<started, child, cmd, cancelled, mainVars, atCancel>>

\* Mutation: p.cmd names the child after the one that was started.
PublishNext(p) ==
    /\ Goto(p, "publish", "wait")
    /\ cmd' = [cmd EXCEPT ![p] = started[p] + 1]
    /\ UNCHANGED <<started, child, cancelled, mainVars, atCancel>>

\* p.cmd = cmd under the lock: the child has been running for a while.
Publish(p) ==
    /\ Goto(p, "publish", "wait")
    /\ cmd' = [cmd EXCEPT ![p] = started[p]]
    /\ UNCHANGED <<started, child, cancelled, mainVars, atCancel>>

\* Mutation: any return of Wait, an error too, is taken for the child's end.
WaitReturnsEarly(p) ==
    /\ Goto(p, "wait", "clear")
    /\ UNCHANGED <<started, child, cmd, cancelled, mainVars, atCancel>>

\* The select takes waitCh.
WaitReturns(p) ==
    /\ Goto(p, "wait", "clear")
    /\ Current(p) = "dead"
    /\ UNCHANGED <<started, child, cmd, cancelled, mainVars, atCancel>>

\* Mutation: the backoff sleeps without watching the context.
ClearCmdAndSleep(p) ==
    /\ Goto(p, "clear", "backoff")
    /\ cmd' = [cmd EXCEPT ![p] = IF @ = started[p] THEN 0 ELSE @]
    /\ UNCHANGED <<started, child, cancelled, mainVars, atCancel>>

\* clearCmd, and the entry of the backoff's select: a context cancelled by
\* then wins, for the timer has just been set.
ClearCmd(p) ==
    /\ Goto(p, "clear", IF cancelled THEN "gone" ELSE "backoff")
    /\ cmd' = [cmd EXCEPT ![p] = IF @ = started[p] THEN 0 ELSE @]
    /\ UNCHANGED <<started, child, cancelled, mainVars, atCancel>>

BackoffEnds(p) ==
    /\ Goto(p, "backoff", "start")
    /\ started[p] < MaxStarts
    /\ UNCHANGED <<started, child, cmd, cancelled, mainVars, atCancel>>

BackoffCancelled(p) ==
    /\ cancelled
    /\ Goto(p, "backoff", "gone")
    /\ UNCHANGED <<started, child, cmd, cancelled, mainVars, atCancel>>

\* The select takes ctx.Done, also when waitCh is ready: stopCurrent signals
\* the child p.cmd names, which only this goroutine changes.
StopCurrent(p) ==
    /\ cancelled
    /\ Goto(p, "wait", "terminating")
    /\ child' = [child EXCEPT ![p][cmd[p]] = Terminated(@)]
    /\ UNCHANGED <<started, cmd, cancelled, mainVars, atCancel>>

\* Mutation: stopCurrent gives up at its timeout, with neither Kill nor <-waitCh.
StopCurrentGivesUp(p) ==
    /\ Goto(p, "terminating", "stopped")
    /\ UNCHANGED <<started, child, cmd, cancelled, mainVars, atCancel>>

StopCurrentTimesOut(p) ==
    /\ Goto(p, "terminating", "reaping")
    /\ child' = [child EXCEPT ![p][cmd[p]] = Killed(@)]
    /\ UNCHANGED <<started, cmd, cancelled, mainVars, atCancel>>

Reap(p) ==
    /\ Goto(p, "terminating", "stopped") \/ Goto(p, "reaping", "stopped")
    /\ Current(p) = "dead"
    /\ UNCHANGED <<started, child, cmd, cancelled, mainVars, atCancel>>

\* clearCmd at the end of stopCurrent; run returns.
ClearStopped(p) ==
    /\ Goto(p, "stopped", "gone")
    /\ cmd' = [cmd EXCEPT ![p] = IF @ = started[p] THEN 0 ELSE @]
    /\ UNCHANGED <<started, child, cancelled, mainVars, atCancel>>

Run(p) ==
    \/ Spawn(p) \/ SpawnFails(p) \/ Publish(p) \/ WaitReturns(p) \/ ClearCmd(p)
    \/ BackoffEnds(p) \/ BackoffCancelled(p)
    \/ StopCurrent(p) \/ StopCurrentTimesOut(p) \/ Reap(p) \/ ClearStopped(p)

----------------------------------------------------------------------------
\* A child ends by itself, by a signal, or not at all unless it is killed.
ChildDies(p, n) ==
    /\ child[p][n] \in Alive
    /\ child' = [child EXCEPT ![p][n] = "dead"]
    /\ UNCHANGED <<run, started, cmd, cancelled, mainVars, atCancel>>

\* The signal cancels the root context, of which the run loops' is a child,
\* long before main comes to Stop.
Cancel ==
    /\ main = "running"
    /\ ~cancelled
    /\ cancelled' = TRUE
    /\ atCancel' = started
    /\ UNCHANGED <<run, started, child, cmd, mainVars>>

BeginStop ==
    /\ main = "running"
    /\ cancelled
    /\ main' = IF Order = <<>> THEN "stopped" ELSE "capture"
    /\ UNCHANGED <<run, started, child, cmd, cancelled, turn, held, atCancel>>

Stopping == Order[turn]

\* Stop goes on to the next process of Order, or is done.
NextProcess ==
    /\ turn' = turn + 1
    /\ main' = IF turn = Len(Order) THEN "stopped" ELSE "capture"

\* Mutation: Stop waits for a child to appear in p.cmd.
CaptureCmdOfChild ==
    /\ main = "capture"
    /\ cmd[Stopping] # 0
    /\ held' = [held EXCEPT ![Stopping] = cmd[Stopping]]
    /\ main' = "signal"
    /\ UNCHANGED <<run, started, child, cmd, cancelled, turn, atCancel>>

\* Stop(p) reads p.cmd once and returns if there is no child.
CaptureCmd ==
    /\ main = "capture"
    /\ held' = [held EXCEPT ![Stopping] = cmd[Stopping]]
    /\ IF cmd[Stopping] = 0
       THEN NextProcess
       ELSE main' = "signal" /\ UNCHANGED turn
    /\ UNCHANGED <<run, started, child, cmd, cancelled, atCancel>>

\* Stop's early return when the signal cannot be sent is left out: a child of the
\* same user refuses it only when it is gone (os.ErrProcessDone), which Stop
\* tolerates.
StopSignals ==
    /\ main = "signal"
    /\ main' = "poll"
    /\ child' = [child EXCEPT ![Stopping][held[Stopping]] = Terminated(@)]
    /\ UNCHANGED <<run, started, cmd, cancelled, turn, held, atCancel>>

\* Stop polls p.cmd until the goroutine has cleared or replaced it ...
StopSeesCleared ==
    /\ main = "poll"
    /\ cmd[Stopping] # held[Stopping]
    /\ NextProcess
    /\ UNCHANGED <<run, started, child, cmd, cancelled, held, atCancel>>

\* ... or kills the child at the deadline, without waiting for its end.
StopTimesOut ==
    /\ main = "poll"
    /\ NextProcess
    /\ child' = [child EXCEPT ![Stopping][held[Stopping]] = Killed(@)]
    /\ UNCHANGED <<run, started, cmd, cancelled, held, atCancel>>

\* main returns: the goroutines are gone with the process, the children are not.
Exit ==
    /\ main = "stopped"
    /\ main' = "exited"
    /\ run' = [p \in Procs |-> "gone"]
    /\ UNCHANGED <<started, child, cmd, cancelled, turn, held, atCancel>>

Main == BeginStop \/ CaptureCmd \/ StopSignals \/ StopSeesCleared \/ StopTimesOut

Next ==
    \/ \E p \in Procs : Run(p) \/ \E n \in Nums : ChildDies(p, n)
    \/ Cancel \/ Main \/ Exit

Spec == Init /\ [][Next]_vars

\* The goroutines and Stop run on, timers fire, and SIGKILL ends a child.  No
\* child need end by itself or on SIGTERM; main need not exit.
Fairness ==
    /\ \A p \in Procs : WF_vars(Run(p))
    /\ \A p \in Procs, n \in Nums : WF_vars(child[p][n] = "killed" /\ ChildDies(p, n))
    /\ WF_vars(Main)

----------------------------------------------------------------------------
\* Never do two children of one process live at once: the second would find
\* the first's port and data directory taken.
AtMostOneChild ==
    \A p \in Procs, m, n \in Nums :
        child[p][m] \in Alive /\ child[p][n] \in Alive => m = n

\* When Stop has returned from a child it found in p.cmd, that child is dead
\* or has been sent SIGKILL: a changed p.cmd means it has been reaped.  (Stop
\* may find p.cmd nil between cmd.Start and its publication: such a child is
\* not covered, and main may exit before its goroutine stops it.)
HeldChildStopped ==
    \A i \in 1 .. Len(Order) :
        LET p == Order[i] IN
        i < turn /\ held[p] # 0 => child[p][held[p]] \in {"killed", "dead"}

\* The cancelled context lets at most one more child start, whichever way the
\* selects fall.
AtMostOneStartAfterCancel ==
    \A p \in Procs : cancelled => started[p] <= atCancel[p] + 1

\* If main does not exit first, every goroutine ends after the cancellation and
\* leaves no child behind, however often signals and exits of children cross.
CancelReapsChildren ==
    cancelled ~> \/ main = "exited"
                 \/ \A p \in Procs :
                        run[p] = "gone" /\ \A n \in Nums : child[p][n] \in {"unborn", "dead"}

====
