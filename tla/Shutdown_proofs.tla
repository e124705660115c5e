---- MODULE Shutdown_proofs ----
(***************************************************************************)
(* Proofs about Supervisor and Shutdown, for every set of processes, in    *)
(* whatever order Stop visits them and however many children each of them  *)
(* has.  The first part is about Supervisor alone.  The composition        *)
(* implements Supervisor, so that what is established of the children      *)
(* holds of the whole daemon; and the bot never spins on its closed        *)
(* channel.                                                                *)
(***************************************************************************)
EXTENDS Shutdown, TLAPS


----------------------------------------------------------------------------
(***************************************************************************)
(* The inductive invariant                                                 *)
(***************************************************************************)

\* Where Stop is determines its position in Order.
TurnInOrder ==
    /\ main \in {"capture", "signal", "poll"} => turn \in 1 .. Len(Order)
    /\ main = "running" => turn = 1

\* main's exit ends the goroutines.
NoGoroutineAfterExit == main = "exited" => \A p \in Procs : run[p] = "gone"

\* The children are started one after the other, ...
StartedInOrder ==
    \A p \in Procs, n \in Nums : child[p][n] = "unborn" <=> n > started[p]

\* ... and while main runs only the one its goroutine attends to can live.
OnlyCurrentAlive ==
    \A p \in Procs, n \in Nums : child[p][n] \in Alive =>
        /\ n = started[p]
        /\ main = "exited" \/ run[p] \in {"publish", "wait", "terminating", "reaping"}

\* p.cmd is the current child, or nil.
CmdIsCurrent ==
    \A p \in Procs :
        /\ cmd[p] \in {0, started[p]}
        /\ run[p] \in {"start", "publish", "backoff"} => cmd[p] = 0
        /\ run[p] \in {"publish", "wait", "clear", "terminating", "reaping", "stopped"} =>
             started[p] # 0

\* p.cmd is cleared only of a child that has been reaped.
ClearedIsDead ==
    \A p \in Procs : run[p] \in {"clear", "stopped"} => Current(p) = "dead"

\* What Stop took from p.cmd is there still, or that child is dead.
HeldOrDead ==
    \A p \in Procs : held[p] # 0 =>
        /\ held[p] <= started[p]
        /\ cmd[p] = held[p] \/ child[p][held[p]] = "dead"

\* After the cancellation a start is left only to a goroutine on its way to it.
StartsLeft ==
    cancelled => \A p \in Procs :
        /\ started[p] <= atCancel[p] + 1
        /\ run[p] \in {"start", "backoff"} => started[p] <= atCancel[p]

IInv ==
    /\ TypeOK
    /\ TurnInOrder
    /\ NoGoroutineAfterExit
    /\ StartedInOrder
    /\ OnlyCurrentAlive
    /\ CmdIsCurrent
    /\ ClearedIsDead
    /\ HeldOrDead
    /\ HeldChildStopped
    /\ StartsLeft

----------------------------------------------------------------------------
LEMMA OrderInProcs == \A i \in 1 .. Len(Order) : Order[i] \in Procs
BY OrderAssumption

\* A step after which no child is younger: none is born, the dead stay dead
\* and a child that was killed does not recover.
ChildrenDecline ==
    /\ child' \in [Procs -> [Nums -> ChildState]]
    /\ \A p \in Procs, n \in Nums :
        /\ child'[p][n] = "unborn" <=> child[p][n] = "unborn"
        /\ child[p][n] = "dead" => child'[p][n] = "dead"
        /\ child[p][n] = "killed" => child'[p][n] \in {"killed", "dead"}

LEMMA UnchangedDecline ==
    ASSUME TypeOK, UNCHANGED child
    PROVE  ChildrenDecline
BY DEF TypeOK, ChildrenDecline

\* A signal, a kill or the end of one child.
LEMMA SignalDeclines ==
    ASSUME TypeOK, NEW p \in Procs, NEW n \in 0 .. MaxStarts,
           \/ child' = [child EXCEPT ![p][n] = Terminated(@)]
           \/ child' = [child EXCEPT ![p][n] = Killed(@)]
           \/ child[p][n] \in Alive /\ child' = [child EXCEPT ![p][n] = "dead"]
    PROVE  ChildrenDecline
<1>1. child \in [Procs -> [Nums -> ChildState]]
  BY DEF TypeOK
<1>2. child' \in [Procs -> [Nums -> ChildState]]
  BY <1>1 DEF Terminated, Killed, ChildState, Alive
<1>3. \A q \in Procs, k \in Nums :
        \/ child'[q][k] = child[q][k]
        \/ child'[q][k] = Terminated(child[q][k])
        \/ child'[q][k] = Killed(child[q][k])
        \/ child[q][k] \in Alive /\ child'[q][k] = "dead"
  BY <1>1
<1> QED
  BY <1>2, <1>3 DEF ChildrenDecline, Terminated, Killed, Alive

\* The part of the invariant about children alone survives a decline while
\* nobody is started and no goroutine lets go of a living child.
LEMMA DeclineKeeps ==
    ASSUME IInv, ChildrenDecline, UNCHANGED <<started, held>>
    PROVE  /\ StartedInOrder'
           /\ \A p \in Procs : held[p] # 0 => held[p] \in Nums
           /\ \A p \in Procs, n \in Nums : child'[p][n] \in Alive => child[p][n] \in Alive
<1>1. StartedInOrder'
  BY DEF IInv, StartedInOrder, ChildrenDecline
<1>2. \A p \in Procs : held[p] # 0 => held[p] \in Nums
  BY DEF IInv, TypeOK, Nums
<1>3. ASSUME NEW p \in Procs, NEW n \in Nums, child'[p][n] \in Alive
      PROVE  child[p][n] \in Alive
  <2>1. child[p][n] \in ChildState
    BY DEF IInv, TypeOK
  <2> QED
    BY <1>3, <2>1 DEF ChildrenDecline, Alive, ChildState
<1> QED
  BY <1>1, <1>2, <1>3

\* Stop's promise about the processes it has left is kept by a decline.
LEMMA DeclineKeepsHeld ==
    ASSUME IInv, ChildrenDecline, UNCHANGED <<turn, held>>
    PROVE  HeldChildStopped'
<1> SUFFICES ASSUME NEW i \in 1 .. Len(Order), i < turn, held[Order[i]] # 0
             PROVE  child'[Order[i]][held[Order[i]]] \in {"killed", "dead"}
  BY DEF HeldChildStopped
<1>1. Order[i] \in Procs
  BY OrderInProcs
<1>2. held[Order[i]] \in Nums
  BY <1>1 DEF IInv, TypeOK, Nums
<1>3. child[Order[i]][held[Order[i]]] \in {"killed", "dead"}
  BY DEF IInv, HeldChildStopped
<1> QED
  BY <1>1, <1>2, <1>3 DEF ChildrenDecline

----------------------------------------------------------------------------
(***************************************************************************)
(* The goroutines                                                          *)
(***************************************************************************)

\* A step of p's goroutine that starts nobody keeps the invariant if p itself
\* is in order after it.
LEMMA RunStep ==
    ASSUME IInv, TypeOK', ChildrenDecline,
           NEW p \in Procs,
           run[p] # "gone",
           \A q \in Procs \ {p} : run'[q] = run[q] /\ cmd'[q] = cmd[q],
           UNCHANGED <<started, cancelled, mainVars, atCancel>>,
           \/ run'[p] \in {"publish", "wait", "terminating", "reaping"}
           \/ \A n \in Nums : child[p][n] \notin Alive,
           cmd'[p] \in {0, started[p]},
           run'[p] \in {"start", "publish", "backoff"} => cmd'[p] = 0,
           run'[p] \in {"publish", "wait", "clear", "terminating", "reaping", "stopped"} =>
               started[p] # 0,
           run'[p] \in {"clear", "stopped"} => Current(p) = "dead",
           held[p] # 0 => cmd'[p] = held[p] \/ child[p][held[p]] = "dead",
           cancelled /\ run'[p] \in {"start", "backoff"} => started[p] <= atCancel[p]
    PROVE  IInv'
<1> USE DEF mainVars
<1>0. /\ run \in [Procs -> RunPC] /\ cmd \in [Procs -> 0 .. MaxStarts]
      /\ started \in [Procs -> 0 .. MaxStarts] /\ held \in [Procs -> 0 .. MaxStarts]
  BY DEF IInv, TypeOK
<1>1. main # "exited"
  BY DEF IInv, NoGoroutineAfterExit
<1>2. TurnInOrder' /\ NoGoroutineAfterExit'
  BY <1>1 DEF IInv, TurnInOrder, NoGoroutineAfterExit
<1>3. StartedInOrder' /\ HeldChildStopped'
  BY DeclineKeeps, DeclineKeepsHeld
<1>4. OnlyCurrentAlive'
  <2> SUFFICES ASSUME NEW q \in Procs, NEW n \in Nums, child'[q][n] \in Alive
               PROVE  /\ n = started[q]
                      /\ run'[q] \in {"publish", "wait", "terminating", "reaping"}
    BY DEF OnlyCurrentAlive
  <2>1. child[q][n] \in Alive
    BY DeclineKeeps
  <2> QED
    BY <1>0, <1>1, <2>1 DEF IInv, OnlyCurrentAlive
<1>5. CmdIsCurrent'
  BY <1>0 DEF IInv, CmdIsCurrent
<1>6. ClearedIsDead'
  <2> SUFFICES ASSUME NEW q \in Procs, run'[q] \in {"clear", "stopped"}
               PROVE  child'[q][started[q]] = "dead"
    BY DEF ClearedIsDead, Current
  <2>1. child[q][started[q]] = "dead"
    BY <1>0 DEF IInv, ClearedIsDead, Current
  <2>2. started[q] \in Nums
    BY <1>0 DEF IInv, CmdIsCurrent, Nums
  <2> QED
    BY <2>1, <2>2 DEF ChildrenDecline
<1>7. HeldOrDead'
  <2> SUFFICES ASSUME NEW q \in Procs, held[q] # 0
               PROVE  /\ held[q] <= started[q]
                      /\ cmd'[q] = held[q] \/ child'[q][held[q]] = "dead"
    BY DEF HeldOrDead
  <2>1. held[q] \in Nums
    BY <1>0 DEF Nums
  <2>2. /\ held[q] <= started[q]
        /\ cmd'[q] = held[q] \/ child[q][held[q]] = "dead"
    BY <1>0 DEF IInv, HeldOrDead
  <2> QED
    BY <2>1, <2>2 DEF ChildrenDecline
<1>8. StartsLeft'
  BY <1>0 DEF IInv, StartsLeft
<1> QED
  BY <1>2, <1>3, <1>4, <1>5, <1>6, <1>7, <1>8 DEF IInv

\* A goroutine that attends to no child has none alive.
LEMMA NoneAlive ==
    ASSUME IInv, NEW p \in Procs, run[p] # "gone",
           \/ run[p] \notin {"publish", "wait", "terminating", "reaping"}
           \/ Current(p) = "dead"
    PROVE  \A n \in Nums : child[p][n] \notin Alive
BY DEF IInv, NoGoroutineAfterExit, OnlyCurrentAlive, Current, Alive

\* Every step of a goroutine, except the start of a child, keeps the invariant.
LEMMA RunKeeps ==
    ASSUME IInv, NEW p \in Procs, Run(p), ~Spawn(p)
    PROVE  IInv'
<1> USE DEF Goto, mainVars
<1>0. /\ run \in [Procs -> RunPC] /\ cmd \in [Procs -> 0 .. MaxStarts]
      /\ started \in [Procs -> 0 .. MaxStarts] /\ held \in [Procs -> 0 .. MaxStarts]
      /\ child \in [Procs -> [Nums -> ChildState]]
      /\ TypeOK
  BY DEF IInv, TypeOK
<1>1. /\ cmd[p] \in {0, started[p]}
      /\ run[p] \in {"start", "publish", "backoff"} => cmd[p] = 0
      /\ run[p] \in {"publish", "wait", "clear", "terminating", "reaping", "stopped"} =>
           started[p] # 0
  BY DEF IInv, CmdIsCurrent
<1>2. run[p] \in {"clear", "stopped"} => Current(p) = "dead"
  BY DEF IInv, ClearedIsDead
<1>3. held[p] # 0 => cmd[p] = held[p] \/ child[p][held[p]] = "dead"
  BY DEF IInv, HeldOrDead
<1>4. cancelled /\ run[p] \in {"start", "backoff"} => started[p] <= atCancel[p]
  BY DEF IInv, StartsLeft
<1>5. CASE SpawnFails(p)
  <2> USE <1>5 DEF SpawnFails
  <2>1. TypeOK' /\ ChildrenDecline
    BY <1>0, UnchangedDecline DEF TypeOK, RunPC
  <2>2. \A n \in Nums : child[p][n] \notin Alive
    BY NoneAlive
  <2> QED
    BY <1>0, <1>1, <1>3, <2>1, <2>2, RunStep
<1>6. CASE Publish(p)
  <2> USE <1>6 DEF Publish
  <2>1. TypeOK' /\ ChildrenDecline
    BY <1>0, UnchangedDecline DEF TypeOK, RunPC
  <2> QED
    BY <1>0, <1>1, <1>3, <2>1, RunStep
<1>7. CASE WaitReturns(p)
  <2> USE <1>7 DEF WaitReturns
  <2>1. TypeOK' /\ ChildrenDecline
    BY <1>0, UnchangedDecline DEF TypeOK, RunPC
  <2>2. \A n \in Nums : child[p][n] \notin Alive
    BY NoneAlive
  <2> QED
    BY <1>0, <1>1, <1>3, <2>1, <2>2, RunStep
<1>8. CASE ClearCmd(p)
  <2> USE <1>8 DEF ClearCmd
  <2>0. run[p] = "clear" /\ cmd' = [cmd EXCEPT ![p] = 0]
    BY <1>1
  <2>1. TypeOK' /\ ChildrenDecline
    BY <1>0, UnchangedDecline, MaxStartsAssumption DEF TypeOK, RunPC
  <2>2. \A n \in Nums : child[p][n] \notin Alive
    BY <2>0, NoneAlive
  <2>3. held[p] # 0 => child[p][held[p]] = "dead"
    BY <1>1, <1>2, <1>3, <2>0 DEF Current
  <2>4. CASE cancelled
    BY <1>0, <2>0, <2>1, <2>2, <2>3, <2>4, RunStep, MaxStartsAssumption
  <2>5. CASE ~cancelled
    BY <1>0, <2>0, <2>1, <2>2, <2>3, <2>5, RunStep, MaxStartsAssumption
  <2> QED
    BY <2>4, <2>5
<1>9. CASE BackoffEnds(p)
  <2> USE <1>9 DEF BackoffEnds
  <2>1. TypeOK' /\ ChildrenDecline
    BY <1>0, UnchangedDecline DEF TypeOK, RunPC
  <2>2. \A n \in Nums : child[p][n] \notin Alive
    BY NoneAlive
  <2> QED
    BY <1>0, <1>1, <1>3, <1>4, <2>1, <2>2, RunStep
<1>10. CASE BackoffCancelled(p)
  <2> USE <1>10 DEF BackoffCancelled
  <2>1. TypeOK' /\ ChildrenDecline
    BY <1>0, UnchangedDecline DEF TypeOK, RunPC
  <2>2. \A n \in Nums : child[p][n] \notin Alive
    BY NoneAlive
  <2> QED
    BY <1>0, <1>1, <1>3, <2>1, <2>2, RunStep
<1>11. CASE StopCurrent(p)
  <2> USE <1>11 DEF StopCurrent
  <2>1. ChildrenDecline
    BY <1>0, SignalDeclines
  <2>2. TypeOK'
    BY <1>0, <2>1 DEF TypeOK, RunPC, ChildrenDecline
  <2> QED
    BY <1>0, <1>1, <1>3, <2>1, <2>2, RunStep
<1>12. CASE StopCurrentTimesOut(p)
  <2> USE <1>12 DEF StopCurrentTimesOut
  <2>1. ChildrenDecline
    BY <1>0, SignalDeclines
  <2>2. TypeOK'
    BY <1>0, <2>1 DEF TypeOK, RunPC, ChildrenDecline
  <2> QED
    BY <1>0, <1>1, <1>3, <2>1, <2>2, RunStep
<1>13. CASE Reap(p)
  <2> USE <1>13 DEF Reap
  <2>0. run[p] \in {"terminating", "reaping"} /\ run' = [run EXCEPT ![p] = "stopped"]
    OBVIOUS
  <2>1. TypeOK' /\ ChildrenDecline
    BY <1>0, <2>0, UnchangedDecline DEF TypeOK, RunPC
  <2>2. \A n \in Nums : child[p][n] \notin Alive
    BY <2>0, NoneAlive
  <2> QED
    BY <1>0, <1>1, <1>3, <2>0, <2>1, <2>2, RunStep
<1>14. CASE ClearStopped(p)
  <2> USE <1>14 DEF ClearStopped
  <2>0. run[p] = "stopped" /\ cmd' = [cmd EXCEPT ![p] = 0]
    BY <1>1
  <2>1. TypeOK' /\ ChildrenDecline
    BY <1>0, <2>0, UnchangedDecline, MaxStartsAssumption DEF TypeOK, RunPC
  <2>2. \A n \in Nums : child[p][n] \notin Alive
    BY <2>0, NoneAlive
  <2>3. held[p] # 0 => child[p][held[p]] = "dead"
    BY <1>1, <1>2, <1>3, <2>0 DEF Current
  <2> QED
    BY <1>0, <2>0, <2>1, <2>2, <2>3, RunStep, MaxStartsAssumption
<1> QED
  BY <1>5, <1>6, <1>7, <1>8, <1>9, <1>10, <1>11, <1>12, <1>13, <1>14 DEF Run

\* A start follows the end of the child before it.
LEMMA SpawnKeeps ==
    ASSUME IInv, NEW p \in Procs, Spawn(p)
    PROVE  IInv'
<1> USE DEF Spawn, Goto, mainVars
<1>0. /\ run \in [Procs -> RunPC] /\ cmd \in [Procs -> 0 .. MaxStarts]
      /\ started \in [Procs -> 0 .. MaxStarts] /\ held \in [Procs -> 0 .. MaxStarts]
      /\ child \in [Procs -> [Nums -> ChildState]]
      /\ MaxStarts \in Nat
  BY MaxStartsAssumption DEF IInv, TypeOK
<1>1. started[p] + 1 \in Nums /\ started[p] + 1 \in 0 .. MaxStarts
  BY <1>0 DEF Nums
<1>2. main # "exited"
  BY DEF IInv, NoGoroutineAfterExit
<1>3. TypeOK'
  <2>1. /\ run' \in [Procs -> RunPC]
        /\ started' \in [Procs -> 0 .. MaxStarts]
        /\ child' \in [Procs -> [Nums -> ChildState]]
    BY <1>0, <1>1 DEF RunPC, ChildState
  <2> QED
    BY <2>1 DEF IInv, TypeOK
<1>4. /\ \A q \in Procs, n \in Nums :
            child'[q][n] = IF q = p /\ n = started[p] + 1 THEN "running" ELSE child[q][n]
      /\ \A q \in Procs : /\ started'[q] = IF q = p THEN started[p] + 1 ELSE started[q]
                          /\ run'[q] = IF q = p THEN "publish" ELSE run[q]
  BY <1>0
<1>5. \A n \in Nums : child[p][n] \notin Alive
  BY NoneAlive
<1>6. TurnInOrder' /\ NoGoroutineAfterExit'
  BY <1>2 DEF IInv, TurnInOrder, NoGoroutineAfterExit
<1>7. StartedInOrder'
  <2> SUFFICES ASSUME NEW q \in Procs, NEW n \in Nums
               PROVE  child'[q][n] = "unborn" <=> n > started'[q]
    BY DEF StartedInOrder
  <2>1. child[q][n] = "unborn" <=> n > started[q]
    BY DEF IInv, StartedInOrder
  <2> QED
    BY <1>0, <1>4, <2>1 DEF Nums
<1>8. OnlyCurrentAlive'
  <2> SUFFICES ASSUME NEW q \in Procs, NEW n \in Nums, child'[q][n] \in Alive
               PROVE  /\ n = started'[q]
                      /\ run'[q] \in {"publish", "wait", "terminating", "reaping"}
    BY DEF OnlyCurrentAlive
  <2> QED
    BY <1>2, <1>4, <1>5 DEF IInv, OnlyCurrentAlive
<1>9. CmdIsCurrent'
  BY <1>0, <1>4 DEF IInv, CmdIsCurrent
<1>10. ClearedIsDead'
  <2> SUFFICES ASSUME NEW q \in Procs, run'[q] \in {"clear", "stopped"}
               PROVE  child'[q][started'[q]] = "dead"
    BY DEF ClearedIsDead, Current
  <2>1. q # p /\ child[q][started[q]] = "dead"
    BY <1>4 DEF IInv, ClearedIsDead, Current
  <2> QED
    BY <1>0, <2>1
<1>11. HeldOrDead'
  <2> SUFFICES ASSUME NEW q \in Procs, held[q] # 0
               PROVE  /\ held[q] <= started'[q]
                      /\ cmd[q] = held[q] \/ child'[q][held[q]] = "dead"
    BY DEF HeldOrDead
  <2>1. /\ held[q] <= started[q]
        /\ cmd[q] = held[q] \/ child[q][held[q]] = "dead"
    BY DEF IInv, HeldOrDead
  <2>2. held[q] \in Nums
    BY <1>0 DEF Nums
  <2> QED
    BY <1>0, <1>4, <2>1, <2>2
<1>12. HeldChildStopped'
  <2> SUFFICES ASSUME NEW i \in 1 .. Len(Order), i < turn, held[Order[i]] # 0
               PROVE  child'[Order[i]][held[Order[i]]] \in {"killed", "dead"}
    BY DEF HeldChildStopped
  <2>0. Order[i] \in Procs
    BY OrderInProcs
  <2>1. held[Order[i]] \in Nums
    BY <1>0, <2>0 DEF Nums
  <2>2. child[Order[i]][held[Order[i]]] \in {"killed", "dead"}
    BY DEF IInv, HeldChildStopped
  <2>3. held[Order[i]] <= started[Order[i]]
    BY <2>0 DEF IInv, HeldOrDead
  <2> QED
    BY <1>0, <1>4, <2>0, <2>1, <2>2, <2>3
<1>13. StartsLeft'
  <2> SUFFICES ASSUME cancelled, NEW q \in Procs
               PROVE  /\ started'[q] <= atCancel[q] + 1
                      /\ run'[q] \in {"start", "backoff"} => started'[q] <= atCancel[q]
    BY DEF StartsLeft
  <2>1. /\ started[q] <= atCancel[q] + 1
        /\ run[q] \in {"start", "backoff"} => started[q] <= atCancel[q]
    BY DEF IInv, StartsLeft
  <2>2. atCancel[q] \in Nat /\ started[q] \in Nat
    BY DEF IInv, TypeOK
  <2>3. CASE q = p
    <3>1. started[p] <= atCancel[p]
      BY <2>1, <2>3
    <3>2. started'[q] = started[p] + 1 /\ run'[q] = "publish"
      BY <1>4, <2>3
    <3> QED
      BY <2>2, <2>3, <3>1, <3>2
  <2>4. CASE q # p
    BY <1>4, <2>1, <2>4
  <2> QED
    BY <2>3, <2>4
<1> QED
  BY <1>3, <1>6, <1>7, <1>8, <1>9, <1>10, <1>11, <1>12, <1>13 DEF IInv

----------------------------------------------------------------------------
(***************************************************************************)
(* main, the children and the signal                                       *)
(***************************************************************************)

\* A step of main in which children at most decline keeps the invariant if
\* Stop's own part of it holds after the step.
LEMMA MainStep ==
    ASSUME IInv, TypeOK', ChildrenDecline,
           UNCHANGED <<run, started, cmd, cancelled, atCancel>>,
           main = "exited" <=> main' = "exited",
           TurnInOrder', HeldOrDead', HeldChildStopped'
    PROVE  IInv'
<1>0. started \in [Procs -> 0 .. MaxStarts] /\ child \in [Procs -> [Nums -> ChildState]]
  BY DEF IInv, TypeOK
<1>1. NoGoroutineAfterExit' /\ CmdIsCurrent' /\ StartsLeft'
  BY DEF IInv, NoGoroutineAfterExit, CmdIsCurrent, StartsLeft
<1>2. StartedInOrder'
  BY DEF IInv, StartedInOrder, ChildrenDecline
<1>3. OnlyCurrentAlive'
  <2> SUFFICES ASSUME NEW p \in Procs, NEW n \in Nums, child'[p][n] \in Alive
               PROVE  child[p][n] \in Alive
    BY DEF IInv, OnlyCurrentAlive
  <2>1. child[p][n] \in ChildState
    BY <1>0
  <2> QED
    BY <2>1 DEF ChildrenDecline, Alive, ChildState
<1>4. ClearedIsDead'
  <2> SUFFICES ASSUME NEW p \in Procs, run[p] \in {"clear", "stopped"}
               PROVE  child'[p][started[p]] = "dead"
    BY DEF ClearedIsDead, Current
  <2>1. started[p] \in Nums /\ child[p][started[p]] = "dead"
    BY <1>0 DEF IInv, ClearedIsDead, Current, CmdIsCurrent, Nums
  <2> QED
    BY <2>1 DEF ChildrenDecline
<1> QED
  BY <1>1, <1>2, <1>3, <1>4 DEF IInv

\* What Stop holds is not disturbed by a decline of the children.
LEMMA HeldStays ==
    ASSUME IInv, ChildrenDecline, UNCHANGED <<started, cmd, held>>
    PROVE  HeldOrDead'
<1> SUFFICES ASSUME NEW p \in Procs, held[p] # 0
             PROVE  /\ held[p] <= started[p]
                    /\ cmd[p] = held[p] \/ child'[p][held[p]] = "dead"
  BY DEF HeldOrDead
<1>1. held[p] \in Nums
  BY DEF IInv, TypeOK, Nums
<1> QED
  BY <1>1 DEF IInv, HeldOrDead, ChildrenDecline

\* The processes Stop has left stay left when it goes on to the next one.
LEMMA NextProcessKeeps ==
    ASSUME IInv, TypeOK', ChildrenDecline, UNCHANGED <<run, started, cmd, cancelled, atCancel>>,
           main \in {"capture", "signal", "poll"}, NextProcess,
           held' = held \/ held' = [held EXCEPT ![Stopping] = 0],
           held'[Stopping] # 0 => child'[Stopping][held[Stopping]] \in {"killed", "dead"}
    PROVE  IInv'
<1>0a. Len(Order) \in Nat
  BY OrderAssumption
<1>0b. turn \in 1 .. Len(Order)
  BY DEF IInv, TurnInOrder
<1>0. /\ held \in [Procs -> 0 .. MaxStarts] /\ turn \in Nat /\ Len(Order) \in Nat
      /\ turn \in 1 .. Len(Order)
  BY <1>0a, <1>0b DEF IInv, TypeOK
<1>1. Stopping \in Procs
  BY <1>0, OrderInProcs DEF Stopping
<1>2. TurnInOrder' /\ main' # "exited"
  BY <1>0 DEF NextProcess, TurnInOrder
<1>3. \A p \in Procs : held'[p] # 0 => held'[p] = held[p] /\ held[p] \in Nums
  BY <1>0 DEF Nums
<1>4. HeldOrDead'
  <2> SUFFICES ASSUME NEW p \in Procs, held'[p] # 0
               PROVE  /\ held[p] <= started[p]
                      /\ cmd[p] = held[p] \/ child'[p][held[p]] = "dead"
    BY <1>3 DEF HeldOrDead
  <2> QED
    BY <1>3 DEF IInv, HeldOrDead, ChildrenDecline
<1>5. HeldChildStopped'
  <2> SUFFICES ASSUME NEW i \in 1 .. Len(Order), i < turn + 1, held'[Order[i]] # 0
               PROVE  child'[Order[i]][held'[Order[i]]] \in {"killed", "dead"}
    BY DEF HeldChildStopped, NextProcess
  <2>1. Order[i] \in Procs
    BY OrderInProcs
  <2>2. CASE i = turn
    BY <1>3, <2>1, <2>2 DEF Stopping
  <2>3. CASE i < turn
    <3>1. child[Order[i]][held[Order[i]]] \in {"killed", "dead"}
      BY <1>3, <2>1, <2>3 DEF IInv, HeldChildStopped
    <3> QED
      BY <1>3, <2>1, <3>1 DEF ChildrenDecline
  <2> QED
    BY <1>0, <2>2, <2>3
<1> QED
  BY <1>2, <1>4, <1>5, MainStep

\* Every step of main before its exit keeps the invariant.
LEMMA MainKeeps ==
    ASSUME IInv, Main
    PROVE  IInv'
<1>0. /\ held \in [Procs -> 0 .. MaxStarts] /\ cmd \in [Procs -> 0 .. MaxStarts]
      /\ started \in [Procs -> 0 .. MaxStarts]
      /\ Len(Order) \in Nat /\ turn \in 1 .. Len(Order) + 1
      /\ TypeOK
  BY OrderAssumption DEF IInv, TypeOK
<1>1. CASE BeginStop
  <2> USE <1>1 DEF BeginStop
  <2>1. TypeOK' /\ ChildrenDecline
    BY <1>0, UnchangedDecline DEF TypeOK, MainPC
  <2>2. TurnInOrder'
    BY <1>0, OrderAssumption DEF IInv, TurnInOrder
  <2>3. HeldOrDead' /\ HeldChildStopped'
    BY <2>1, HeldStays, DeclineKeepsHeld
  <2> QED
    BY <2>1, <2>2, <2>3, MainStep
<1>2. CASE CaptureCmd
  <2> USE <1>2 DEF CaptureCmd
  <2>0. turn \in 1 .. Len(Order)
    BY DEF IInv, TurnInOrder
  <2>1. Stopping \in Procs
    BY <2>0, OrderInProcs DEF Stopping
  <2>2. TypeOK' /\ ChildrenDecline
    BY <1>0, <2>0, <2>1, UnchangedDecline DEF TypeOK, MainPC, NextProcess
  <2>3. CASE cmd[Stopping] = 0
    BY <1>0, <2>1, <2>2, <2>3, NextProcessKeeps
  <2>4. CASE cmd[Stopping] # 0
    <3>1. main' = "signal" /\ turn' = turn
      BY <2>4
    <3>2. TurnInOrder'
      BY <2>0, <3>1 DEF TurnInOrder
    <3>3. HeldOrDead'
      BY <1>0, <2>1 DEF IInv, HeldOrDead, CmdIsCurrent
    <3>4. HeldChildStopped'
      <4> SUFFICES ASSUME NEW i \in 1 .. Len(Order), i < turn, held'[Order[i]] # 0
                   PROVE  child[Order[i]][held'[Order[i]]] \in {"killed", "dead"}
        BY <3>1 DEF HeldChildStopped
      <4>1. Order[i] \in Procs /\ Order[i] # Stopping
        BY <2>0, OrderAssumption DEF Stopping
      <4> QED
        BY <1>0, <4>1 DEF IInv, HeldChildStopped
    <3> QED
      BY <2>2, <3>1, <3>2, <3>3, <3>4, MainStep
  <2> QED
    BY <2>3, <2>4
<1>3. CASE StopSignals
  <2> USE <1>3 DEF StopSignals
  <2>0. turn \in 1 .. Len(Order)
    BY DEF IInv, TurnInOrder
  <2>1. Stopping \in Procs
    BY <2>0, OrderInProcs DEF Stopping
  <2>2. ChildrenDecline
    BY <1>0, <2>1, SignalDeclines
  <2>3. TypeOK'
    BY <1>0, <2>2 DEF TypeOK, MainPC, ChildrenDecline
  <2>4. TurnInOrder' /\ HeldOrDead' /\ HeldChildStopped'
    BY <2>0, <2>2, HeldStays, DeclineKeepsHeld DEF TurnInOrder
  <2> QED
    BY <2>2, <2>3, <2>4, MainStep
<1>4. CASE StopSeesCleared
  <2> USE <1>4 DEF StopSeesCleared
  <2>0. turn \in 1 .. Len(Order)
    BY DEF IInv, TurnInOrder
  <2>1. Stopping \in Procs
    BY <2>0, OrderInProcs DEF Stopping
  <2>2. TypeOK' /\ ChildrenDecline
    BY <1>0, <2>0, UnchangedDecline DEF TypeOK, MainPC, NextProcess
  <2>3. held[Stopping] # 0 => child[Stopping][held[Stopping]] = "dead"
    BY <2>1 DEF IInv, HeldOrDead
  <2> QED
    BY <2>2, <2>3, NextProcessKeeps
<1>5. CASE StopTimesOut
  <2> USE <1>5 DEF StopTimesOut
  <2>0. turn \in 1 .. Len(Order)
    BY DEF IInv, TurnInOrder
  <2>1. Stopping \in Procs
    BY <2>0, OrderInProcs DEF Stopping
  <2>2. ChildrenDecline
    BY <1>0, <2>1, SignalDeclines
  <2>3. TypeOK'
    BY <1>0, <2>0, <2>2 DEF TypeOK, MainPC, NextProcess, ChildrenDecline
  <2>4. ASSUME held[Stopping] # 0
        PROVE  child'[Stopping][held[Stopping]] \in {"killed", "dead"}
    <3>1. held[Stopping] \in Nums /\ held[Stopping] <= started[Stopping]
      BY <1>0, <2>1, <2>4 DEF IInv, HeldOrDead, Nums
    <3>2. /\ child[Stopping] \in [Nums -> ChildState]
          /\ child[Stopping][held[Stopping]] # "unborn"
      BY <1>0, <2>1, <3>1 DEF IInv, TypeOK, StartedInOrder
    <3>3. child'[Stopping][held[Stopping]] = Killed(child[Stopping][held[Stopping]])
      BY <1>0, <2>1, <3>1, <3>2 DEF TypeOK
    <3>4. child[Stopping][held[Stopping]] \in Alive \cup {"dead"}
      BY <3>1, <3>2 DEF ChildState, Alive
    <3> QED
      BY <3>3, <3>4 DEF Killed
  <2> QED
    BY <2>2, <2>3, <2>4, NextProcessKeeps
<1> QED
  BY <1>1, <1>2, <1>3, <1>4, <1>5 DEF Main

\* The end of a child, the signal and main's exit keep the invariant.
LEMMA OthersKeep ==
    ASSUME IInv, \/ \E p \in Procs, n \in Nums : ChildDies(p, n)
                 \/ Cancel \/ Exit
    PROVE  IInv'
<1>0. TypeOK
  BY DEF IInv
<1>1. ASSUME NEW p \in Procs, NEW n \in Nums, ChildDies(p, n)
      PROVE  IInv'
  <2> USE <1>1 DEF ChildDies, mainVars
  <2>0. n \in 0 .. MaxStarts
    BY MaxStartsAssumption DEF Nums
  <2>1. ChildrenDecline
    BY <1>0, <2>0, SignalDeclines
  <2>2. TypeOK'
    BY <1>0, <2>1 DEF TypeOK, ChildrenDecline
  <2>3. TurnInOrder' /\ HeldOrDead' /\ HeldChildStopped'
    BY <2>1, HeldStays, DeclineKeepsHeld DEF IInv, TurnInOrder
  <2> QED
    BY <2>1, <2>2, <2>3, MainStep
<1>2. CASE Cancel
  <2> USE <1>2 DEF Cancel, mainVars
  <2>1. TypeOK'
    BY <1>0 DEF TypeOK
  <2>2. StartsLeft'
    BY <1>0 DEF StartsLeft, TypeOK
  <2> QED
    BY <2>1, <2>2 DEF IInv, TurnInOrder, NoGoroutineAfterExit, StartedInOrder,
       OnlyCurrentAlive, CmdIsCurrent, ClearedIsDead, Current, HeldOrDead, HeldChildStopped
<1>3. CASE Exit
  <2> USE <1>3 DEF Exit
  <2>1. TypeOK'
    BY <1>0 DEF TypeOK, RunPC, MainPC
  <2>2. TurnInOrder' /\ NoGoroutineAfterExit'
    BY DEF TurnInOrder, NoGoroutineAfterExit
  <2>3. OnlyCurrentAlive' /\ CmdIsCurrent' /\ ClearedIsDead'
    BY DEF IInv, OnlyCurrentAlive, CmdIsCurrent, ClearedIsDead, Current
  <2>4. StartsLeft'
    BY DEF IInv, StartsLeft
  <2> QED
    BY <2>1, <2>2, <2>3, <2>4 DEF IInv, StartedInOrder, HeldOrDead, HeldChildStopped
<1> QED
  BY <1>1, <1>2, <1>3

----------------------------------------------------------------------------
(***************************************************************************)
(* The theorems                                                            *)
(***************************************************************************)

\* The inductive invariant holds at the start and is kept by every step.
THEOREM IInvCorrect == Spec => []IInv
<1>1. Init => IInv
  <2> SUFFICES ASSUME Init PROVE IInv
    OBVIOUS
  <2> USE MaxStartsAssumption DEF Init
  <2>1. TypeOK
    <3>1. Len(Order) \in Nat
      BY OrderAssumption
    <3>2. /\ run \in [Procs -> RunPC] /\ main \in MainPC /\ cancelled \in BOOLEAN
          /\ child \in [Procs -> [Nums -> ChildState]]
      BY DEF RunPC, MainPC, ChildState
    <3>3. /\ started \in [Procs -> 0 .. MaxStarts] /\ cmd \in [Procs -> 0 .. MaxStarts]
          /\ held \in [Procs -> 0 .. MaxStarts] /\ atCancel \in [Procs -> 0 .. MaxStarts]
      OBVIOUS
    <3> QED
      BY <3>1, <3>2, <3>3 DEF TypeOK
  <2>2. TurnInOrder /\ NoGoroutineAfterExit
    BY DEF TurnInOrder, NoGoroutineAfterExit
  <2>3. StartedInOrder /\ OnlyCurrentAlive
    BY DEF StartedInOrder, OnlyCurrentAlive, Nums, Alive
  <2>4. CmdIsCurrent /\ ClearedIsDead /\ StartsLeft
    BY DEF CmdIsCurrent, ClearedIsDead, StartsLeft
  <2>5. HeldOrDead /\ HeldChildStopped
    BY OrderInProcs DEF HeldOrDead, HeldChildStopped
  <2> QED
    BY <2>1, <2>2, <2>3, <2>4, <2>5 DEF IInv
<1>2. IInv /\ [Next]_vars => IInv'
  <2> SUFFICES ASSUME IInv, [Next]_vars PROVE IInv'
    OBVIOUS
  <2>1. CASE \E p \in Procs : Run(p)
    BY <2>1, RunKeeps, SpawnKeeps
  <2>2. CASE Main
    BY <2>2, MainKeeps
  <2>3. CASE (\E p \in Procs, n \in Nums : ChildDies(p, n)) \/ Cancel \/ Exit
    BY <2>3, OthersKeep
  <2>4. CASE UNCHANGED vars
    BY <2>4 DEF vars, mainVars, IInv, TypeOK, TurnInOrder, NoGoroutineAfterExit,
       StartedInOrder, OnlyCurrentAlive, CmdIsCurrent, ClearedIsDead, Current,
       HeldOrDead, HeldChildStopped, StartsLeft
  <2> QED
    BY <2>1, <2>2, <2>3, <2>4 DEF Next
<1> QED
  BY <1>1, <1>2, PTL DEF Spec

\* Every variable keeps its type.
THEOREM TypeCorrect == Spec => []TypeOK
<1>1. IInv => TypeOK
  BY DEF IInv
<1> QED
  BY <1>1, IInvCorrect, PTL

\* The restart loop never runs two children of one process at once, however
\* its own steps, main's and the children's ends are interleaved.
THEOREM AtMostOneChildCorrect == Spec => []AtMostOneChild
<1>1. IInv => AtMostOneChild
  BY DEF IInv, OnlyCurrentAlive, AtMostOneChild
<1> QED
  BY <1>1, IInvCorrect, PTL

\* Stop leaves no child it found in p.cmd without its end or a SIGKILL.
THEOREM HeldChildStoppedCorrect == Spec => []HeldChildStopped
<1>1. IInv => HeldChildStopped
  BY DEF IInv
<1> QED
  BY <1>1, IInvCorrect, PTL

\* After the cancellation each process is started once more at most.
THEOREM AtMostOneStartAfterCancelCorrect == Spec => []AtMostOneStartAfterCancel
<1>1. IInv => AtMostOneStartAfterCancel
  BY DEF IInv, StartsLeft, AtMostOneStartAfterCancel
<1> QED
  BY <1>1, IInvCorrect, PTL

----------------------------------------------------------------------------
\* The bot and the rest of main's shutdown leave the children alone and wait
\* for Manager.Stop: every step of the daemon is one of Supervisor's or none.
THEOREM ImplementsSupervisor == ShutdownSpec => Spec
<1>1. ShutdownInit => Init
  BY DEF ShutdownInit
<1>2. [ShutdownNext]_allVars => [Next]_vars
  <2> SUFFICES ASSUME [ShutdownNext]_allVars
               PROVE  [Next]_vars
    OBVIOUS
  <2>1. CASE Supervise
    BY <2>1 DEF Supervise, Next
  <2>2. CASE Answer
    BY <2>2 DEF Answer
  <2>3. CASE ShutdownSteps
    BY <2>3 DEF ShutdownSteps, StopBotContext, StopBotAndSave
  <2>4. CASE Return
    BY <2>4 DEF Return, Next
  <2>5. CASE UNCHANGED allVars
    BY <2>5 DEF allVars
  <2> QED
    BY <2>1, <2>2, <2>3, <2>4, <2>5 DEF ShutdownNext
<1> QED
  BY <1>1, <1>2, PTL DEF ShutdownSpec, Spec

\* In the whole daemon no two children of one process live at once.
COROLLARY DaemonAtMostOneChild == ShutdownSpec => []AtMostOneChild
  BY ImplementsSupervisor, AtMostOneChildCorrect, PTL

\* In the whole daemon a child that Stop found is dead or has been sent SIGKILL
\* when Stop has returned from it.
COROLLARY DaemonHeldChildStopped == ShutdownSpec => []HeldChildStopped
  BY ImplementsSupervisor, HeldChildStoppedCorrect, PTL

\* In the whole daemon each process is started once more at most after the
\* signal.
COROLLARY DaemonAtMostOneStartAfterCancel == ShutdownSpec => []AtMostOneStartAfterCancel
  BY ImplementsSupervisor, AtMostOneStartAfterCancelCorrect, PTL

\* The bot's goroutine, the library's and main's last stages keep to their states.
LEMMA BotTypeStays ==
    ASSUME BotTypeOK, stage \in Stages, [ShutdownNext]_allVars
    PROVE  BotTypeOK' /\ stage' \in Stages
<1>1. CASE Supervise
  BY <1>1 DEF Supervise, botVars, BotTypeOK
<1>2. CASE Answer
  <2>1. stage' = stage
    BY <1>2 DEF Answer
  <2>2. BotTypeOK'
    BY <1>2 DEF Answer, BotRuns, StartReceiving, SelectDone, Handle, SelectUpdate, SendHangs,
           FetchEnds, BotGoto, BotTypeOK
  <2> QED
    BY <2>1, <2>2
<1>3. CASE ShutdownSteps
  BY <1>3 DEF ShutdownSteps, StopBotContext, StopBotAndSave, After, CallStopFn,
         StopReceivingUpdates, BotTypeOK, Stages
<1>4. CASE Return
  BY <1>4 DEF Return, BotTypeOK
<1>5. CASE UNCHANGED allVars
  BY <1>5 DEF allVars, botVars, BotTypeOK
<1> QED
  BY <1>1, <1>2, <1>3, <1>4, <1>5 DEF ShutdownNext

\* Every variable of the whole daemon's shutdown keeps its type.
THEOREM ShutdownTypeCorrect == ShutdownSpec => []ShutdownTypeOK
<1> DEFINE BotPart == BotTypeOK /\ stage \in Stages
<1>1. ShutdownInit => BotPart
  BY DEF ShutdownInit, BotInit, BotTypeOK, Stages
<1>2. BotPart /\ [ShutdownNext]_allVars => BotPart'
  BY BotTypeStays
<1>3. TypeOK /\ BotPart => ShutdownTypeOK
  BY DEF ShutdownTypeOK
<1> HIDE DEF BotPart
<1> QED
  BY <1>1, <1>2, <1>3, ImplementsSupervisor, TypeCorrect, PTL DEF ShutdownSpec

----------------------------------------------------------------------------
(***************************************************************************)
(* The updates channel                                                     *)
(***************************************************************************)

\* main leaves its loop, and closes the library's shutdown channel, only when
\* the root context is cancelled, and it stays cancelled.
ClosedAfterCancel ==
    /\ main # "running" => cancelled
    /\ quit => cancelled
    /\ fetching = "closed" => cancelled

\* The goroutines do not cancel the context, nor does main after the signal.
LEMMA CancelledStays ==
    ASSUME Next, cancelled
    PROVE  cancelled'
  BY DEF Next, Run, Main, Spawn, SpawnFails, Publish, WaitReturns, ClearCmd, BackoffEnds,
         BackoffCancelled, StopCurrent, StopCurrentTimesOut, Reap, ClearStopped,
         ChildDies, Cancel, BeginStop, CaptureCmd, StopSignals, StopSeesCleared,
         StopTimesOut, Exit

\* main leaves "running" by BeginStop alone.
LEMMA RunningUntilCancelled ==
    ASSUME Next, main # "running" => cancelled
    PROVE  main' # "running" => cancelled'
<1>1. CASE BeginStop
  BY <1>1 DEF BeginStop
<1>2. CASE \E p \in Procs : Run(p) \/ \E n \in Nums : ChildDies(p, n)
  BY <1>2 DEF Run, Spawn, SpawnFails, Publish, WaitReturns, ClearCmd, BackoffEnds,
         BackoffCancelled, StopCurrent, StopCurrentTimesOut, Reap, ClearStopped,
         ChildDies, mainVars
<1>3. CASE Cancel
  BY <1>3 DEF Cancel
<1>4. CASE CaptureCmd \/ StopSignals \/ StopSeesCleared \/ StopTimesOut \/ Exit
  BY <1>4 DEF CaptureCmd, StopSignals, StopSeesCleared, StopTimesOut, Exit
<1> QED
  BY <1>1, <1>2, <1>3, <1>4 DEF Next, Main

LEMMA ClosedAfterCancelStays ==
    ASSUME ClosedAfterCancel, [ShutdownNext]_allVars
    PROVE  ClosedAfterCancel'
<1>1. CASE Supervise
  <2>1. Next /\ UNCHANGED botVars
    BY <1>1 DEF Supervise, Next
  <2>2. cancelled => cancelled'
    BY <2>1, CancelledStays
  <2>3. main' # "running" => cancelled'
    BY <2>1, RunningUntilCancelled DEF ClosedAfterCancel
  <2> QED
    BY <2>1, <2>2, <2>3 DEF ClosedAfterCancel, botVars
<1>2. CASE Answer
  BY <1>2 DEF Answer, BotRuns, StartReceiving, SelectDone, Handle, SelectUpdate, SendHangs,
         FetchEnds, ClosedAfterCancel, vars, mainVars
<1>3. CASE ShutdownSteps
  BY <1>3 DEF ShutdownSteps, StopBotContext, StopBotAndSave, After, CallStopFn,
         StopReceivingUpdates, ClosedAfterCancel, vars, mainVars
<1>4. CASE Return
  BY <1>4 DEF Return, Exit, ClosedAfterCancel
<1>5. CASE UNCHANGED allVars
  BY <1>5 DEF allVars, vars, mainVars, botVars, ClosedAfterCancel
<1> QED
  BY <1>1, <1>2, <1>3, <1>4, <1>5 DEF ShutdownNext

\* Whenever the bot could receive from the closed channel its context is done,
\* also when Stop met it before it had set stopFn.
THEOREM NoSpinOnClosedChannelCorrect == ShutdownSpec => []NoSpinOnClosedChannel
<1>1. ShutdownInit => ClosedAfterCancel
  BY DEF ShutdownInit, Init, BotInit, ClosedAfterCancel
<1>2. ClosedAfterCancel /\ [ShutdownNext]_allVars => ClosedAfterCancel'
  BY ClosedAfterCancelStays
<1>3. ClosedAfterCancel => NoSpinOnClosedChannel
  BY DEF ClosedAfterCancel, NoSpinOnClosedChannel, ContextDone
<1> QED
  BY <1>1, <1>2, <1>3, PTL DEF ShutdownSpec

====
