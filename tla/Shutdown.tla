---- MODULE Shutdown ----
(***************************************************************************)
(* The end of the daemon: main's shutdown (internal/daemon/daemon.go) with *)
(* the goroutines it stops.  It stops the hosted processes (Supervisor),   *)
(* the HTTP server and the Telegram bot (TelegramBot) in this order, waits *)
(* for none of their goroutines to end, saves the state and returns.  The  *)
(* root context was cancelled by the signal before.                        *)
(***************************************************************************)
EXTENDS Supervisor, TelegramBot

VARIABLE stage   \* what main does when Manager.Stop has returned

allVars == <<vars, botVars, stage>>

Stages == {"http", "receiving", "return"}

\* The types of supervisor, bot and main's stages.
ShutdownTypeOK == TypeOK /\ BotTypeOK /\ stage \in Stages

ShutdownInit == Init /\ BotInit /\ stage = "http"

After(from, to) ==
    /\ main = "stopped"
    /\ stage = from
    /\ stage' = to

\* httpSrv.Stop returns after 5 s at the latest; then tgBot.Stop, in the order
\* of its two statements.
StopBotContext ==
    /\ After("http", "receiving")
    /\ CallStopFn
    /\ UNCHANGED vars

\* Mutation: Stop waits for Start's goroutine.
StopBotAndSaveWaiting ==
    /\ After("receiving", "return")
    /\ bot = "gone"
    /\ StopReceivingUpdates
    /\ UNCHANGED vars

\* ... and CloseAll and SaveState, which share nothing with the goroutines here.
StopBotAndSave ==
    /\ After("receiving", "return")
    /\ StopReceivingUpdates
    /\ UNCHANGED vars

\* Run returns, and with it main: no goroutine survives.
Return ==
    /\ stage = "return"
    /\ Exit
    /\ bot' = "gone"
    /\ stopFn' = FALSE
    /\ stopped' = FALSE
    /\ fetching' = "no"
    /\ quit' = FALSE
    /\ UNCHANGED stage

ShutdownSteps == StopBotContext \/ StopBotAndSave

\* The supervisor's steps other than Exit.
Supervise ==
    /\ \/ \E p \in Procs : Run(p) \/ \E n \in Nums : ChildDies(p, n)
       \/ Cancel \/ Main
    /\ UNCHANGED <<botVars, stage>>

\* The bot's steps: its goroutine and the library's.
Answer ==
    /\ main # "exited"
    /\ BotRuns(cancelled) \/ SelectUpdate \/ SendHangs \/ FetchEnds
    /\ UNCHANGED <<vars, stage>>

ShutdownNext == Supervise \/ Answer \/ ShutdownSteps \/ Return

ShutdownSpec == ShutdownInit /\ [][ShutdownNext]_allVars

\* A select that is ready again and again takes each of its channels at some
\* time, for Go chooses at random.  Telegram need not answer, and main need not
\* return: what must end ends without the end of the process.
ShutdownFairness ==
    /\ Fairness
    /\ WF_allVars(ShutdownSteps)
    /\ WF_allVars(main # "exited" /\ BotRuns(cancelled) /\ UNCHANGED <<vars, stage>>)
    /\ SF_allVars(main # "exited" /\ SelectDone(cancelled) /\ UNCHANGED <<vars, stage>>)

LiveShutdownSpec == ShutdownSpec /\ ShutdownFairness

----------------------------------------------------------------------------
\* A closed channel is received from again and again without a pause: when the
\* bot could do so its context is done, also when Stop came before Start had
\* set stopFn.
NoSpinOnClosedChannel ==
    fetching = "closed" /\ bot = "select" => ContextDone(cancelled)

\* The bot's goroutine ends after the signal, at whatever moment Stop meets
\* Start, unless one of its sends hangs.
BotReturns ==
    cancelled ~> bot \in {"gone", "hung"}

\* The shutdown comes to saving the state and to its end, although it stops
\* goroutines that may hang and children that may ignore signals.
ShutdownCompletes == cancelled ~> stage = "return"

====
