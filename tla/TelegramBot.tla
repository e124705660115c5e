---- MODULE TelegramBot ----
(***************************************************************************)
(* internal/telegram/bot.go: the goroutine that answers commands, and the  *)
(* goroutine of the Telegram library that fetches updates for it.  Bot.Stop *)
(* runs in main's goroutine and shares b.stopFn with Start, with no lock   *)
(* and with nothing that orders the two.                                   *)
(*                                                                         *)
(* The module offers its operations to the module that owns main and the   *)
(* root context; `parentDone` says that the root context is cancelled.     *)
(* Updates arrive at any moment and are not told apart.  The library is    *)
(* external: it fetches until its shutdown channel is closed, and then,    *)
(* when its last long poll is over, closes the updates channel.            *)
(***************************************************************************)

VARIABLES
    bot,        \* where Start's goroutine is
    stopFn,     \* b.stopFn is set
    stopped,    \* stopFn has been called
    fetching,   \* the updates channel: "no" such channel yet, "open", "closed"
    quit        \* StopReceivingUpdates has closed the library's shutdown channel

botVars == <<bot, stopFn, stopped, fetching, quit>>

BotTypeOK ==
    /\ bot \in {"new", "select", "received", "hung", "gone"}
    /\ stopFn \in BOOLEAN
    /\ stopped \in BOOLEAN
    /\ fetching \in {"no", "open", "closed"}
    /\ quit \in BOOLEAN

\* Run's `go d.tgBot.Start(ctx)`.
BotInit ==
    /\ bot = "new"
    /\ stopFn = FALSE
    /\ stopped = FALSE
    /\ fetching = "no"
    /\ quit = FALSE

BotGoto(from, to) == bot = from /\ bot' = to

\* Mutation: the bot's context is derived from context.Background().
OwnContextDone(parentDone) == stopped

\* The bot's context is a child of the root context.
ContextDone(parentDone) == stopped \/ parentDone

\* The goroutine is scheduled: context.WithCancel, and GetUpdatesChan, which
\* looks at the shutdown channel first of all.
StartReceiving ==
    /\ BotGoto("new", "select")
    /\ stopFn' = TRUE
    /\ fetching' = "open"
    /\ UNCHANGED <<stopped, quit>>

\* The select takes ctx.Done and Start returns.
SelectDone(parentDone) ==
    /\ ContextDone(parentDone)
    /\ BotGoto("select", "gone")
    /\ UNCHANGED <<stopFn, stopped, fetching, quit>>

\* The select takes the updates channel, also when the context is done: an
\* update, or what a closed channel always has, one whose Message is nil.
SelectUpdate ==
    /\ fetching \in {"open", "closed"}
    /\ BotGoto("select", "received")
    /\ UNCHANGED <<stopFn, stopped, fetching, quit>>

\* The update is no command of a chat that is allowed; or handleCommand
\* executes the command and its Send returns, with an error that is only logged
\* or without one.
Handle ==
    /\ BotGoto("received", "select")
    /\ UNCHANGED <<stopFn, stopped, fetching, quit>>

\* The Telegram client has no deadline.
SendHangs ==
    /\ BotGoto("received", "hung")
    /\ UNCHANGED <<stopFn, stopped, fetching, quit>>

\* What Start's goroutine does by itself: an update need not come.
BotRuns(parentDone) == StartReceiving \/ SelectDone(parentDone) \/ Handle

----------------------------------------------------------------------------
\* The library's goroutine.
FetchEnds ==
    /\ fetching = "open"
    /\ quit
    /\ fetching' = "closed"
    /\ UNCHANGED <<bot, stopFn, stopped, quit>>

----------------------------------------------------------------------------
\* Stop, first half: stopFn is called if Start has set it by now.
CallStopFn ==
    /\ stopped' = stopFn
    /\ UNCHANGED <<bot, stopFn, fetching, quit>>

\* Stop, second half.
StopReceivingUpdates ==
    /\ quit' = TRUE
    /\ UNCHANGED <<bot, stopFn, stopped, fetching>>

====
