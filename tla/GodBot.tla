-------------------------------- MODULE GodBot --------------------------------
(***************************************************************************)
(* One process: the main thread, which reads commands from stdin, and the  *)
(* thread of its one bot, which configures a strategy and runs it.         *)
(*                                                                         *)
(* The bot thread configures under one try block: the first entry that is  *)
(* missing or malformed skips every later line, and the strategy is run    *)
(* all the same, with members that were never assigned.  A null api_ or    *)
(* is_finished_ crashes the process when it is dereferenced.               *)
(*                                                                         *)
(* The flag that ends the strategy is a copy of GodBot::is_finish, taken   *)
(* once.  The strategy itself is RSIStrategy.tla; here it is a startup of  *)
(* calls to the exchange and a loop.                                       *)
(***************************************************************************)
EXTENDS Integers, Sequences

VARIABLES
  process,      \* "running", "exited" or "crashed"
  main,         \* what the main thread is about to do
  bot,          \* what the bot thread is about to do
  config,       \* the entries of config_ that can be read
  step,         \* the next line of the try block of GodBot::Run
  assigned,     \* the members that have been assigned
  is_finish,    \* the flag that Stop sets
  is_finished,  \* *is_finished_, the strategy's flag
  is_stdlog,    \* what the command "logs" switches
  stdin_failed  \* cin is in a failed state: getline returns at once

config_vars == <<config, step, assigned>>
console_vars == <<is_stdlog, stdin_failed>>
vars == <<process, main, bot, config_vars, is_finish, is_finished,
          console_vars>>

FileKeys == {"api_config_file", "timeframe", "symbol",
             "take_profit_percentage", "stop_loss_percentage", "log_time"}
SecretKeys == {"public_key", "secret_key"}

(* But for base_strategy::logs_folder_, which nothing assigns or reads.    *)
StrategyMembers == {"api_", "logger_", "timerframe_", "symbol_",
                    "take_profit_", "stop_loss_", "log_time_", "is_finished_"}
ApiMembers == {"keys", "url_"}
Members == StrategyMembers \cup ApiMembers

MainPCs == {"options", "upload", "spawn", "prompt", "join", "returned"}
BotPCs == {"unborn", "configure", "startup", "loop", "trade", "finished"}
Commands == {"exit", "logs", "cfg", "version", "unknown", "too_long", "eof"}

----------------------------------------------------------------------------
(* The lines of the try block.  "needs" are the entries a line reads,      *)
(* "sets" the members it assigns; a line may also fail on a file of its    *)
(* own: set_cfg swallows the exception, set_log_folder throws it.          *)
Line(needs, sets, fails) == [needs |-> needs, sets |-> sets, fails |-> fails]

ConfigLinesMembersFirst ==
  << Line({}, {"api_", "logger_", "is_finished_"}, "never"),
     Line({"api_config_file", "public_key", "secret_key"}, {"keys"}, "never"),
     Line({}, {"url_"}, "silently"),
     Line({}, {"logs_folder_"}, "throws"),
     Line(FileKeys, StrategyMembers, "never") >>

ConfigLines ==
  << Line({"api_config_file"}, {}, "never"),
     Line({"public_key"}, {}, "never"),
     Line({"secret_key"}, {}, "never"),
     Line({}, {"keys"}, "never"),
     Line({}, {"url_"}, "silently"),
     Line({}, {}, "throws"),
     Line({}, {"api_", "logger_"}, "never"),
     Line({"timeframe"}, {"timerframe_"}, "never"),
     Line({"symbol"}, {"symbol_"}, "never"),
     Line({"take_profit_percentage"}, {"take_profit_"}, "never"),
     Line({"stop_loss_percentage"}, {"stop_loss_"}, "never"),
     Line({"log_time"}, {"log_time_"}, "never"),
     Line({}, {"is_finished_"}, "never") >>

Init ==
  /\ process = "running"
  /\ main = "options"
  /\ bot = "unborn"
  /\ config = {}
  /\ step = 1
  /\ assigned = {}
  /\ is_finish = FALSE
  /\ is_finished = FALSE
  /\ is_stdlog = FALSE
  /\ stdin_failed = FALSE

----------------------------------------------------------------------------
(* The main thread.                                                        *)

(* --help, --version and a malformed command line return 1 at once.        *)
ParseOptions ==
  /\ main = "options"
  /\ \/ /\ main' = "returned"
        /\ process' = "exited"
     \/ /\ main' = "upload"
        /\ UNCHANGED process
  /\ UNCHANGED <<bot, config_vars, is_finish, is_finished, console_vars>>

(* The two files are read in one try block: when the first cannot be read  *)
(* the second is not tried.                                                *)
UploadConfig ==
  /\ main = "upload"
  /\ \E file \in SUBSET FileKeys, secrets \in SUBSET SecretKeys :
       config' \in {{}, file, file \cup secrets}
  /\ main' = "spawn"
  /\ UNCHANGED <<process, bot, step, assigned, is_finish, is_finished,
                 console_vars>>

SpawnBot ==
  /\ main = "spawn"
  /\ main' = "prompt"
  /\ bot' = "configure"
  /\ UNCHANGED <<process, config_vars, is_finish, is_finished, console_vars>>

(* std::cin.getline(cmd, 512): a line that does not fit and the end of     *)
(* input put cin in a failed state that nothing clears, and from then on   *)
(* every command is the empty one.                                         *)
Command(cmd) ==
  /\ main = "prompt"
  /\ ~stdin_failed
  /\ main' = IF cmd = "exit" THEN "join" ELSE main
  /\ is_finish' = (is_finish \/ cmd = "exit")
  /\ is_stdlog' = IF cmd = "logs" THEN ~is_stdlog ELSE is_stdlog
  /\ stdin_failed' = (cmd \in {"too_long", "eof"})
  /\ UNCHANGED <<process, bot, config_vars, is_finished>>

EmptyCommand ==
  /\ main = "prompt"
  /\ stdin_failed
  /\ UNCHANGED vars

(* bot_thread.join(), then main returns and destroys the bot.              *)
Join ==
  /\ main = "join"
  /\ bot = "finished"
  /\ main' = "returned"
  /\ process' = "exited"
  /\ UNCHANGED <<bot, config_vars, is_finish, is_finished, console_vars>>

----------------------------------------------------------------------------
(* The bot thread.                                                         *)

CopyNothing == FALSE

CopyOfFlag == is_finish          \* std::make_shared<bool>(is_finish)

(* A line of the try block succeeds, or fails without an exception.        *)
ConfigureLine ==
  /\ bot = "configure"
  /\ LET line == ConfigLines[step]
     IN /\ line.needs \subseteq config
        /\ \/ assigned' = assigned \cup line.sets
           \/ line.fails = "silently" /\ UNCHANGED assigned
        /\ is_finished' = IF "is_finished_" \in line.sets THEN CopyOfFlag
                          ELSE is_finished
  /\ step' = step + 1
  /\ bot' = IF step = Len(ConfigLines) THEN "startup" ELSE "configure"
  /\ UNCHANGED <<process, main, config, is_finish, console_vars>>

(* A line throws; the handler reports it and the strategy is run anyway.   *)
ConfigureThrows ==
  /\ bot = "configure"
  /\ LET line == ConfigLines[step]
     IN ~(line.needs \subseteq config) \/ line.fails = "throws"
  /\ bot' = "startup"
  /\ UNCHANGED <<process, main, config_vars, is_finish, is_finished,
                 console_vars>>

(* The calls before the loop.  Without a url every call fails and is       *)
(* retried for ever.                                                       *)
StrategyStartup ==
  /\ bot = "startup"
  /\ {"api_", "url_"} \subseteq assigned
  /\ bot' = "loop"
  /\ UNCHANGED <<process, main, config_vars, is_finish, is_finished,
                 console_vars>>

RetryForever ==
  /\ bot = "startup"
  /\ "api_" \in assigned /\ "url_" \notin assigned
  /\ UNCHANGED vars

(* A null api_, or an answer without the field that is asked for.          *)
StartupCrash ==
  /\ bot = "startup"
  /\ "api_" \notin assigned \/ "url_" \in assigned
  /\ process' = "crashed"
  /\ UNCHANGED <<main, bot, config_vars, is_finish, is_finished,
                 console_vars>>

(* while(!*is_finished_)                                                   *)
LoopTestInverted ==
  /\ bot = "loop"
  /\ "is_finished_" \in assigned
  /\ bot' = IF is_finished THEN "trade" ELSE "finished"
  /\ UNCHANGED <<process, main, config_vars, is_finish, is_finished,
                 console_vars>>

LoopTest ==
  /\ bot = "loop"
  /\ "is_finished_" \in assigned
  /\ bot' = IF is_finished THEN "finished" ELSE "trade"
  /\ UNCHANGED <<process, main, config_vars, is_finish, is_finished,
                 console_vars>>

NullFlag ==
  /\ bot = "loop"
  /\ "is_finished_" \notin assigned
  /\ process' = "crashed"
  /\ UNCHANGED <<main, bot, config_vars, is_finish, is_finished,
                 console_vars>>

(* The body of the loop: NewSecond, Trade and Spin of RSIStrategy.         *)
Iterate ==
  /\ bot = "trade"
  /\ bot' = "loop"
  /\ UNCHANGED <<process, main, config_vars, is_finish, is_finished,
                 console_vars>>

(* The iteration does not end: the log cannot be written, so logger_       *)
(* throws, or Kline reads past the end of an answer.  Nothing catches.     *)
IterationCrash ==
  /\ bot = "trade"
  /\ process' = "crashed"
  /\ UNCHANGED <<main, bot, config_vars, is_finish, is_finished,
                 console_vars>>

----------------------------------------------------------------------------
Running(A) == process = "running" /\ A

MainThread ==
  \/ ParseOptions
  \/ UploadConfig
  \/ SpawnBot
  \/ \E cmd \in Commands : Command(cmd)
  \/ EmptyCommand
  \/ Join

BotThread ==
  \/ ConfigureLine
  \/ ConfigureThrows
  \/ StrategyStartup
  \/ RetryForever
  \/ StartupCrash
  \/ LoopTest
  \/ NullFlag
  \/ Iterate
  \/ IterationCrash

Gone ==
  /\ process # "running"
  /\ UNCHANGED vars

Next == Running(MainThread) \/ Running(BotThread) \/ Gone

Spec == Init /\ [][Next]_vars

(* Both threads are scheduled.  Nobody has to type a command.              *)
Fairness ==
  /\ WF_vars(Running(BotThread))
  /\ WF_vars(Running(Join))

FairSpec == Spec /\ Fairness

----------------------------------------------------------------------------
TypeOK ==
  /\ process \in {"running", "exited", "crashed"}
  /\ main \in MainPCs
  /\ bot \in BotPCs
  /\ config \subseteq FileKeys \cup SecretKeys
  /\ step \in 1 .. Len(ConfigLines) + 1
  /\ assigned \subseteq Members
  /\ {is_finish, is_finished, is_stdlog, stdin_failed} \subseteq BOOLEAN

(* The bot never trades on a partial configuration: an iteration runs only *)
(* when every member of the strategy and of its API has been assigned,     *)
(* although a failed try block does not keep the strategy from running.    *)
(* The flag is assigned last, and dereferencing it comes first.            *)
(* About GodBot.cpp:48-79 and GB_RSIStrategy.cpp:61.                       *)
TradesOnlyConfigured == bot = "trade" => assigned = Members

(* Nothing is sent to the exchange before the keys are set: the strategy   *)
(* gets the API only after set_keys.                                       *)
CallsCarryKeys == "api_" \in assigned => "keys" \in assigned

(* The bot outlives its thread: main destroys it, by returning, only when  *)
(* the thread has finished or was never started.  About main.cpp:92-108,   *)
(* where the thread holds a reference to a local of main.                  *)
BotOutlivesThread == main = "returned" => bot \in {"unborn", "finished"}

(* A thread that finishes was told to: trading never ends by itself.       *)
FinishesOnlyIfStopped == bot = "finished" => is_finish

(* A stop that comes before the flag is copied is obeyed: with a usable    *)
(* url the process ends.                                                   *)
EarlyStopIsObeyed ==
  (process = "running" /\ is_finish /\ "is_finished_" \notin assigned
     /\ "url_" \in assigned)
    ~> process # "running"

(* A bot that cannot read its configuration does not linger: it crashes,   *)
(* or is stuck in calls that cannot succeed because there is no url.       *)
MisconfiguredNeverLoops ==
  (bot = "configure" /\ config # FileKeys \cup SecretKeys)
    ~> (process # "running" \/ (bot = "startup" /\ "url_" \notin assigned))

(* "exit" ends a program whose bot is trading: main.cpp:104-108 stops the  *)
(* bot, joins its thread and leaves the command loop, and GodBot.cpp:80    *)
(* announces that the bot has "finished traiding".                         *)
ExitTerminates ==
  (main = "join" /\ bot \in {"loop", "trade"}) ~> process # "running"
===============================================================================
