------------------------------- MODULE BotConfig -------------------------------
(***************************************************************************)
(* Where the bot's configuration comes from: the command line and the      *)
(* environment name two files, whose entries are appended to one property  *)
(* tree.  Entries are never replaced: get takes the first with its key.    *)
(* All of it happens on one thread before the command loop starts, so it   *)
(* is stated here as what main and UploadConfig compute.                   *)
(***************************************************************************)
EXTENDS Integers, Sequences, SequencesExt

CONSTANTS
  Paths,        \* files there may be
  DefaultFile,  \* DEFAULT_CONFIG_FILE and DEFAULT_SECRETS_FILE
  Interval      \* for each path, the timeframe its file has, if it has one

Options == {"config_file", "secrets_file"}
Keys == Options \cup {"timeframe"}
NotGiven == "not given"
Unreadable == {"unreadable"}

ASSUME ConfigAssumption ==
  /\ DefaultFile \in [Options -> Paths]
  /\ NotGiven \notin Paths

(* The enumeration, in its order, the names of its members, and how many   *)
(* seconds the strategy waits for each before it computes the RSI again.   *)
INTERVAL == <<"s1", "m1", "m3", "m5", "m15", "m30", "h1", "h2", "h4", "h6",
              "h8", "h12", "d1", "d3", "w1", "M1">>

TimeIntervals ==
  [s1 |-> "1s", m1 |-> "1m", m3 |-> "3m", m5 |-> "5m", m15 |-> "15m",
   m30 |-> "30m", h1 |-> "1h", h2 |-> "2h", h4 |-> "4h", h6 |-> "6h",
   h8 |-> "8h", h12 |-> "12h", d1 |-> "1d", d3 |-> "3d", w1 |-> "1w",
   M1 |-> "1M"]

TimeMap ==
  LET minute == 60  hour == 60 * minute  day == 24 * hour  week == 7 * day
  IN [s1 |-> 1, m1 |-> minute, m3 |-> 3 * minute, m5 |-> 5 * minute,
      m15 |-> 15 * minute, m30 |-> 30 * minute, h1 |-> hour, h2 |-> 2 * hour,
      h4 |-> 4 * hour, h6 |-> 6 * hour, h8 |-> 8 * hour, h12 |-> 12 * hour,
      d1 |-> day, d3 |-> 3 * day, w1 |-> week, M1 |-> 4 * week]

(* What a run of the program finds: the files that the command line and    *)
(* the environment name, and for each path the keys in its file.           *)
Inputs ==
  [command_line : [Options -> Paths \cup {NotGiven}],
   environment : [Options -> Paths \cup {NotGiven}],
   disk : [Paths -> (SUBSET Keys) \cup {Unreadable}]]

----------------------------------------------------------------------------
(* The variables_map: for each option its value, and whether by default.   *)
Fresh == [o \in Options |-> [value |-> DefaultFile[o], defaulted |-> TRUE]]

(* opt::store: the first value that is given stays.                        *)
StoredLast(vm, given) ==
  [o \in Options |-> IF given[o] = NotGiven THEN vm[o]
                     ELSE [value |-> given[o], defaulted |-> FALSE]]
Stored(vm, given) ==
  [o \in Options |-> IF given[o] = NotGiven \/ ~vm[o].defaulted THEN vm[o]
                     ELSE [value |-> given[o], defaulted |-> FALSE]]

(* main: the command line is stored before the environment.                *)
ParsedOptions(input) ==
  Stored(Stored(Fresh, input.command_line), input.environment)

----------------------------------------------------------------------------
(* The property tree, as the sequence of its entries.                      *)
Entry(key, value) == [key |-> key, value |-> value]

Has(tree, key) == \E i \in DOMAIN tree : tree[i].key = key
Get(tree, key) == tree[SelectInSeq(tree, LAMBDA e : e.key = key)].value

(* options_handler puts the names of the files under the options' names.   *)
OptionsHandler(vm) ==
  << Entry("config_file", vm["config_file"].value),
     Entry("secrets_file", vm["secrets_file"].value) >>

(* The entries of a file.  A path may stand in it too, under any key.      *)
EntriesOf(path, disk) ==
  LET Given(key, value) ==
        IF key \in disk[path] THEN <<Entry(key, value)>> ELSE << >>
  IN Given("config_file", path) \o Given("secrets_file", path)
       \o Given("timeframe", Interval[path])

(* One of the two reads of UploadConfig, which are in one try block: when  *)
(* the first throws, the second is not tried.                              *)
UploadSeparately(so_far, option, disk) ==
  LET path == Get(so_far.tree, option)
  IN [tree |-> IF disk[path] = Unreadable THEN so_far.tree
               ELSE so_far.tree \o EntriesOf(path, disk),
      opened |-> Append(so_far.opened, path),
      thrown |-> FALSE]

Upload(so_far, option, disk) ==
  LET path == Get(so_far.tree, option)
  IN IF so_far.thrown THEN so_far
     ELSE [tree |-> IF disk[path] = Unreadable THEN so_far.tree
                    ELSE so_far.tree \o EntriesOf(path, disk),
           opened |-> Append(so_far.opened, path),
           thrown |-> disk[path] = Unreadable]

Uploaded(input) ==
  LET start == [tree |-> OptionsHandler(ParsedOptions(input)),
                opened |-> << >>, thrown |-> FALSE]
  IN Upload(Upload(start, "config_file", input.disk), "secrets_file", input.disk)

----------------------------------------------------------------------------
(* key_by_value: the loop returns in its first iteration.                  *)
KeyByValue(value) ==
  IF value = TimeIntervals[Head(INTERVAL)] THEN Head(INTERVAL) ELSE "m1"

(* The line of GodBot::Run that sets the timeframe of the strategy.        *)
Timeframe(tree) == KeyByValue(Get(tree, "timeframe"))

----------------------------------------------------------------------------
(* What the options ask for, by the order of precedence alone.             *)
Chosen(input, o) ==
  IF input.command_line[o] # NotGiven THEN input.command_line[o]
  ELSE IF input.environment[o] # NotGiven THEN input.environment[o]
  ELSE DefaultFile[o]
================================================================================
