------------------------------- MODULE MCGodBot -------------------------------
(***************************************************************************)
(* GodBot, and what its main thread computes when it uploads the           *)
(* configuration: for the default files and a third one that any option    *)
(* may name, whatever is in them.                                          *)
(***************************************************************************)
EXTENDS GodBot, BotConfig

FilesThere == {"config", "secrets", "other"}
Defaults == [config_file |-> "config", secrets_file |-> "secrets"]
IntervalIn == [config |-> "1s", secrets |-> "1m", other |-> "1h"]

(* The files that are read are those the options name, the command line    *)
(* before the environment before the defaults, whatever the first file     *)
(* has to say about the second; an entry that both have is the first       *)
(* file's, and a first file that cannot be read leaves the second unread.  *)
(* About main.cpp:79-80 and GodBot.cpp:121-126.                            *)
FilesByPrecedence ==
  main = "upload" =>
    \A input \in Inputs :
      LET uploaded == Uploaded(input)
          first == Chosen(input, "config_file")
          second == Chosen(input, "secrets_file")
      IN /\ uploaded.opened = IF input.disk[first] = Unreadable
                              THEN <<first>> ELSE <<first, second>>
         /\ Has(uploaded.tree, "timeframe") =>
              Get(uploaded.tree, "timeframe") =
                Interval[IF "timeframe" \in input.disk[first] THEN first
                         ELSE second]

(* The strategy computes the RSI again after the timeframe that is         *)
(* configured: key_by_value finds the member of INTERVAL that the table of *)
(* the names has for it, and with it the seconds that time_map has.        *)
(* About GodBot.cpp:51, base_api.cpp:11-14 and GB_RSIStrategy.cpp:23-26.   *)
TimeframeIsConfigured ==
  "timerframe_" \in assigned =>
    \A interval \in ToSet(INTERVAL) :
      LET tree == <<Entry("timeframe", TimeIntervals[interval])>>
      IN TimeMap[Timeframe(tree)] = TimeMap[interval]
================================================================================
