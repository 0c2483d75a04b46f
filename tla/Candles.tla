------------------------------- MODULE Candles -------------------------------
(***************************************************************************)
(* Kline: how an answer of the exchange becomes the members of a candle.   *)
(* Members are read one by one, in the order of the answer; the first that *)
(* cannot be read ends the reading, the exception is swallowed, and the    *)
(* members from there on stay what they were: for a candle that is being   *)
(* constructed, the content of uninitialised memory.  That memory is the   *)
(* slot of a temporary, so it may hold an older candle.                    *)
(***************************************************************************)
EXTENDS Doubles, Sequences, SequencesExt

CONSTANTS
  Prices,        \* what the exchange quotes
  Junk           \* what an uninitialised price may hold besides a quote

ReadInOrder == <<"open_time_", "open_price_", "high_price_", "low_price_",
                 "close_price_", "volume_", "quote_volume_">>
NeverRead == {"trades_num_", "taker_base_volume_", "taker_quote_volume_"}
Members == ToSet(ReadInOrder) \cup NeverRead

(* An answer, by what get_child(".") finds: no array that has an element,  *)
(* be it an error object or not even JSON, or a first element of which     *)
(* this many fields can be read before one is malformed, or the element    *)
(* ends, or all have been read.                                            *)
Answers ==
  [found : {FALSE}, fields : {0}, then : {"malformed"}]
    \cup [found : {TRUE}, fields : 0 .. Len(ReadInOrder) - 1,
          then : {"malformed", "ends"}]
    \cup [found : {TRUE}, fields : {Len(ReadInOrder)}, then : {"complete"}]

(* Reading past the end of an element is undefined: it may end the         *)
(* process, or yield something, or throw like a malformed field.           *)
IsUndefined(a) == a.then = "ends"

ReadFields(a) == {ReadInOrder[i] : i \in 1 .. a.fields}

(* Kline(pt) and parse_str: v is the answer's content, before is what the  *)
(* members hold so far.                                                    *)
FromTree(a, v, before) ==
  [m \in Members |-> IF m \in ReadFields(a) THEN v ELSE before[m]]

ParseStr(a, v, before) == IF a.found THEN FromTree(a, v, before) ELSE before

Assign(val) == [m \in Members |-> val[m]]

(* last_kline = Kline(api_->get_kline(...)): the answer is parsed into a   *)
(* temporary, which is assigned whole.  A member is marked by where its    *)
(* value comes from.                                                       *)
Uninitialised == [m \in Members |-> "memory"]

Fetched(a) == Assign(ParseStr(a, "answer", Uninitialised))

----------------------------------------------------------------------------
(* A candle, as far as the strategy looks at it.  A price that was not     *)
(* read is whatever memory holds: also a quote of an older candle.         *)
Memory == Prices \cup Junk

CandlesOf(a) ==
  LET Content(m) == IF Fetched(a)[m] = "answer" THEN Prices ELSE Memory
  IN [open : Content("open_price_"), close : Content("close_price_")]

IsUsable(a) == "close_price_" \in ReadFields(a)

GoodKlines == UNION {CandlesOf(a) : a \in {b \in Answers : IsUsable(b)}}
BadKlines  == UNION {CandlesOf(a) : a \in {b \in Answers : ~IsUsable(b)}}

MaxPrice(k) == IF Less(k.close, k.open) THEN k.open ELSE k.close

(* std::min(open_price_, close_price_)                                     *)
MinPrice(k) == IF Less(k.close, k.open) THEN k.close ELSE k.open
==============================================================================
