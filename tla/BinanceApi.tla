----------------------------- MODULE BinanceApi -----------------------------
(***************************************************************************)
(* One thread that calls the exchange through binance_api: the request is  *)
(* stamped and signed once, put on the process-wide curl handle, and       *)
(* repeated every RetryDelay seconds until curl reports a transfer.        *)
(*                                                                         *)
(* curl fails for the caller whenever the answer does not arrive; the      *)
(* request itself may be lost, may have been carried out already, or may   *)
(* still be under way and arrive later.  The exchange, which is not part   *)
(* of the repository, turns down a signed request whose timestamp is more  *)
(* than RecvWindow seconds old, and may turn down any request.             *)
(***************************************************************************)
EXTENDS Integers, Sequences

CONSTANTS
  Asked,        \* the requests the caller may make
  RetryDelay,   \* sleep(10) in the catch block of call
  RecvWindow,   \* recvWindow of the exchange, 5 s unless a request names it
  MaxCalls,     \* bound: calls that are made
  MaxFailures,  \* bound: transfers that fail, over all calls
  Horizon       \* bound: seconds that pass outside sleep()

ASSUME ApiAssumption ==
  /\ RetryDelay \in Nat
  /\ RecvWindow \in Nat
  /\ RecvWindow < RetryDelay
  /\ MaxCalls \in Nat
  /\ MaxFailures \in Nat
  /\ Horizon \in Nat

VARIABLES
  api_cfg_,    \* whether the configuration has the entry "api_Header"
  pc,          \* "idle", "request", "perform" or "sleep"
  asked,       \* the request of the latest call
  calls,       \* how many calls have been made: the number of the latest
  attempt,     \* transfers started for the latest call
  stamp,       \* the timestamp of the latest call, Unstamped if not signed
  wake,        \* when sleep() returns
  handle,      \* the options set on curl_object's handle
  recv_data_,  \* what the write callback has appended
  outcome,     \* how the latest call ended
  net,         \* the copies of requests that are under way
  reply,       \* the answer under way to the transfer that is performed
  executed,    \* how often the exchange carried out each signed call
  failures,    \* transfers that have failed
  now          \* the clock of both sides

caller_vars == <<asked, calls, stamp>>
network_vars == <<net, reply, executed>>
vars == <<api_cfg_, pc, caller_vars, attempt, wake, handle, recv_data_,
          outcome, network_vars, failures, now>>

----------------------------------------------------------------------------
(* What each operation asks for: verb, endpoint, security and the entries  *)
(* it puts in its parameters.                                              *)
Route ==
  [ open_spot_order          |-> <<"POST",   "/order",        "SIGNED", "order">>,
    open_stoploss_spot_order |-> <<"POST",   "/order",        "SIGNED", "order">>,
    close_spot_order         |-> <<"DELETE", "/order",        "SIGNED", "orderId">>,
    query_spot_order         |-> <<"POST",   "/order",        "SIGNED", "orderId">>,
    close_all_spot_orders    |-> <<"DELETE", "/openOrders",   "SIGNED", "symbol">>,
    open_oco_spot_order      |-> <<"POST",   "/order/oco",    "SIGNED", "order">>,
    close_oco_spot_order     |-> <<"DELETE", "/orderList",    "SIGNED", "orderId">>,
    get_symbol_price         |-> <<"GET",    "/ticker/price", "NONE",   "symbol">>,
    get_server_time          |-> <<"GET",    "/time",         "NONE",   "nothing">>,
    get_kline                |-> <<"GET",    "/klines",       "NONE",   "symbol">> ]

Operations == DOMAIN Route
Verb(r) == Route[r.op][1]
Endpoint(r) == Route[r.op][2]
IsSigned(r) == Route[r.op][3] = "SIGNED"
Entries(r) == Route[r.op][4]

OrderTypes == {"LIMIT", "MARKET", "STOP_LOSS", "STOP_LOSS_LIMIT",
               "TAKE_PROFIT", "TAKE_PROFIT_LIMIT", "LIMIT_MAKER"}

(* The initialiser of order_type_, key and name.  A map keeps the first    *)
(* entry of a key.                                                         *)
OrderTypeEntries ==
  << <<"LIMIT", "LIMIT">>, <<"MARKET", "MARKET">>,
     <<"STOP_LOSS", "STOP_LOSS">>, <<"STOP_LOSS", "STOP_LOSS_LIMIT">>,
     <<"TAKE_PROFIT", "TAKE_PROFIT">>,
     <<"TAKE_PROFIT_LIMIT", "TAKE_PROFIT_LIMIT">>,
     <<"LIMIT_MAKER", "LIMIT_MAKER">> >>

NamedTypes ==
  {OrderTypeEntries[i][1] : i \in DOMAIN OrderTypeEntries}

(* The order sides, and those that order_side_ names.                      *)
OrderSides == {"BUY", "SELL", "NONE"}
NamedSides == {"BUY", "SELL"}

(* The type and the side whose names an operation looks up with at(), if   *)
(* it does.                                                                *)
NoName == "none"
Opening == {"open_spot_order", "open_stoploss_spot_order", "open_oco_spot_order"}
Requests ==
  [op : {"open_spot_order"}, type : OrderTypes, side : OrderSides]
    \cup [op : {"open_stoploss_spot_order"}, type : {"STOP_LOSS_LIMIT"},
          side : OrderSides]
    \cup [op : {"open_oco_spot_order"}, type : {NoName}, side : OrderSides]
    \cup [op : Operations \ Opening, type : {NoName}, side : {NoName}]

ASSUME AskedAssumption == Asked \subseteq Requests

Unstamped == -1
Params(r, n, t) == [of |-> n, entries |-> Entries(r), stamp |-> t]

----------------------------------------------------------------------------
(* The handle.  An option stays set until the handle is reset.             *)
Unset == [of |-> 0, entries |-> "unset", stamp |-> Unstamped]

FreshHandle ==
  [custom |-> FALSE, endpoint |-> "", query |-> Unset, fields |-> Unset,
   header |-> FALSE]

KeepsOptions(h) == h
ResetHandle(h) == FreshHandle

SetOptions(h, r, params) ==
  [custom   |-> h.custom \/ Verb(r) = "DELETE",
   endpoint |-> Endpoint(r),
   query    |-> IF Verb(r) = "GET" THEN params ELSE Unset,
   fields   |-> IF Verb(r) \in {"POST", "DELETE"} THEN params ELSE h.fields,
   header   |-> h.header \/ IsSigned(r)]

(* libcurl: CURLOPT_CUSTOMREQUEST names the verb, else CURLOPT_POSTFIELDS  *)
(* makes a POST of a GET.                                                  *)
OnTheWire(h) ==
  [verb     |-> IF h.custom THEN "DELETE"
                ELSE IF h.fields # Unset THEN "POST" ELSE "GET",
   endpoint |-> h.endpoint,
   params   |-> IF h.fields # Unset THEN h.fields ELSE h.query,
   key      |-> h.header]

Wanted(r, n, t) ==
  [verb |-> Verb(r), endpoint |-> Endpoint(r), params |-> Params(r, n, t),
   key |-> IsSigned(r)]

----------------------------------------------------------------------------
(* The exchange.  It serves what the operations are named after: the same  *)
(* table, but for the query, which it serves as a GET.                     *)
Services ==
  {[verb |-> Route[o][1], endpoint |-> Route[o][2],
    signed |-> Route[o][3] = "SIGNED", entries |-> Route[o][4]]
     : o \in Operations \ {"query_spot_order"}}

Timely(t) == t # Unstamped /\ now - t <= RecvWindow

Serves(m, s) ==
  /\ m.verb = s.verb
  /\ m.endpoint = s.endpoint
  /\ m.params.entries = s.entries
  /\ s.signed => m.key /\ Timely(m.params.stamp)

NoReply == "none"
Verdicts == {"accepted", "rejected"}

(* A copy is one transfer of one call.                                     *)
Copy(h, n, k) == [wire |-> OnTheWire(h), call |-> n, attempt |-> k]

(* A part of an answer, or all of it, as the write callback receives it.   *)
Chunk(v, whole) ==
  [call |-> calls, attempt |-> attempt, verdict |-> v, whole |-> whole]

----------------------------------------------------------------------------
NoRequest == [op |-> "none", type |-> NoName, side |-> NoName]

Init ==
  /\ api_cfg_ \in BOOLEAN
  /\ pc = "idle"
  /\ asked = NoRequest
  /\ calls = 0
  /\ attempt = 0
  /\ stamp = Unstamped
  /\ wake = 0
  /\ handle = FreshHandle
  /\ recv_data_ = <<>>
  /\ outcome = "none"
  /\ net = {}
  /\ reply = NoReply
  /\ executed = [n \in 1..MaxCalls |-> 0]
  /\ failures = 0
  /\ now = 0

(* order_type_.at(type) and order_side_.at(side) throw for one without a   *)
(* name, and call throws when it finds no name for the header of the key.  *)
Throws(r) ==
  \/ r.type \notin NamedTypes \cup {NoName}
  \/ r.side \notin NamedSides \cup {NoName}
  \/ IsSigned(r) /\ ~api_cfg_

(* An operation up to the retry loop of call: timestamp and signature are  *)
(* made here, once.                                                        *)
Ask(r) ==
  /\ pc = "idle"
  /\ calls < MaxCalls
  /\ asked' = r
  /\ calls' = calls + 1
  /\ attempt' = 0
  /\ \/ /\ Throws(r)
        /\ outcome' = "threw"
        /\ stamp' = Unstamped
        /\ UNCHANGED pc
     \/ /\ ~Throws(r)
        /\ outcome' = "none"
        /\ stamp' = IF IsSigned(r) THEN now ELSE Unstamped
        /\ pc' = "request"
  /\ UNCHANGED <<api_cfg_, wake, handle, recv_data_, network_vars, failures,
                 now>>

(* connection::request up to curl_easy_perform, which sends one copy.      *)
Transfer(t, data) ==
  LET h == SetOptions(handle, asked, Params(asked, calls, t))
  IN  /\ pc = "request"
      /\ stamp' = t
      /\ recv_data_' = data
      /\ attempt' = attempt + 1
      /\ handle' = h
      /\ net' = net \cup {Copy(h, calls, attempt + 1)}
      /\ reply' = NoReply
      /\ pc' = "perform"
      /\ UNCHANGED <<api_cfg_, asked, calls, wake, outcome, executed,
                     failures, now>>

RequestRestamped ==
  Transfer(IF stamp = Unstamped THEN Unstamped ELSE now, <<>>)
RequestKeepingData == Transfer(stamp, recv_data_)

Request == Transfer(stamp, <<>>)

(* curl_easy_perform fails; part of an answer may have come in.            *)
Fail ==
  /\ pc = "perform"
  /\ failures < MaxFailures
  /\ failures' = failures + 1
  /\ \/ UNCHANGED recv_data_
     \/ /\ reply # NoReply
        /\ recv_data_' = Append(recv_data_, Chunk(reply, FALSE))
  /\ reply' = NoReply
  /\ wake' = now + RetryDelay
  /\ pc' = "sleep"
  /\ UNCHANGED <<api_cfg_, caller_vars, attempt, handle, outcome, net,
                 executed, now>>

(* The loop goes round again.                                              *)
Again ==
  /\ pc = "sleep"
  /\ pc' = "request"
  /\ UNCHANGED <<api_cfg_, caller_vars, attempt, wake, handle, recv_data_,
                 outcome, network_vars, failures, now>>

RetryAtOnce == Again
RetryWhileTimely == now >= wake /\ (stamp # Unstamped => Timely(stamp)) /\ Again

Retry == now >= wake /\ Again

(* The rest of request after a transfer, and get_response: any answer of   *)
(* the exchange, an error object too, ends the call.                       *)
Answered ==
  /\ pc = "perform"
  /\ reply # NoReply
  /\ recv_data_' = Append(recv_data_, Chunk(reply, TRUE))
  /\ handle' = ResetHandle(handle)
  /\ reply' = NoReply
  /\ outcome' = "returned"
  /\ pc' = "idle"
  /\ UNCHANGED <<api_cfg_, caller_vars, attempt, wake, net, executed,
                 failures, now>>

(* Only the transfer that is being performed still waits for an answer to  *)
(* its copy.                                                               *)
Current(m) == m.call = calls /\ m.attempt = attempt
Replied(m, v) == IF pc = "perform" /\ Current(m) THEN v ELSE reply

(* A copy reaches the exchange, which turns it down or carries it out.     *)
Arrive(m) ==
  /\ m \in net
  /\ net' = net \ {m}
  /\ \/ /\ reply' = Replied(m, "rejected")
        /\ UNCHANGED executed
     \/ \E s \in Services :
          /\ Serves(m.wire, s)
          /\ reply' = Replied(m, "accepted")
          /\ executed' = IF s.signed
                         THEN [executed EXCEPT ![m.call] = @ + 1]
                         ELSE executed
  /\ UNCHANGED <<api_cfg_, pc, caller_vars, attempt, wake, handle,
                 recv_data_, outcome, failures, now>>

Tick ==
  /\ \/ now < Horizon
     \/ pc = "sleep" /\ now < wake
  /\ now' = now + 1
  /\ UNCHANGED <<api_cfg_, pc, caller_vars, attempt, wake, handle,
                 recv_data_, outcome, network_vars, failures>>

Next ==
  \/ \E r \in Asked : Ask(r)
  \/ Request
  \/ Fail
  \/ Retry
  \/ Answered
  \/ \E m \in net : Arrive(m)
  \/ Tick

Spec == Init /\ [][Next]_vars

(* The thread is scheduled, time passes while it sleeps, and a transfer    *)
(* either fails or is answered; it fails at most MaxFailures times.        *)
Fairness ==
  /\ WF_vars(Request)
  /\ WF_vars(Retry)
  /\ WF_vars(Answered)
  /\ WF_vars(\E m \in net : Current(m) /\ Arrive(m))
  /\ WF_vars(Tick)

FairSpec == Spec /\ Fairness

----------------------------------------------------------------------------
Endpoints == {Route[o][2] : o \in Operations}
ParamSet == [of : 0..MaxCalls,
             entries : {Route[o][4] : o \in Operations} \cup {"unset"},
             stamp : Nat \cup {Unstamped}]
Wire == [verb : {"GET", "POST", "DELETE"}, endpoint : Endpoints, params : ParamSet,
         key : BOOLEAN]
Copies == [wire : Wire, call : 1..MaxCalls, attempt : Nat \ {0}]
Handles == [custom : BOOLEAN, endpoint : Endpoints \cup {""},
            query : ParamSet, fields : ParamSet, header : BOOLEAN]
Chunks == [call : 1..MaxCalls, attempt : Nat, verdict : Verdicts,
           whole : BOOLEAN]

(* Types of the variables.                                                 *)
TypeOK ==
  /\ api_cfg_ \in BOOLEAN
  /\ pc \in {"idle", "request", "perform", "sleep"}
  /\ asked \in Requests \cup {NoRequest}
  /\ calls \in 0..MaxCalls
  /\ attempt \in Nat
  /\ stamp \in Nat \cup {Unstamped}
  /\ wake \in Nat
  /\ handle \in Handles
  /\ recv_data_ \in Seq(Chunks)
  /\ outcome \in {"none", "returned", "threw"}
  /\ net \in SUBSET Copies
  /\ reply \in Verdicts \cup {NoReply}
  /\ executed \in [1..MaxCalls -> Nat]
  /\ failures \in 0..MaxFailures
  /\ now \in Nat

(* A transfer carries the verb, the address, the parameters and the key of *)
(* the request of its call: nothing of an earlier request is still set on  *)
(* the shared handle, although nothing clears it after a failure           *)
(* (connection.hpp:83-113).                                                *)
SentAsAsked ==
  pc = "perform" => OnTheWire(handle) = Wanted(asked, calls, stamp)

(* An order is carried out at most once, however often its request is      *)
(* repeated (binance_api.cpp:47): only the first copy can be in time.      *)
AtMostOnce == \A n \in DOMAIN executed : executed[n] <= 1

(* The caller gets the whole answer to its last transfer and nothing else, *)
(* no part of an answer that broke off (connection.hpp:69).                *)
ResponseIsWhole ==
  outcome = "returned" =>
    \E v \in Verdicts : recv_data_ = <<Chunk(v, TRUE)>>

(* A signed call that is told "accepted" has been carried out, and was not *)
(* repeated: the answer to a repetition is always an error.                *)
AcceptedAtFirstAttempt ==
  (/\ outcome = "returned"
   /\ IsSigned(asked)
   /\ recv_data_ = <<Chunk("accepted", TRUE)>>)
    => executed[calls] = 1 /\ attempt = 1

(* Once a call has returned, no copy of it that is still under way is      *)
(* carried out: what the caller is told stays true while it goes on.       *)
AnswerIsFinal ==
  [][\A n \in 1..MaxCalls :
       n < calls \/ (n = calls /\ pc = "idle")
         => executed'[n] = executed[n]]_vars

(* What the caller knows of its calls, and what it may rely on: see        *)
(* OrderChannel.  All that the handle, the copies under way, the clocks    *)
(* and the retries of binance_api.cpp:29-59 add to it is stuttering.       *)
Channel == INSTANCE OrderChannel WITH
  current <- calls,
  order <- asked # NoRequest /\ IsSigned(asked),
  busy <- pc # "idle",
  done <- executed,
  told <- IF outcome = "returned" THEN Head(recv_data_).verdict ELSE outcome

ImplementsOrderChannel == Channel!Spec

(* The loop of call ends in an answer (binance_api.cpp:47-56), given that  *)
(* the network fails only so often.                                        *)
CallReturns == pc # "idle" ~> pc = "idle"

(* binance_api.cpp:102: query_spot_order is to query an order.  What it    *)
(* sends does not name the service by which orders are opened.             *)
QueryIsNotAnOrder ==
  pc = "perform" /\ asked.op = "query_spot_order" =>
    LET open == Route["open_spot_order"]
    IN  <<OnTheWire(handle).verb, OnTheWire(handle).endpoint>>
          # <<open[1], open[2]>>

(* binance_api.cpp:65: an order has one of the types of ORDER_TYPE; with   *)
(* the configuration in place each of them is sent, for an order to buy or *)
(* to sell.                                                                *)
EveryOrderTypeIsSent ==
  outcome = "threw" => ~api_cfg_ \/ asked.side = "NONE"

=============================================================================
