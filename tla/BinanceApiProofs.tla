-------------------------- MODULE BinanceApiProofs --------------------------
(***************************************************************************)
(* Safety of the calls to the exchange, for every set of requests, any     *)
(* number of calls and failures, and every RecvWindow below RetryDelay.    *)
(*                                                                         *)
(* The argument: only the first copy of a call can be in time, for the     *)
(* second is sent RetryDelay after the timestamp that both of them carry.  *)
(***************************************************************************)
EXTENDS BinanceApi, TLAPS

----------------------------------------------------------------------------
(* Facts about the table of operations and about the handle.               *)

LEMMA OperationsAre ==
  Operations = {"open_spot_order", "open_stoploss_spot_order",
                "close_spot_order", "query_spot_order",
                "close_all_spot_orders", "open_oco_spot_order",
                "close_oco_spot_order", "get_symbol_price",
                "get_server_time", "get_kline"}
BY DEF Operations, Route

LEMMA RouteFacts ==
  ASSUME NEW o \in Operations
  PROVE  /\ Route[o][1] \in {"GET", "POST", "DELETE"}
         /\ Route[o][4] # "unset"
         /\ Route[o][3] = "SIGNED" <=> Route[o][1] # "GET"
<1>1. /\ Route["open_spot_order"] =
           <<"POST", "/order", "SIGNED", "order">>
      /\ Route["open_stoploss_spot_order"] =
           <<"POST", "/order", "SIGNED", "order">>
      /\ Route["close_spot_order"] =
           <<"DELETE", "/order", "SIGNED", "orderId">>
      /\ Route["query_spot_order"] =
           <<"POST", "/order", "SIGNED", "orderId">>
      /\ Route["close_all_spot_orders"] =
           <<"DELETE", "/openOrders", "SIGNED", "symbol">>
      /\ Route["open_oco_spot_order"] =
           <<"POST", "/order/oco", "SIGNED", "order">>
      /\ Route["close_oco_spot_order"] =
           <<"DELETE", "/orderList", "SIGNED", "orderId">>
      /\ Route["get_symbol_price"] =
           <<"GET", "/ticker/price", "NONE", "symbol">>
      /\ Route["get_server_time"] =
           <<"GET", "/time", "NONE", "nothing">>
      /\ Route["get_kline"] =
           <<"GET", "/klines", "NONE", "symbol">>
  BY DEF Route
<1> QED
  BY <1>1, OperationsAre

LEMMA RequestFacts ==
  ASSUME NEW r \in Requests
  PROVE  /\ Verb(r) \in {"GET", "POST", "DELETE"}
         /\ Endpoint(r) \in Endpoints
         /\ IsSigned(r) \in BOOLEAN
         /\ Entries(r) \in {Route[o][4] : o \in Operations} \ {"unset"}
         /\ IsSigned(r) <=> Verb(r) # "GET"
<1>1. r.op \in Operations
  BY OperationsAre DEF Requests
<1> QED
  BY <1>1, RouteFacts DEF Verb, Endpoint, Endpoints, IsSigned, Entries

LEMMA ServiceFacts ==
  ASSUME NEW s \in Services
  PROVE  s.signed \in BOOLEAN /\ (s.signed <=> s.verb # "GET")
<1>1. PICK o \in Operations :
        s = [verb |-> Route[o][1], endpoint |-> Route[o][2],
             signed |-> Route[o][3] = "SIGNED", entries |-> Route[o][4]]
  BY DEF Services
<1>2. s.verb = Route[o][1] /\ s.signed = (Route[o][3] = "SIGNED")
  BY <1>1
<1> QED
  BY <1>2, RouteFacts

LEMMA ParamsAreSet ==
  ASSUME NEW r \in Requests, NEW n \in 0..MaxCalls,
         NEW t \in Nat \cup {Unstamped}
  PROVE  Params(r, n, t) \in ParamSet \ {Unset}
<1>1. Params(r, n, t).entries # Unset.entries
  BY RequestFacts DEF Params, Unset
<1> QED
  BY <1>1, RequestFacts DEF Params, ParamSet

LEMMA OptionsOfRequest ==
  ASSUME NEW r \in Requests, NEW p, p # Unset
  PROVE  LET h == SetOptions(FreshHandle, r, p)
         IN  /\ SetOptions(h, r, p) = h
             /\ OnTheWire(h) = [verb |-> Verb(r), endpoint |-> Endpoint(r),
                                params |-> p, key |-> IsSigned(r)]
BY RequestFacts DEF SetOptions, OnTheWire, FreshHandle

----------------------------------------------------------------------------
(* The inductive invariant.                                                *)

(* A copy that the exchange will not carry out any more.                   *)
Late(m) == ~Timely(m.wire.params.stamp)

(* The handle has the options of the current request and no others.        *)
HandleInv ==
  /\ pc = "idle" \/ (pc = "request" /\ attempt = 0) => handle = FreshHandle
  /\ pc # "idle" /\ attempt > 0 =>
       handle = SetOptions(FreshHandle, asked, Params(asked, calls, stamp))

(* The loop of call: what is asked, and how much time its retries take.    *)
LoopInv ==
  /\ pc # "idle" =>
       /\ asked \in Requests
       /\ calls > 0
       /\ stamp # Unstamped <=> IsSigned(asked)
       /\ outcome = "none"
  /\ pc \in {"perform", "sleep"} => attempt > 0
  /\ pc = "perform" => recv_data_ = <<>>
  /\ reply # NoReply => pc = "perform"
  /\ stamp <= now
  /\ stamp # Unstamped =>
       /\ pc = "sleep" => wake - stamp >= RetryDelay
       /\ pc = "request" /\ attempt > 0 => now - stamp >= RetryDelay
       /\ attempt > 1 => now - stamp >= RetryDelay

(* The copies under way: those of the latest call are one for each attempt *)
(* at most, repetitions are late, and so is every copy of a call that has  *)
(* returned.                                                               *)
NetInv ==
  \A m \in net :
    /\ m.call <= calls
    /\ m.wire.params.stamp <= now
    /\ m.call = calls =>
         /\ m.attempt <= attempt
         /\ m.wire = Wanted(asked, calls, stamp)
         /\ reply # NoReply => m.attempt # attempt
    /\ m.attempt > 1 \/ m.call < calls \/ pc = "idle" => Late(m)

(* The exchange carries out a call at its first copy, which is gone then.  *)
OnceInv ==
  \A n \in DOMAIN executed :
    /\ executed[n] <= 1
    /\ executed[n] = 1 =>
         /\ n <= calls
         /\ n = calls => attempt > 0
         /\ \A m \in net : m.call = n => m.attempt > 1

(* What the caller is told.                                                *)
AnswerInv ==
  /\ reply = "accepted" /\ IsSigned(asked) => executed[calls] = 1 /\ attempt = 1
  /\ outcome = "returned" =>
       \E v \in Verdicts :
         /\ recv_data_ = <<Chunk(v, TRUE)>>
         /\ v = "accepted" /\ IsSigned(asked) => executed[calls] = 1 /\ attempt = 1

IInv ==
  /\ TypeOK
  /\ HandleInv
  /\ LoopInv
  /\ NetInv
  /\ OnceInv
  /\ AnswerInv

----------------------------------------------------------------------------
(* Types.                                                                  *)

LEMMA UnsetIsParams == Unset \in ParamSet
BY ApiAssumption DEF Unset, ParamSet

LEMMA FreshHandleType == FreshHandle \in Handles
BY UnsetIsParams DEF FreshHandle, Handles

LEMMA SetOptionsType ==
  ASSUME NEW r \in Requests, NEW p \in ParamSet, NEW h \in Handles
  PROVE  /\ SetOptions(h, r, p) \in Handles
         /\ OnTheWire(SetOptions(h, r, p)) \in Wire
<1> DEFINE g == SetOptions(h, r, p)
<1>1. /\ g.custom \in BOOLEAN /\ g.header \in BOOLEAN
      /\ g.endpoint \in Endpoints
      /\ g.query \in ParamSet /\ g.fields \in ParamSet
  BY UnsetIsParams, RequestFacts DEF SetOptions, Handles
<1>2. g \in Handles
  BY UnsetIsParams, RequestFacts DEF SetOptions, Handles
<1>3. OnTheWire(g) \in Wire
  BY <1>1 DEF OnTheWire, Wire
<1> QED
  BY <1>2, <1>3

LEMMA ChunkType ==
  ASSUME NEW v \in Verdicts, NEW w \in BOOLEAN, calls \in 1..MaxCalls,
         attempt \in Nat, NEW data \in Seq(Chunks)
  PROVE  Append(data, Chunk(v, w)) \in Seq(Chunks)
<1>1. Chunk(v, w) \in Chunks
  BY DEF Chunk, Chunks
<1> QED
  BY <1>1

LEMMA TypeInit == Init => TypeOK
<1> SUFFICES ASSUME Init PROVE TypeOK
  OBVIOUS
<1>1. /\ api_cfg_ \in BOOLEAN
      /\ asked \in Requests \cup {NoRequest}
      /\ recv_data_ \in Seq(Chunks)
      /\ net \in SUBSET Copies
      /\ handle \in Handles
  BY FreshHandleType DEF Init
<1>2. /\ pc \in {"idle", "request", "perform", "sleep"}
      /\ outcome \in {"none", "returned", "threw"}
      /\ reply \in Verdicts \cup {NoReply}
  BY DEF Init
<1>3. /\ calls \in 0..MaxCalls /\ failures \in 0..MaxFailures
      /\ attempt \in Nat /\ wake \in Nat /\ now \in Nat
      /\ stamp \in Nat \cup {Unstamped}
  BY ApiAssumption DEF Init
<1>4. executed \in [1..MaxCalls -> Nat]
  BY DEF Init
<1> QED
  BY <1>1, <1>2, <1>3, <1>4 DEF TypeOK

(* Every step keeps the types; the loop invariant is needed for the number *)
(* of the call and for the request in it.                                  *)
LEMMA TypeStep ==
  ASSUME TypeOK, LoopInv, [Next]_vars
  PROVE  TypeOK'
<1> USE ApiAssumption, AskedAssumption
<1>1. ASSUME NEW r \in Asked, Ask(r) PROVE TypeOK'
  BY <1>1 DEF Ask, TypeOK, network_vars
<1>2. CASE Request
  <2> DEFINE p == Params(asked, calls, stamp)
             h == SetOptions(handle, asked, p)
  <2>1. pc = "request" /\ handle' = h /\ recv_data_' = <<>>
        /\ net' = net \cup {Copy(h, calls, attempt + 1)}
    BY <1>2 DEF Request, Transfer
  <2>2. asked \in Requests /\ calls \in 1..MaxCalls
    BY <2>1 DEF LoopInv, TypeOK
  <2>3. p \in ParamSet
    BY <2>2, ParamsAreSet DEF TypeOK
  <2>4. h \in Handles /\ OnTheWire(h) \in Wire
    BY <2>2, <2>3, SetOptionsType DEF TypeOK
  <2>5. Copy(h, calls, attempt + 1) \in Copies
    BY <2>2, <2>4 DEF Copy, Copies, TypeOK
  <2>6. handle' \in Handles /\ net' \in SUBSET Copies
        /\ recv_data_' \in Seq(Chunks)
    BY <2>1, <2>4, <2>5 DEF TypeOK
  <2> QED
    BY <1>2, <2>6 DEF Request, Transfer, TypeOK
<1> DEFINE More(w) == Append(recv_data_, Chunk(reply, w))
<1>a. ASSUME pc = "perform", reply # NoReply, NEW w \in BOOLEAN
      PROVE  More(w) \in Seq(Chunks)
  <2>1. calls \in 1..MaxCalls
    BY <1>a DEF LoopInv, TypeOK
  <2>2. reply \in Verdicts /\ attempt \in Nat /\ recv_data_ \in Seq(Chunks)
    BY <1>a DEF TypeOK
  <2> QED
    BY <2>1, <2>2, ChunkType
<1>3. CASE Fail
  <2>1. recv_data_' \in Seq(Chunks)
    <3>1. recv_data_' = recv_data_ \/ (reply # NoReply /\ recv_data_' = More(FALSE))
      BY <1>3 DEF Fail
    <3> QED
      BY <1>3, <1>a, <3>1 DEF Fail, TypeOK
  <2> QED
    BY <1>3, <2>1 DEF Fail, TypeOK, caller_vars
<1>4. CASE Retry
  BY <1>4 DEF Retry, Again, TypeOK, caller_vars, network_vars
<1>5. CASE Answered
  <2>1. recv_data_' \in Seq(Chunks)
    BY <1>5, <1>a DEF Answered
  <2>2. handle' \in Handles
    BY <1>5, FreshHandleType DEF Answered, ResetHandle
  <2> QED
    BY <1>5, <2>1, <2>2 DEF Answered, TypeOK, caller_vars
<1>6. ASSUME NEW m \in net, Arrive(m) PROVE TypeOK'
  <2>1. reply' \in Verdicts \cup {NoReply}
    BY <1>6 DEF Arrive, Replied, TypeOK, Verdicts
  <2>2. m.call \in 1..MaxCalls
    BY DEF TypeOK, Copies
  <2>3. executed' \in [1..MaxCalls -> Nat]
    <3>1. executed \in [1..MaxCalls -> Nat]
      BY DEF TypeOK
    <3>2. \/ executed' = executed
          \/ executed' = [executed EXCEPT ![m.call] = @ + 1]
      BY <1>6 DEF Arrive
    <3> QED
      BY <2>2, <3>1, <3>2
  <2> QED
    BY <1>6, <2>1, <2>3 DEF Arrive, TypeOK, caller_vars
<1>7. CASE Tick
  BY <1>7 DEF Tick, TypeOK, caller_vars, network_vars
<1>8. CASE UNCHANGED vars
  BY <1>8 DEF vars, TypeOK, caller_vars, network_vars
<1> QED
  BY <1>1, <1>2, <1>3, <1>4, <1>5, <1>6, <1>7, <1>8 DEF Next

----------------------------------------------------------------------------
(* The handle and the loop.                                                *)

LEMMA HandleStep ==
  ASSUME TypeOK, LoopInv, HandleInv, [Next]_vars
  PROVE  HandleInv'
<1> USE AskedAssumption
<1>1. ASSUME NEW r \in Asked, Ask(r) PROVE HandleInv'
  BY <1>1 DEF Ask, HandleInv
<1>2. CASE Request
  <2> DEFINE p == Params(asked, calls, stamp)
  <2>1. asked \in Requests /\ p # Unset
    BY <1>2, ParamsAreSet DEF Request, Transfer, LoopInv, TypeOK
  <2>2. handle \in {FreshHandle, SetOptions(FreshHandle, asked, p)}
    BY <1>2 DEF Request, Transfer, HandleInv, TypeOK
  <2>3. SetOptions(handle, asked, p) = SetOptions(FreshHandle, asked, p)
    BY <2>1, <2>2, OptionsOfRequest
  <2>4. /\ pc' = "perform" /\ UNCHANGED <<asked, calls>> /\ stamp' = stamp
        /\ handle' = SetOptions(handle, asked, p)
    BY <1>2 DEF Request, Transfer
  <2> QED
    BY <2>3, <2>4 DEF HandleInv
<1>3. CASE Fail \/ Retry
  <2>1. /\ pc \in {"perform", "sleep"} /\ pc' \in {"sleep", "request"}
        /\ UNCHANGED <<asked, calls, stamp, attempt, handle>>
    BY <1>3 DEF Fail, Retry, Again, caller_vars
  <2>2. attempt > 0
    BY <2>1 DEF LoopInv
  <2> QED
    BY <2>1, <2>2 DEF HandleInv
<1>4. CASE Answered
  BY <1>4 DEF Answered, ResetHandle, HandleInv
<1>5. CASE Tick \/ (\E m \in net : Arrive(m)) \/ UNCHANGED vars
  <2>1. UNCHANGED <<pc, asked, calls, stamp, attempt, handle>>
    BY <1>5 DEF Tick, Arrive, vars, caller_vars
  <2> QED
    BY <2>1 DEF HandleInv
<1> QED
  BY <1>1, <1>2, <1>3, <1>4, <1>5 DEF Next

LEMMA LoopStep ==
  ASSUME TypeOK, LoopInv, [Next]_vars
  PROVE  LoopInv'
<1> USE ApiAssumption, AskedAssumption DEF Unstamped
<1>1. ASSUME NEW r \in Asked, Ask(r) PROVE LoopInv'
  <2>1. reply = NoReply /\ now \in Nat /\ calls \in Nat
    BY <1>1 DEF Ask, LoopInv, TypeOK
  <2> QED
    BY <1>1, <2>1 DEF Ask, LoopInv, network_vars
<1>2. CASE Request
  <2>1. /\ pc = "request" /\ pc' = "perform" /\ attempt' = attempt + 1
        /\ recv_data_' = <<>> /\ reply' = NoReply /\ stamp' = stamp
        /\ UNCHANGED <<asked, calls, outcome, now, wake>>
    BY <1>2 DEF Request, Transfer
  <2>2. attempt \in Nat
    BY DEF TypeOK
  <2> QED
    BY <2>1, <2>2 DEF LoopInv, IsSigned
<1>3. CASE Fail
  <2>1. /\ pc = "perform" /\ pc' = "sleep" /\ reply' = NoReply
        /\ wake' = now + RetryDelay
        /\ UNCHANGED <<asked, calls, outcome, now, stamp, attempt>>
    BY <1>3 DEF Fail, caller_vars
  <2>2. now \in Nat /\ stamp \in Int
    BY DEF TypeOK
  <2> QED
    BY <2>1, <2>2 DEF LoopInv, IsSigned
<1>4. CASE Retry
  <2>1. /\ pc = "sleep" /\ pc' = "request" /\ now >= wake
        /\ UNCHANGED <<asked, calls, outcome, now, wake, stamp, attempt, reply>>
    BY <1>4 DEF Retry, Again, caller_vars, network_vars
  <2>2. now \in Nat /\ stamp \in Int /\ wake \in Nat
    BY DEF TypeOK
  <2> QED
    BY <2>1, <2>2 DEF LoopInv, IsSigned
<1>5. CASE Answered
  <2>1. /\ pc' = "idle" /\ reply' = NoReply
        /\ UNCHANGED <<now, wake, stamp, attempt>>
    BY <1>5 DEF Answered, caller_vars
  <2> QED
    BY <2>1 DEF LoopInv
<1>6. ASSUME NEW m \in net, Arrive(m) PROVE LoopInv'
  <2>1. reply' # NoReply => reply # NoReply \/ pc = "perform"
    BY <1>6 DEF Arrive, Replied
  <2>2. UNCHANGED <<pc, asked, calls, outcome, now, wake, stamp, attempt,
                    recv_data_>>
    BY <1>6 DEF Arrive, caller_vars
  <2> QED
    BY <2>1, <2>2 DEF LoopInv, IsSigned
<1>7. CASE Tick
  <2>1. /\ now' = now + 1
        /\ UNCHANGED <<pc, asked, calls, outcome, wake, stamp, attempt,
                       recv_data_, reply>>
    BY <1>7 DEF Tick, caller_vars, network_vars
  <2>2. now \in Nat /\ stamp \in Int
    BY DEF TypeOK
  <2> QED
    BY <2>1, <2>2 DEF LoopInv, IsSigned
<1>8. CASE UNCHANGED vars
  BY <1>8 DEF vars, caller_vars, network_vars, LoopInv, IsSigned
<1> QED
  BY <1>1, <1>2, <1>3, <1>4, <1>5, <1>6, <1>7, <1>8 DEF Next

----------------------------------------------------------------------------
(* The copies under way.                                                   *)

(* Once late, always late.                                                 *)
LEMMA StaysLate ==
  ASSUME NEW m, m.wire.params.stamp \in Nat \cup {Unstamped},
         now \in Nat, now' \in Nat, now' >= now, Late(m)
  PROVE  Late(m)'
BY ApiAssumption DEF Late, Timely, Unstamped

LEMMA CopyStamp ==
  ASSUME NEW m \in Copies
  PROVE  /\ m.wire.params.stamp \in Nat \cup {Unstamped}
         /\ m.call \in 1..MaxCalls /\ m.attempt \in Nat \ {0}
BY DEF Copies, Wire, ParamSet

LEMMA NetStep ==
  ASSUME TypeOK, TypeOK', HandleInv, LoopInv, NetInv, [Next]_vars
  PROVE  NetInv'
<1> USE ApiAssumption, AskedAssumption
<1>t. /\ now \in Nat /\ now' \in Nat /\ stamp \in Nat \cup {Unstamped}
      /\ calls \in Nat /\ attempt \in Nat /\ net \in SUBSET Copies
  BY DEF TypeOK
<1>1. ASSUME NEW r \in Asked, Ask(r) PROVE NetInv'
  <2>1. /\ pc = "idle" /\ calls' = calls + 1 /\ UNCHANGED <<net, now>>
    BY <1>1 DEF Ask, network_vars
  <2>2. ASSUME NEW m \in net
        PROVE  /\ m.call < calls' /\ m.wire.params.stamp <= now'
               /\ Late(m)'
    <3>1. /\ m.call <= calls /\ m.wire.params.stamp <= now /\ Late(m)
      BY <2>1 DEF NetInv
    <3> QED
      BY <1>t, <2>1, <3>1, CopyStamp, StaysLate
  <2> QED
    BY <1>t, <2>1, <2>2, CopyStamp DEF NetInv
<1>2. CASE Request
  <2> DEFINE c == Copy(handle', calls, attempt + 1)
  <2>1. /\ pc = "request" /\ pc' = "perform" /\ attempt' = attempt + 1
        /\ net' = net \cup {c} /\ reply' = NoReply
        /\ UNCHANGED <<asked, calls, now>> /\ stamp' = stamp
    BY <1>2 DEF Request, Transfer
  <2>2. handle' = SetOptions(FreshHandle, asked, Params(asked, calls, stamp))
    BY <2>1, <1>t, HandleStep DEF HandleInv
  <2>3. asked \in Requests /\ Params(asked, calls, stamp) # Unset
    BY <2>1, ParamsAreSet DEF LoopInv, TypeOK
  <2>4. /\ c.call = calls /\ c.attempt = attempt + 1
        /\ c.wire = Wanted(asked, calls, stamp)
    BY <2>2, <2>3, OptionsOfRequest DEF Copy, Wanted
  <2>5. c.wire.params.stamp = stamp
    BY <2>4 DEF Wanted, Params
  <2>6. attempt > 0 => Late(c)
    BY <1>t, <2>1, <2>5 DEF Late, Timely, LoopInv
  <2>7. ASSUME NEW m \in net'
        PROVE  /\ m.call <= calls
               /\ m.wire.params.stamp <= now
               /\ m.call = calls =>
                    /\ m.attempt <= attempt + 1
                    /\ m.wire = Wanted(asked, calls, stamp)
               /\ m.attempt > 1 \/ m.call < calls => Late(m)
    <3>1. CASE m = c
      BY <3>1, <1>t, <2>4, <2>5, <2>6 DEF LoopInv
    <3>2. CASE m \in net
      BY <3>2, <1>t, CopyStamp DEF NetInv
    <3> QED
      BY <2>1, <3>1, <3>2
  <2>8. \A m : Late(m)' <=> Late(m)
    BY <2>1 DEF Late, Timely
  <2>9. Wanted(asked, calls, stamp)' = Wanted(asked, calls, stamp)
    BY <2>1 DEF Wanted, Verb, Endpoint, Params, Entries, IsSigned
  <2> QED
    BY <2>1, <2>7, <2>8, <2>9 DEF NetInv
<1>3. CASE Fail \/ Retry
  <2>1. /\ pc # "idle" /\ pc' # "idle" /\ reply' = NoReply
        /\ UNCHANGED <<net, asked, calls, stamp, attempt, now>>
    BY <1>3 DEF Fail, Retry, Again, caller_vars, network_vars, LoopInv
  <2> QED
    BY <2>1 DEF NetInv, Late, Timely, Wanted, Verb, Endpoint, Params, Entries,
                IsSigned
<1>4. CASE Answered
  <2>1. /\ pc = "perform" /\ reply # NoReply /\ reply' = NoReply
        /\ UNCHANGED <<net, asked, calls, stamp, attempt, now>>
    BY <1>4 DEF Answered, caller_vars
  <2>2. ASSUME NEW m \in net PROVE Late(m)
    <3>1. CASE m.call < calls
      BY <3>1 DEF NetInv
    <3>2. CASE m.call = calls
      <4>1. m.attempt > 1 \/ attempt > 1
        BY <3>2, <2>1, <1>t, CopyStamp DEF NetInv
      <4>2. m.wire.params.stamp = stamp
        BY <3>2 DEF NetInv, Wanted, Params
      <4>3. attempt > 1 => Late(m)
        BY <1>t, <4>2 DEF LoopInv, Late, Timely
      <4> QED
        BY <4>1, <4>3 DEF NetInv
    <3> QED
      BY <3>1, <3>2, <1>t, CopyStamp DEF NetInv
  <2>3. \A m : Late(m)' <=> Late(m)
    BY <2>1 DEF Late, Timely
  <2>4. Wanted(asked, calls, stamp)' = Wanted(asked, calls, stamp)
    BY <2>1 DEF Wanted, Verb, Endpoint, Params, Entries, IsSigned
  <2> QED
    BY <2>1, <2>2, <2>3, <2>4 DEF NetInv
<1>5. ASSUME NEW c \in net, Arrive(c) PROVE NetInv'
  <2>1. /\ net' = net \ {c}
        /\ UNCHANGED <<pc, asked, calls, stamp, attempt, now>>
    BY <1>5 DEF Arrive, caller_vars
  <2>2. reply' # reply => Current(c)
    BY <1>5 DEF Arrive, Replied
  <2>3. ASSUME NEW m \in net', Current(c) PROVE ~Current(m)
    <3>1. m \in net /\ m # c
      BY <2>1
    <3>2. Current(m) => m.wire = c.wire
      BY <3>1, <2>3 DEF NetInv, Current
    <3>3. m \in Copies /\ c \in Copies
      BY <3>1, <1>t
    <3> QED
      BY <3>1, <3>2, <3>3, <2>3 DEF Copies, Current
  <2>4. \A m : Late(m)' <=> Late(m)
    BY <2>1 DEF Late, Timely
  <2>5. Wanted(asked, calls, stamp)' = Wanted(asked, calls, stamp)
    BY <2>1 DEF Wanted, Verb, Endpoint, Params, Entries, IsSigned
  <2> QED
    BY <2>1, <2>2, <2>3, <2>4, <2>5 DEF NetInv, Current
<1>6. CASE Tick
  <2>1. /\ now' = now + 1
        /\ UNCHANGED <<net, reply, pc, asked, calls, stamp, attempt>>
    BY <1>6 DEF Tick, caller_vars, network_vars
  <2>2. ASSUME NEW m \in net
        PROVE  /\ m.wire.params.stamp <= now'
               /\ Late(m) => Late(m)'
    BY <1>t, <2>1, CopyStamp, StaysLate DEF NetInv, Unstamped
  <2>3. Wanted(asked, calls, stamp)' = Wanted(asked, calls, stamp)
    BY <2>1 DEF Wanted, Verb, Endpoint, Params, Entries, IsSigned
  <2> QED
    BY <2>1, <2>2, <2>3 DEF NetInv
<1>7. CASE UNCHANGED vars
  BY <1>7 DEF vars, caller_vars, network_vars, NetInv, Late, Timely, Wanted,
              Verb, Endpoint, Params, Entries, IsSigned
<1> QED
  BY <1>1, <1>2, <1>3, <1>4, <1>5, <1>6, <1>7 DEF Next

----------------------------------------------------------------------------
(* What the exchange carries out.                                          *)

(* A copy that is carried out as a signed request is the first copy of the *)
(* call that is being made.                                                *)
LEMMA CarriedOutIsFirst ==
  ASSUME TypeOK, NetInv, NEW m \in net, NEW s \in Services,
         Serves(m.wire, s), s.signed
  PROVE  /\ m.call = calls /\ m.attempt = 1 /\ pc # "idle"
         /\ calls \in DOMAIN executed
<1>1. ~Late(m)
  BY DEF Serves, Late
<1>2. m \in Copies /\ calls \in Nat /\ DOMAIN executed = 1..MaxCalls
  BY DEF TypeOK
<1>3. m.call <= calls /\ ~(m.attempt > 1 \/ m.call < calls \/ pc = "idle")
  BY <1>1 DEF NetInv
<1> QED
  BY <1>2, <1>3, CopyStamp

(* What one arrival does to the counts and to the answer.                  *)
LEMMA ArriveEffect ==
  ASSUME TypeOK, NetInv, NEW m \in net, Arrive(m)
  PROVE  \/ /\ UNCHANGED executed
            /\ reply' \in {reply, "rejected", "accepted"}
            /\ reply' = "accepted" /\ reply # "accepted" =>
                 /\ pc = "perform" /\ Current(m)
                 /\ \E s \in Services : Serves(m.wire, s) /\ ~s.signed
         \/ /\ m.call = calls /\ m.attempt = 1 /\ pc # "idle"
            /\ calls \in DOMAIN executed
            /\ executed' = [executed EXCEPT ![calls] = @ + 1]
            /\ reply' = Replied(m, "accepted")
<1>1. CASE /\ reply' = Replied(m, "rejected")
           /\ UNCHANGED executed
  BY <1>1 DEF Replied
<1>2. ASSUME NEW s \in Services, Serves(m.wire, s),
             reply' = Replied(m, "accepted"),
             executed' = IF s.signed THEN [executed EXCEPT ![m.call] = @ + 1]
                         ELSE executed
      PROVE  \/ /\ UNCHANGED executed
                /\ reply' \in {reply, "rejected", "accepted"}
                /\ reply' = "accepted" /\ reply # "accepted" =>
                     /\ pc = "perform" /\ Current(m)
                     /\ \E q \in Services : Serves(m.wire, q) /\ ~q.signed
             \/ /\ m.call = calls /\ m.attempt = 1 /\ pc # "idle"
                /\ calls \in DOMAIN executed
                /\ executed' = [executed EXCEPT ![calls] = @ + 1]
                /\ reply' = Replied(m, "accepted")
  <2>1. CASE s.signed
    BY <1>2, <2>1, CarriedOutIsFirst
  <2>2. CASE ~s.signed
    BY <1>2, <2>2 DEF Replied
  <2> QED
    BY <2>1, <2>2
<1> QED
  BY <1>1, <1>2 DEF Arrive

LEMMA OnceStep ==
  ASSUME TypeOK, NetInv, LoopInv, OnceInv, [Next]_vars
  PROVE  OnceInv'
<1> USE ApiAssumption
<1>t. /\ calls \in Nat /\ attempt \in Nat /\ net \in SUBSET Copies
      /\ executed \in [1..MaxCalls -> Nat]
  BY DEF TypeOK
<1>1. ASSUME NEW r \in Asked, Ask(r) PROVE OnceInv'
  <2>1. calls' = calls + 1 /\ UNCHANGED <<executed, net>>
    BY <1>1 DEF Ask, network_vars
  <2> QED
    BY <1>t, <2>1 DEF OnceInv
<1>2. CASE Request
  <2> DEFINE c == Copy(handle', calls, attempt + 1)
  <2>1. /\ net' = net \cup {c} /\ attempt' = attempt + 1
        /\ UNCHANGED <<calls, executed>>
    BY <1>2 DEF Request, Transfer
  <2>2. c.call = calls /\ c.attempt = attempt + 1
    BY DEF Copy
  <2> QED
    BY <1>t, <2>1, <2>2 DEF OnceInv
<1>3. ASSUME NEW m \in net, Arrive(m) PROVE OnceInv'
  <2>1. /\ net' = net \ {m}
        /\ UNCHANGED <<calls, attempt, asked, stamp>>
    BY <1>3 DEF Arrive, caller_vars
  <2>2. CASE UNCHANGED executed
    BY <2>1, <2>2 DEF OnceInv
  <2>3. CASE /\ m.call = calls /\ m.attempt = 1 /\ calls \in DOMAIN executed
             /\ executed' = [executed EXCEPT ![calls] = @ + 1]
    <3>1. executed[calls] = 0
      BY <1>t, <2>3 DEF OnceInv
    <3>2. /\ executed'[calls] = 1
          /\ \A n \in DOMAIN executed : n # calls => executed'[n] = executed[n]
          /\ DOMAIN executed' = DOMAIN executed
      BY <1>t, <2>3, <3>1
    <3>3. attempt > 0
      BY <1>t, <2>3 DEF NetInv
    <3>4. ASSUME NEW q \in net', q.call = calls PROVE q.attempt > 1
      <4>1. q \in net /\ q # m
        BY <2>1
      <4>2. q.wire = m.wire
        BY <4>1, <2>3, <3>4 DEF NetInv
      <4>3. q \in Copies /\ m \in Copies
        BY <4>1, <1>t
      <4>4. q.attempt # m.attempt
        BY <4>1, <4>2, <4>3, <2>3, <3>4 DEF Copies
      <4> QED
        BY <4>3, <4>4, <2>3, CopyStamp
    <3>5. ASSUME NEW n \in DOMAIN executed'
          PROVE  /\ executed'[n] <= 1
                 /\ executed'[n] = 1 =>
                      /\ n <= calls
                      /\ n = calls => attempt > 0
                      /\ \A q \in net' : q.call = n => q.attempt > 1
      <4>1. CASE n = calls
        BY <4>1, <1>t, <3>2, <3>3, <3>4
      <4>2. CASE n # calls
        BY <4>2, <2>1, <3>2 DEF OnceInv
      <4> QED
        BY <4>1, <4>2
    <3> QED
      BY <2>1, <3>5 DEF OnceInv
  <2> QED
    BY <1>3, <2>2, <2>3, ArriveEffect
<1>4. CASE Fail \/ Retry \/ Answered \/ Tick \/ UNCHANGED vars
  <2>1. UNCHANGED <<net, executed, calls, attempt>>
    BY <1>4 DEF Fail, Retry, Again, Answered, Tick, vars, caller_vars,
                network_vars
  <2> QED
    BY <2>1 DEF OnceInv
<1> QED
  BY <1>1, <1>2, <1>3, <1>4 DEF Next

LEMMA AnswerStep ==
  ASSUME TypeOK, LoopInv, NetInv, OnceInv, AnswerInv, [Next]_vars
  PROVE  AnswerInv'
<1> USE ApiAssumption
<1>t. /\ calls \in Nat /\ attempt \in Nat /\ net \in SUBSET Copies
      /\ executed \in [1..MaxCalls -> Nat] /\ reply \in Verdicts \cup {NoReply}
  BY DEF TypeOK
<1>1. CASE (\E r \in Asked : Ask(r)) \/ Request \/ Fail \/ Retry
  <2>1. reply' = NoReply /\ outcome' # "returned"
    BY <1>1 DEF Ask, Request, Transfer, Fail, Retry, Again, LoopInv,
                network_vars
  <2> QED
    BY <2>1 DEF AnswerInv, NoReply
<1>2. CASE Answered
  <2>1. /\ reply \in Verdicts /\ reply' = NoReply
        /\ recv_data_' = Append(recv_data_, Chunk(reply, TRUE))
        /\ pc = "perform"
        /\ UNCHANGED <<asked, calls, attempt, executed>>
    BY <1>2, <1>t DEF Answered, caller_vars
  <2>2. recv_data_' = <<Chunk(reply, TRUE)>>
    <3>1. recv_data_ = <<>>
      BY <2>1 DEF LoopInv
    <3>2. \A x : Append(<<>>, x) = <<x>>
      OBVIOUS
    <3> QED
      BY <2>1, <3>1, <3>2
  <2>3. \A v, w : Chunk(v, w)' = Chunk(v, w)
    BY <2>1 DEF Chunk
  <2>4. IsSigned(asked)' = IsSigned(asked)
    BY <2>1 DEF IsSigned
  <2> QED
    BY <2>1, <2>2, <2>3, <2>4 DEF AnswerInv, NoReply
<1>3. ASSUME NEW m \in net, Arrive(m) PROVE AnswerInv'
  <2>1. UNCHANGED <<pc, asked, calls, attempt, outcome, recv_data_>>
    BY <1>3 DEF Arrive, caller_vars
  <2>2. \A v, w : Chunk(v, w)' = Chunk(v, w)
    BY <2>1 DEF Chunk
  <2>3. IsSigned(asked)' = IsSigned(asked)
    BY <2>1 DEF IsSigned
  <2>4. CASE /\ UNCHANGED executed
             /\ reply' \in {reply, "rejected", "accepted"}
             /\ reply' = "accepted" /\ reply # "accepted" =>
                  /\ pc = "perform" /\ Current(m)
                  /\ \E s \in Services : Serves(m.wire, s) /\ ~s.signed
    <3>1. ASSUME NEW s \in Services, Serves(m.wire, s), ~s.signed,
                 pc = "perform", Current(m)
          PROVE  ~IsSigned(asked)
      <4>1. m.wire.verb = Verb(asked) /\ asked \in Requests
        BY <3>1 DEF NetInv, Current, Wanted, LoopInv
      <4> QED
        BY <3>1, <4>1, ServiceFacts, RequestFacts DEF Serves
    <3> QED
      BY <2>1, <2>2, <2>3, <2>4, <3>1 DEF AnswerInv
  <2>5. CASE /\ m.call = calls /\ m.attempt = 1 /\ pc # "idle"
             /\ calls \in DOMAIN executed
             /\ executed' = [executed EXCEPT ![calls] = @ + 1]
             /\ reply' = Replied(m, "accepted")
    <3>1. executed[calls] = 0
      BY <1>t, <2>5 DEF OnceInv
    <3>2. executed'[calls] = 1
      BY <1>t, <2>5, <3>1
    <3>3. outcome # "returned"
      BY <2>5 DEF LoopInv
    <3>4. reply' = "accepted" /\ IsSigned(asked) => Current(m)
      BY <2>5, <3>1 DEF Replied, AnswerInv
    <3> QED
      BY <2>1, <2>3, <2>5, <3>2, <3>3, <3>4 DEF AnswerInv, Current
  <2> QED
    BY <1>3, <2>4, <2>5, ArriveEffect
<1>4. CASE Tick \/ UNCHANGED vars
  <2>1. UNCHANGED <<reply, executed, asked, calls, attempt, outcome,
                    recv_data_>>
    BY <1>4 DEF Tick, vars, caller_vars, network_vars
  <2> QED
    BY <2>1 DEF AnswerInv, IsSigned, Chunk
<1> QED
  BY <1>1, <1>2, <1>3, <1>4 DEF Next

----------------------------------------------------------------------------
(* The theorems.                                                           *)

LEMMA IInvInit == Init => IInv
<1> SUFFICES ASSUME Init PROVE IInv
  OBVIOUS
<1> USE DEF Init
<1>1. HandleInv
  BY DEF HandleInv
<1>2. LoopInv
  BY DEF LoopInv, NoReply, Unstamped
<1>3. NetInv /\ OnceInv
  BY ApiAssumption DEF NetInv, OnceInv
<1>4. AnswerInv
  BY DEF AnswerInv, NoReply
<1> QED
  BY TypeInit, <1>1, <1>2, <1>3, <1>4 DEF IInv

LEMMA IInvStep == IInv /\ [Next]_vars => IInv'
BY TypeStep, HandleStep, LoopStep, NetStep, OnceStep, AnswerStep DEF IInv

(* The invariant that every other theorem of this module rests on.         *)
LEMMA Invariance == Spec => []IInv
BY IInvInit, IInvStep, PTL DEF Spec

(* The variables keep their types, for every set of requests.              *)
THEOREM ApiTypeCorrect == Spec => []TypeOK
BY Invariance, PTL DEF IInv

(* Nothing of an earlier request is left on the shared handle when the     *)
(* next one is sent (connection.hpp:78-113).                               *)
THEOREM RequestsAreSentAsAsked == Spec => []SentAsAsked
<1>1. IInv => SentAsAsked
  <2> SUFFICES ASSUME IInv, pc = "perform"
               PROVE  OnTheWire(handle) = Wanted(asked, calls, stamp)
    BY DEF SentAsAsked
  <2>1. asked \in Requests /\ attempt > 0
    BY DEF IInv, LoopInv
  <2>2. Params(asked, calls, stamp) # Unset
    BY <2>1, ParamsAreSet DEF IInv, TypeOK
  <2>3. handle = SetOptions(FreshHandle, asked, Params(asked, calls, stamp))
    BY <2>1 DEF IInv, HandleInv
  <2> QED
    BY <2>1, <2>2, <2>3, OptionsOfRequest DEF Wanted
<1> QED
  BY <1>1, Invariance, PTL

(* No signed request is carried out twice, whatever is lost or delayed and *)
(* however often it is repeated (binance_api.cpp:47-56).                   *)
THEOREM OrdersExecuteAtMostOnce == Spec => []AtMostOnce
<1>1. IInv => AtMostOnce
  BY DEF IInv, OnceInv, AtMostOnce
<1> QED
  BY <1>1, Invariance, PTL

(* The caller gets one whole answer (connection.hpp:69, binance_api.cpp:58). *)
THEOREM ResponsesAreWhole == Spec => []ResponseIsWhole
<1>1. IInv => ResponseIsWhole
  BY DEF IInv, AnswerInv, ResponseIsWhole
<1> QED
  BY <1>1, Invariance, PTL

(* "accepted" is told of a first attempt that was carried out, only.       *)
THEOREM AcceptedIsExecuted == Spec => []AcceptedAtFirstAttempt
<1>1. IInv => AcceptedAtFirstAttempt
  <2> SUFFICES ASSUME IInv, outcome = "returned", IsSigned(asked),
                      recv_data_ = <<Chunk("accepted", TRUE)>>
               PROVE  executed[calls] = 1 /\ attempt = 1
    BY DEF AcceptedAtFirstAttempt
  <2>1. PICK v \in Verdicts :
          /\ recv_data_ = <<Chunk(v, TRUE)>>
          /\ v = "accepted" /\ IsSigned(asked)
               => executed[calls] = 1 /\ attempt = 1
    BY DEF IInv, AnswerInv
  <2>2. Chunk(v, TRUE) = Chunk("accepted", TRUE)
    <3>1. \A a, b : <<a>> = <<b>> => a = b
      OBVIOUS
    <3> QED
      BY <2>1, <3>1
  <2>3. v = "accepted"
    BY <2>2 DEF Chunk
  <2> QED
    BY <2>1, <2>3
<1> QED
  BY <1>1, Invariance, PTL

(* After a call has returned nothing of it is carried out any more.        *)
THEOREM AnswersAreFinal == Spec => AnswerIsFinal
<1>1. IInv /\ [Next]_vars =>
        [\A n \in 1..MaxCalls :
           n < calls \/ (n = calls /\ pc = "idle")
             => executed'[n] = executed[n]]_vars
  <2> SUFFICES ASSUME IInv, Next, NEW n \in 1..MaxCalls,
                      n < calls \/ (n = calls /\ pc = "idle")
               PROVE  executed'[n] = executed[n]
    OBVIOUS
  <2>1. ASSUME NEW m \in net, Arrive(m) PROVE executed'[n] = executed[n]
    <3>1. executed \in [1..MaxCalls -> Nat]
      BY DEF IInv, TypeOK
    <3>2. \/ UNCHANGED executed
          \/ pc # "idle" /\ executed' = [executed EXCEPT ![calls] = @ + 1]
      BY <2>1, ArriveEffect DEF IInv
    <3>3. pc # "idle" => n # calls
      BY DEF IInv, TypeOK
    <3> QED
      BY <3>1, <3>2, <3>3
  <2>2. CASE (\E r \in Asked : Ask(r)) \/ Request \/ Fail \/ Retry \/ Answered
             \/ Tick
    BY <2>2 DEF Ask, Request, Transfer, Fail, Retry, Again, Answered, Tick,
                network_vars
  <2> QED
    BY <2>1, <2>2 DEF Next
<1> QED
  BY <1>1, Invariance, PTL DEF Spec, AnswerIsFinal

----------------------------------------------------------------------------
(* Refinement of OrderChannel, step by step.                               *)

LEMMA ChannelInit == Init => Channel!Init
BY DEF Init, Channel!Init

LEMMA ChannelAsk ==
  ASSUME IInv, NEW r \in Asked, Ask(r)
  PROVE  Channel!Begin
<1>1. r \in Requests /\ r # NoRequest
  BY AskedAssumption, OperationsAre DEF Requests, NoRequest
<1>2. /\ pc = "idle" /\ calls' = calls + 1 /\ asked' = r
      /\ UNCHANGED <<recv_data_, executed>>
      /\ \/ pc' = pc /\ outcome' = "threw"
         \/ pc' = "request" /\ outcome' = "none"
  BY DEF Ask, network_vars
<1>3. (asked' # NoRequest /\ IsSigned(asked')) \in BOOLEAN
  BY <1>1, <1>2, RequestFacts
<1> QED
  BY <1>2, <1>3 DEF Channel!Begin

LEMMA ChannelArrive ==
  ASSUME IInv, NEW m \in net, Arrive(m)
  PROVE  Channel!CarryOut \/ UNCHANGED Channel!channelVars
<1>1. /\ calls \in Nat /\ attempt \in Nat /\ net \in SUBSET Copies
      /\ executed \in [1..MaxCalls -> Nat]
  BY DEF IInv, TypeOK
<1>2. UNCHANGED <<calls, asked, pc, outcome, recv_data_>>
  BY DEF Arrive, caller_vars
<1>3. CASE UNCHANGED executed
  BY <1>2, <1>3 DEF Channel!channelVars
<1>4. ASSUME NEW s \in Services, Serves(m.wire, s), s.signed,
             executed' = [executed EXCEPT ![m.call] = @ + 1]
      PROVE  Channel!CarryOut
  <2>1. m.call = calls /\ m.attempt = 1 /\ pc # "idle" /\ calls \in 1..MaxCalls
    BY <1>1, <1>4, CarriedOutIsFirst DEF IInv
  <2>2. asked \in Requests /\ asked # NoRequest
    BY <2>1, OperationsAre DEF IInv, LoopInv, Requests, NoRequest
  <2>3. IsSigned(asked)
    <3>1. m.wire = Wanted(asked, calls, stamp)
      BY <2>1 DEF IInv, NetInv
    <3>2. m.wire.key
      BY <1>4 DEF Serves
    <3> QED
      BY <3>1, <3>2 DEF Wanted
  <2>4. executed[calls] = 0
    BY <1>1, <2>1 DEF IInv, OnceInv
  <2>5. executed' = [executed EXCEPT ![calls] = 1]
    BY <1>1, <1>4, <2>1, <2>4
  <2> QED
    BY <1>2, <2>1, <2>2, <2>3, <2>4, <2>5 DEF Channel!CarryOut
<1> QED
  BY <1>3, <1>4 DEF Arrive

LEMMA ChannelAnswered ==
  ASSUME IInv, Answered
  PROVE  Channel!Return
<1>1. /\ pc = "perform" /\ reply # NoReply /\ recv_data_ = << >>
      /\ recv_data_' = Append(recv_data_, Chunk(reply, TRUE))
      /\ pc' = "idle" /\ outcome' = "returned"
      /\ UNCHANGED <<calls, asked, executed>>
  BY DEF Answered, caller_vars, IInv, LoopInv
<1>2. Head(recv_data_').verdict = reply
  <2>1. Head(Append(<< >>, Chunk(reply, TRUE))) = Chunk(reply, TRUE)
    OBVIOUS
  <2> QED
    BY <1>1, <2>1 DEF Chunk
<1>3. reply \in {"accepted", "rejected"}
  BY <1>1 DEF IInv, TypeOK, Verdicts
<1>4. reply = "accepted" /\ IsSigned(asked) => executed[calls] = 1
  BY DEF IInv, AnswerInv
<1> QED
  BY <1>1, <1>2, <1>3, <1>4 DEF Channel!Return

LEMMA ChannelStep ==
  ASSUME IInv, [Next]_vars
  PROVE  [Channel!Next]_(Channel!channelVars)
<1>1. ASSUME NEW r \in Asked, Ask(r) PROVE Channel!Next
  BY <1>1, ChannelAsk DEF Channel!Next
<1>2. CASE Request \/ Fail \/ Retry \/ Tick \/ UNCHANGED vars
  <2>1. (pc # "idle" /\ pc' # "idle") \/ UNCHANGED <<pc, recv_data_>>
    BY <1>2 DEF Request, Transfer, Fail, Retry, Again, Tick, vars
  <2>2. UNCHANGED <<calls, asked, executed, outcome>>
    BY <1>2 DEF Request, Transfer, Fail, Retry, Again, Tick, vars, caller_vars,
                network_vars
  <2>3. pc # "idle" => outcome = "none"
    BY DEF IInv, LoopInv
  <2> QED
    BY <2>1, <2>2, <2>3 DEF Channel!channelVars
<1>3. CASE Answered
  BY <1>3, ChannelAnswered DEF Channel!Next
<1>4. ASSUME NEW m \in net, Arrive(m)
      PROVE  [Channel!Next]_(Channel!channelVars)
  BY <1>4, ChannelArrive DEF Channel!Next
<1> QED
  BY <1>1, <1>2, <1>3, <1>4 DEF Next

(* Every behaviour of binance_api is one of the order channel.             *)
THEOREM ChannelRefinement == Spec => ImplementsOrderChannel
BY ChannelInit, ChannelStep, Invariance, PTL
   DEF Spec, Channel!Spec, ImplementsOrderChannel

=============================================================================
