----------------------------- MODULE GodBotProofs -----------------------------
(***************************************************************************)
(* Safety of the two threads of GodBot.  The argument: the lines of the    *)
(* try block assign in order, so that the members that are assigned tell   *)
(* how far the block came; the strategy's loop is entered through the last *)
(* of them, and left through a flag that only Stop can have set.           *)
(***************************************************************************)
EXTENDS MCGodBot, WellFoundedInduction, TLAPS

LEMMA LineFacts ==
  /\ Len(ConfigLines) = 13
  /\ \A i \in 1..13 :
       /\ ConfigLines[i].sets \subseteq Members
       /\ ConfigLines[i].fails = "silently" => ConfigLines[i].sets = {"url_"}
       /\ "is_finished_" \in ConfigLines[i].sets <=> i = 13
       /\ "api_" \in ConfigLines[i].sets <=> i = 7
  /\ "keys" \in ConfigLines[4].sets
<1>1. /\ ConfigLines[1] = Line({"api_config_file"}, {}, "never")
      /\ ConfigLines[2] = Line({"public_key"}, {}, "never")
      /\ ConfigLines[3] = Line({"secret_key"}, {}, "never")
      /\ ConfigLines[4] = Line({}, {"keys"}, "never")
      /\ ConfigLines[5] = Line({}, {"url_"}, "silently")
      /\ ConfigLines[6] = Line({}, {}, "throws")
      /\ ConfigLines[7] = Line({}, {"api_", "logger_"}, "never")
      /\ ConfigLines[8] = Line({"timeframe"}, {"timerframe_"}, "never")
      /\ ConfigLines[9] = Line({"symbol"}, {"symbol_"}, "never")
      /\ ConfigLines[10] = Line({"take_profit_percentage"}, {"take_profit_"}, "never")
      /\ ConfigLines[11] = Line({"stop_loss_percentage"}, {"stop_loss_"}, "never")
      /\ ConfigLines[12] = Line({"log_time"}, {"log_time_"}, "never")
      /\ ConfigLines[13] = Line({}, {"is_finished_"}, "never")
      /\ Len(ConfigLines) = 13
  BY DEF ConfigLines
<1>2. \A i \in 1..13 : i = 1 \/ i = 2 \/ i = 3 \/ i = 4 \/ i = 5 \/ i = 6 \/ i = 7
        \/ i = 8 \/ i = 9 \/ i = 10 \/ i = 11 \/ i = 12 \/ i = 13
  OBVIOUS
<1> HIDE DEF ConfigLines
<1> QED
  BY <1>1, <1>2 DEF Line, Members, StrategyMembers, ApiMembers

(* Every member is assigned by some line.                                  *)
LEMMA EveryMemberHasALine ==
  \A m \in Members : \E i \in 1..13 : m \in ConfigLines[i].sets
<1>1. /\ ConfigLines[4].sets = {"keys"}
      /\ ConfigLines[5].sets = {"url_"}
      /\ ConfigLines[7].sets = {"api_", "logger_"}
      /\ ConfigLines[8].sets = {"timerframe_"}
      /\ ConfigLines[9].sets = {"symbol_"}
      /\ ConfigLines[10].sets = {"take_profit_"}
      /\ ConfigLines[11].sets = {"stop_loss_"}
      /\ ConfigLines[12].sets = {"log_time_"}
      /\ ConfigLines[13].sets = {"is_finished_"}
  BY DEF ConfigLines, Line
<1> QED
  BY <1>1 DEF Members, StrategyMembers, ApiMembers

----------------------------------------------------------------------------
(* The inductive invariant.                                                *)

(* What the lines before the next one set.                                 *)
SetBefore(k) == {m \in Members : \E i \in 1..k-1 : m \in ConfigLines[i].sets}

(* All of it is assigned, but for the url, which set_cfg may fail to set.  *)
AssignedInv == assigned \ {"url_"} = SetBefore(step) \ {"url_"}

(* Where the two threads may be at the same time.                          *)
ThreadsInv ==
  /\ main \in {"options", "upload", "spawn"} <=>
       bot = "unborn" /\ main # "returned"
  /\ main = "returned" => bot \in {"unborn", "finished"}
  /\ bot \in {"unborn", "configure"} => step <= 13
  /\ bot \in {"loop", "trade"} => "url_" \in assigned
  /\ bot \in {"trade", "finished"} => "is_finished_" \in assigned

(* The strategy's flag was copied from the bot's, which is never reset.    *)
FlagInv ==
  /\ is_finished => is_finish
  /\ bot = "finished" => is_finished

IInv == TypeOK /\ AssignedInv /\ ThreadsInv /\ FlagInv

----------------------------------------------------------------------------
LEMMA IInvInit == Init => IInv
<1> SUFFICES ASSUME Init PROVE IInv
  OBVIOUS
<1>1. TypeOK
  <2>1. /\ is_finish \in BOOLEAN /\ is_finished \in BOOLEAN
        /\ is_stdlog \in BOOLEAN /\ stdin_failed \in BOOLEAN
    BY DEF Init
  <2>2. /\ process \in {"running", "exited", "crashed"}
        /\ main \in MainPCs /\ bot \in BotPCs
    BY DEF Init, MainPCs, BotPCs
  <2>3. /\ config \subseteq FileKeys \cup SecretKeys
        /\ step \in 1 .. Len(ConfigLines) + 1
        /\ assigned \subseteq Members
    BY LineFacts DEF Init
  <2> QED
    BY <2>1, <2>2, <2>3 DEF TypeOK
<1>2. AssignedInv
  BY DEF Init, AssignedInv, SetBefore
<1> QED
  BY <1>1, <1>2 DEF Init, IInv, ThreadsInv, FlagInv

LEMMA CommandFlags ==
  ASSUME NEW cmd, Command(cmd), is_finish \in BOOLEAN, is_finished \in BOOLEAN,
         is_stdlog \in BOOLEAN
  PROVE  /\ is_finish' \in BOOLEAN /\ is_finished' \in BOOLEAN
         /\ is_stdlog' \in BOOLEAN /\ stdin_failed' \in BOOLEAN
         /\ is_finished' = is_finished /\ (is_finish => is_finish')
<1>1. /\ is_finish' = (is_finish \/ cmd = "exit")
      /\ is_finished' = is_finished
  BY Zenon DEF Command
<1>2. is_stdlog' = is_stdlog \/ is_stdlog' = ~is_stdlog
  BY Zenon DEF Command
<1>3. stdin_failed' = (cmd \in {"too_long", "eof"})
  BY Zenon DEF Command
<1>4. is_finish' \in BOOLEAN
  BY <1>1
<1>5. is_stdlog' \in BOOLEAN
  BY <1>2
<1>6. stdin_failed' \in BOOLEAN
  BY <1>3
<1>7. is_finish => is_finish'
  BY <1>1, Zenon
<1> QED
  BY <1>1, <1>4, <1>5, <1>6, <1>7, Zenon

LEMMA MainStep ==
  ASSUME IInv, MainThread
  PROVE  IInv'
<1> USE DEF IInv, TypeOK, AssignedInv, ThreadsInv, FlagInv, MainPCs, BotPCs,
            config_vars, console_vars
<1>1. CASE ParseOptions
  BY <1>1 DEF ParseOptions
<1>2. CASE UploadConfig
  <2>1. config' \subseteq FileKeys \cup SecretKeys
    BY <1>2 DEF UploadConfig
  <2> QED
    BY <1>2, <2>1 DEF UploadConfig
<1>3. CASE SpawnBot
  BY <1>3 DEF SpawnBot
<1>4. ASSUME NEW cmd \in Commands, Command(cmd) PROVE IInv'
  <2>1. /\ is_finish \in BOOLEAN /\ is_finished \in BOOLEAN
        /\ is_stdlog \in BOOLEAN /\ stdin_failed \in BOOLEAN
    OBVIOUS
  <2>2. /\ is_finish' \in BOOLEAN /\ is_finished' \in BOOLEAN
        /\ is_stdlog' \in BOOLEAN /\ stdin_failed' \in BOOLEAN
        /\ is_finished' = is_finished /\ (is_finish => is_finish')
    BY <1>4, <2>1, CommandFlags
  <2>3. /\ main = "prompt" /\ main' \in {"prompt", "join"}
        /\ UNCHANGED <<process, bot, config, step, assigned>>
    BY <1>4 DEF Command
  <2> QED
    BY <2>2, <2>3
<1>5. CASE EmptyCommand
  BY <1>5 DEF EmptyCommand, vars
<1>6. CASE Join
  BY <1>6 DEF Join
<1> QED
  BY <1>1, <1>2, <1>3, <1>4, <1>5, <1>6 DEF MainThread

(* One more line of the try block.                                         *)
LEMMA ConfigureKeepsInv ==
  ASSUME IInv, ConfigureLine
  PROVE  IInv'
<1> DEFINE line == ConfigLines[step]
<1>1. /\ bot = "configure" /\ step \in 1..13 /\ step' = step + 1
      /\ bot' = IF step = 13 THEN "startup" ELSE "configure"
      /\ UNCHANGED <<process, main, config, is_finish, is_stdlog, stdin_failed>>
  BY LineFacts DEF ConfigureLine, IInv, TypeOK, ThreadsInv, console_vars
<1>2. /\ line.sets \subseteq Members
      /\ line.fails = "silently" => line.sets = {"url_"}
  BY <1>1, LineFacts
<1>3. \/ assigned' = assigned \cup line.sets
      \/ line.fails = "silently" /\ assigned' = assigned
  BY DEF ConfigureLine
<1>4. is_finished' = is_finish \/ is_finished' = is_finished
  BY DEF ConfigureLine, CopyOfFlag
<1>5. TypeOK'
  BY <1>1, <1>2, <1>3, <1>4, LineFacts DEF IInv, TypeOK, BotPCs
<1>6. SetBefore(step') = SetBefore(step) \cup line.sets
  BY <1>1, <1>2 DEF SetBefore
<1>7. AssignedInv'
  BY <1>2, <1>3, <1>6 DEF IInv, AssignedInv, SetBefore
<1>8. ThreadsInv' /\ FlagInv'
  BY <1>1, <1>4 DEF IInv, ThreadsInv, FlagInv, TypeOK
<1> QED
  BY <1>5, <1>7, <1>8 DEF IInv

LEMMA BotStep ==
  ASSUME IInv, BotThread
  PROVE  IInv'
<1>1. CASE ConfigureThrows
  BY <1>1 DEF ConfigureThrows, IInv, TypeOK, AssignedInv, ThreadsInv, FlagInv,
              BotPCs, config_vars, console_vars
<1>2. CASE StrategyStartup \/ LoopTest \/ Iterate
  BY <1>2 DEF StrategyStartup, LoopTest, Iterate, IInv, TypeOK, AssignedInv,
              ThreadsInv, FlagInv, BotPCs, config_vars, console_vars
<1>3. CASE StartupCrash \/ NullFlag \/ IterationCrash
  BY <1>3 DEF StartupCrash, NullFlag, IterationCrash, IInv, TypeOK, AssignedInv, ThreadsInv,
              FlagInv, config_vars, console_vars
<1>4. CASE RetryForever
  BY <1>4 DEF RetryForever, vars, IInv, TypeOK, AssignedInv, ThreadsInv,
              FlagInv, config_vars, console_vars
<1> QED
  BY ConfigureKeepsInv, <1>1, <1>2, <1>3, <1>4 DEF BotThread

LEMMA IInvStep == IInv /\ [Next]_vars => IInv'
<1> SUFFICES ASSUME IInv, [Next]_vars PROVE IInv'
  OBVIOUS
<1>1. CASE Gone \/ UNCHANGED vars
  BY <1>1 DEF Gone, vars, IInv, TypeOK, AssignedInv, ThreadsInv, FlagInv,
              config_vars, console_vars
<1> QED
  BY <1>1, MainStep, BotStep DEF Next, Running

LEMMA Invariance == Spec => []IInv
BY IInvInit, IInvStep, PTL DEF Spec

----------------------------------------------------------------------------
(* The variables keep their types.                                         *)
THEOREM GodBotTypeCorrect == Spec => []TypeOK
BY Invariance, PTL DEF IInv

(* How far the try block came, from what it assigned.                      *)
LEMMA LastLine == IInv /\ "is_finished_" \in assigned => step = 14
<1> SUFFICES ASSUME IInv, "is_finished_" \in assigned PROVE step = 14
  OBVIOUS
<1>1. "is_finished_" \in SetBefore(step) /\ step \in 1..14
  BY LineFacts DEF IInv, AssignedInv, TypeOK
<1>2. PICK i \in 1..step-1 : "is_finished_" \in ConfigLines[i].sets
  BY <1>1 DEF SetBefore
<1> QED
  BY <1>1, <1>2, LineFacts

(* No iteration of the strategy on a partial configuration, whichever      *)
(* entry is missing and whichever line throws (GodBot.cpp:48-79).          *)
THEOREM NoTradeUnconfigured == Spec => []TradesOnlyConfigured
<1>1. IInv => TradesOnlyConfigured
  <2> SUFFICES ASSUME IInv, bot = "trade" PROVE assigned = Members
    BY DEF TradesOnlyConfigured
  <2>1. "url_" \in assigned /\ step = 14 /\ assigned \subseteq Members
    BY LastLine DEF IInv, ThreadsInv, TypeOK
  <2>2. SetBefore(14) = Members
    BY EveryMemberHasALine DEF SetBefore
  <2> QED
    BY <2>1, <2>2 DEF IInv, AssignedInv
<1> QED
  BY <1>1, Invariance, PTL

(* The strategy has no API before the API has its keys (GodBot.cpp:56-63). *)
THEOREM KeysBeforeCalls == Spec => []CallsCarryKeys
<1>1. IInv => CallsCarryKeys
  <2> SUFFICES ASSUME IInv, "api_" \in assigned PROVE "keys" \in assigned
    BY DEF CallsCarryKeys
  <2>1. "api_" \in SetBefore(step) /\ step \in 1..14
    BY LineFacts DEF IInv, AssignedInv, TypeOK
  <2>2. PICK i \in 1..step-1 : "api_" \in ConfigLines[i].sets
    BY <2>1 DEF SetBefore
  <2>3. i = 7
    BY <2>1, <2>2, LineFacts
  <2>4. "keys" \in SetBefore(step)
    BY <2>1, <2>3, LineFacts DEF SetBefore, Members, ApiMembers
  <2> QED
    BY <2>4 DEF IInv, AssignedInv
<1> QED
  BY <1>1, Invariance, PTL

(* main never destroys a bot whose thread is running (main.cpp:92-125).    *)
THEOREM ThreadNeverDangles == Spec => []BotOutlivesThread
BY Invariance, PTL DEF IInv, ThreadsInv, BotOutlivesThread

(* The strategy's loop ends on Stop only (GB_RSIStrategy.cpp:61).          *)
THEOREM OnlyStopFinishes == Spec => []FinishesOnlyIfStopped
<1>1. IInv => FinishesOnlyIfStopped
  BY DEF IInv, FlagInv, FinishesOnlyIfStopped
<1> QED
  BY <1>1, Invariance, PTL

----------------------------------------------------------------------------
(* The configuration that the main thread uploads: entries are found in    *)
(* the order in which they were appended, whatever the files hold.         *)

(* Every set of numbers has a smallest: what induction stands on here.     *)
LEMMA SmallestOf ==
  ASSUME NEW T, T \subseteq Nat, T # {}
  PROVE  \E m \in T : \A k \in T : m <= k
<1>1. PICK m \in T : \A y \in T : <<y, m>> \notin OpToRel(<, Nat)
  BY WFMin, NatLessThanWellFounded, Zenon
<1>2. \A y \in T : ~(y < m)
  BY <1>1, Zenon DEF OpToRel
<1> QED
  BY <1>2

(* get yields the value of the first entry with the key.                   *)
LEMMA GetFirst ==
  ASSUME NEW S, NEW tree \in Seq(S), NEW key, NEW i \in 1 .. Len(tree),
         tree[i].key = key, \A j \in 1 .. i - 1 : tree[j].key # key
  PROVE  Get(tree, key) = tree[i].value
<1> DEFINE I == {j \in 1 .. Len(tree) : tree[j].key = key}
<1>1. i \in I /\ \A j \in I : i <= j
  OBVIOUS
<1>2. Min(I) = i
  <2> HIDE DEF I
  <2>1. I \subseteq Nat
    BY DEF I
  <2>2. Min(I) \in I /\ \A j \in I : Min(I) <= j
    BY <1>1 DEF Min
  <2>3. \A m \in I : (\A j \in I : m <= j) => m = i
    BY <1>1, <2>1
  <2> QED
    BY <2>2, <2>3
<1>3. SelectInSeq(tree, LAMBDA e : e.key = key) = i
  BY <1>1, <1>2 DEF SelectInSeq
<1> QED
  BY <1>3 DEF Get

(* An entry that is there has a first one with its key.                    *)
LEMMA HasFirst ==
  ASSUME NEW S, NEW tree \in Seq(S), NEW key, Has(tree, key)
  PROVE  \E i \in 1 .. Len(tree) :
           /\ tree[i].key = key
           /\ \A j \in 1 .. i - 1 : tree[j].key # key
<1> DEFINE I == {j \in 1 .. Len(tree) : tree[j].key = key}
<1>1. I # {} /\ I \subseteq Nat
  BY DEF Has
<1>2. PICK i \in I : \A j \in I : i <= j
  <2> HIDE DEF I
  <2> QED
    BY <1>1, SmallestOf
<1>3. \A j \in 1 .. i - 1 : tree[j].key # key
  BY <1>2
<1> QED
  BY <1>2, <1>3

(* Entries that are appended are found only after those that were there.   *)
LEMMA AppendedEntries ==
  ASSUME NEW S, NEW s \in Seq(S), NEW t \in Seq(S), NEW key
  PROVE  /\ Has(s \o t, key) <=> Has(s, key) \/ Has(t, key)
         /\ Has(s, key) => Get(s \o t, key) = Get(s, key)
         /\ ~Has(s, key) /\ Has(t, key) => Get(s \o t, key) = Get(t, key)
<1> DEFINE u == s \o t
<1>1. /\ u \in Seq(S) /\ Len(u) = Len(s) + Len(t)
      /\ \A i \in 1 .. Len(s) : u[i] = s[i]
      /\ \A i \in 1 .. Len(t) : u[Len(s) + i] = t[i]
      /\ \A i \in Len(s) + 1 .. Len(u) : i - Len(s) \in 1 .. Len(t)
                                          /\ u[i] = t[i - Len(s)]
      /\ Len(s) \in Nat /\ Len(t) \in Nat
      /\ DOMAIN u = 1 .. Len(u) /\ DOMAIN s = 1 .. Len(s) /\ DOMAIN t = 1 .. Len(t)
  OBVIOUS
<1> HIDE DEF u
<1>2. Has(u, key) <=> Has(s, key) \/ Has(t, key)
  <2>1. ASSUME Has(u, key) PROVE Has(s, key) \/ Has(t, key)
    <3>1. PICK i \in 1 .. Len(u) : u[i].key = key
      BY <1>1, <2>1 DEF Has
    <3>2. CASE i \in 1 .. Len(s)
      BY <1>1, <3>1, <3>2 DEF Has
    <3>3. CASE i \in Len(s) + 1 .. Len(u)
      BY <1>1, <3>1, <3>3 DEF Has
    <3> QED
      BY <1>1, <3>2, <3>3
  <2>2. Has(s, key) => Has(u, key)
    BY <1>1 DEF Has
  <2>3. ASSUME Has(t, key) PROVE Has(u, key)
    <3>1. PICK i \in 1 .. Len(t) : t[i].key = key
      BY <1>1, <2>3 DEF Has
    <3>2. Len(s) + i \in 1 .. Len(u) /\ u[Len(s) + i].key = key
      BY <1>1, <3>1
    <3> QED
      BY <1>1, <3>2 DEF Has
  <2> QED
    BY <2>1, <2>2, <2>3
<1>3. ASSUME Has(s, key) PROVE Get(u, key) = Get(s, key)
  <2>1. PICK i \in 1 .. Len(s) : /\ s[i].key = key
                                  /\ \A j \in 1 .. i - 1 : s[j].key # key
    BY <1>3, HasFirst
  <2>2. Get(s, key) = s[i].value
    BY <2>1, GetFirst
  <2>3. /\ i \in 1 .. Len(u) /\ u[i].key = key /\ u[i] = s[i]
        /\ \A j \in 1 .. i - 1 : u[j].key # key
    BY <1>1, <2>1
  <2>4. Get(u, key) = u[i].value
    BY <1>1, <2>3, GetFirst
  <2> QED
    BY <2>2, <2>3, <2>4
<1>4. ASSUME ~Has(s, key), Has(t, key) PROVE Get(u, key) = Get(t, key)
  <2>1. PICK i \in 1 .. Len(t) : /\ t[i].key = key
                                  /\ \A j \in 1 .. i - 1 : t[j].key # key
    BY <1>4, HasFirst
  <2>2. Get(t, key) = t[i].value
    BY <2>1, GetFirst
  <2> DEFINE k == Len(s) + i
  <2>3. k \in 1 .. Len(u) /\ u[k].key = key /\ u[k] = t[i]
    BY <1>1, <2>1
  <2>4. \A j \in 1 .. k - 1 : u[j].key # key
    <3> TAKE j \in 1 .. k - 1
    <3>1. CASE j \in 1 .. Len(s)
      BY <1>1, <1>4, <3>1 DEF Has
    <3>2. CASE j - Len(s) \in 1 .. i - 1
      <4>1. u[j] = t[j - Len(s)]
        BY <1>1, <2>1, <3>2
      <4> QED
        BY <2>1, <3>2, <4>1
    <3>3. j \in 1 .. Len(s) \/ j - Len(s) \in 1 .. i - 1
      BY <1>1, <2>1
    <3> QED
      BY <3>1, <3>2, <3>3
  <2> HIDE DEF k
  <2>5. Get(u, key) = u[k].value
    BY <1>1, <2>3, <2>4, GetFirst
  <2> QED
    BY <2>2, <2>3, <2>5
<1> QED
  BY <1>2, <1>3, <1>4 DEF u

----------------------------------------------------------------------------
(* The configuration that is uploaded.                                     *)

(* A technicality: what push_back makes of one element.                    *)
LEMMA AppendPair ==
  ASSUME NEW x, NEW y
  PROVE  Append(<<x>>, y) = <<x, y>>
<1> DEFINE s == Append(<<x>>, y)
<1>1. <<x>> \in Seq({x, y}) /\ Len(<<x>>) = 1 /\ <<x>>[1] = x
  OBVIOUS
<1>2. s \in Seq({x, y}) /\ Len(s) = 2 /\ s[1] = x /\ s[2] = y
  BY <1>1
<1> HIDE DEF s
<1>3. s = <<x, y>>
  BY <1>2
<1> QED
  BY <1>3 DEF s

Values == Paths \cup {Interval[p] : p \in Paths}
Entries == [key : Keys, value : Values]

(* The tree that an entry which may be missing contributes.                *)
LEMMA OneEntry ==
  ASSUME NEW k \in Keys, NEW v \in Values, NEW given \in BOOLEAN
  PROVE  LET t == IF given THEN <<Entry(k, v)>> ELSE << >>
         IN /\ t \in Seq(Entries)
            /\ \A key : Has(t, key) <=> given /\ key = k
            /\ given => Get(t, k) = v
<1> DEFINE e == Entry(k, v)
           one == <<e>>
<1>1. e \in Entries /\ e.key = k /\ e.value = v
  BY DEF Entry, Entries
<1> HIDE DEF e
<1>2. one \in Seq(Entries) /\ Len(one) = 1 /\ one[1] = e /\ DOMAIN one = {1}
  BY <1>1
<1> HIDE DEF one
<1>3. \A key : Has(one, key) <=> key = k
  BY <1>1, <1>2 DEF Has
<1>4. Get(one, k) = v
  <2>1. 1 \in 1 .. Len(one) /\ one[1].key = k /\ \A j \in 1 .. 1 - 1 : one[j].key # k
    BY <1>1, <1>2
  <2> QED
    BY <1>1, <1>2, <2>1, GetFirst
<1>5. CASE given
  BY <1>2, <1>3, <1>4, <1>5 DEF one, e
<1>6. CASE ~given
  <2>1. << >> \in Seq(Entries) /\ \A key : ~Has(<< >>, key)
    BY DEF Has
  <2> QED
    BY <1>6, <2>1
<1> QED
  BY <1>5, <1>6

(* The file at p contributes the entries it has, each with its value.      *)
LEMMA FileEntries ==
  ASSUME NEW p \in Paths, NEW disk, disk[p] \in SUBSET Keys
  PROVE  LET t == EntriesOf(p, disk)
         IN /\ t \in Seq(Entries)
            /\ Has(t, "timeframe") <=> "timeframe" \in disk[p]
            /\ "timeframe" \in disk[p] => Get(t, "timeframe") = Interval[p]
<1> DEFINE One(k, v) == IF k \in disk[p] THEN <<Entry(k, v)>> ELSE << >>
           a == One("config_file", p)
           b == One("secrets_file", p)
           c == One("timeframe", Interval[p])
<1>1. /\ p \in Values /\ Interval[p] \in Values
      /\ {"config_file", "secrets_file", "timeframe"} \subseteq Keys
  BY DEF Values, Keys, Options
<1>2. ASSUME NEW k \in Keys, NEW v \in Values
      PROVE  /\ One(k, v) \in Seq(Entries)
             /\ \A key : Has(One(k, v), key) <=> k \in disk[p] /\ key = k
             /\ k \in disk[p] => Get(One(k, v), k) = v
  <2>1. (k \in disk[p]) \in BOOLEAN
    OBVIOUS
  <2> QED
    BY <2>1, OneEntry
<1>3. /\ a \in Seq(Entries) /\ ~Has(a, "timeframe")
      /\ b \in Seq(Entries) /\ ~Has(b, "timeframe")
      /\ c \in Seq(Entries) /\ (Has(c, "timeframe") <=> "timeframe" \in disk[p])
      /\ "timeframe" \in disk[p] => Get(c, "timeframe") = Interval[p]
  BY <1>1, <1>2
<1>4. EntriesOf(p, disk) = (a \o b) \o c
  BY DEF EntriesOf
<1> DEFINE ab == a \o b
<1> HIDE DEF a, b, c, One
<1>5. ab \in Seq(Entries) /\ ~Has(ab, "timeframe")
  BY <1>3, AppendedEntries
<1> HIDE DEF ab
<1>6. ab \o c \in Seq(Entries)
  BY <1>3, <1>5
<1>7. /\ Has(ab \o c, "timeframe") <=> Has(c, "timeframe")
      /\ Has(c, "timeframe") =>
           Get(ab \o c, "timeframe") = Get(c, "timeframe")
  BY <1>3, <1>5, AppendedEntries
<1> QED
  BY <1>3, <1>4, <1>6, <1>7 DEF ab

(* The variables map holds what the options ask for.                       *)
LEMMA OptionsChosen ==
  ASSUME NEW input \in Inputs, NEW o \in Options
  PROVE  /\ ParsedOptions(input)[o].value = Chosen(input, o)
         /\ Chosen(input, o) \in Paths
<1>1. /\ input.command_line[o] \in Paths \cup {NotGiven}
      /\ input.environment[o] \in Paths \cup {NotGiven}
      /\ DefaultFile[o] \in Paths
  BY ConfigAssumption DEF Inputs, ConfigAssumption
<1> QED
  BY <1>1 DEF ParsedOptions, Stored, Fresh, Chosen

(* The files that are read are those the options name, the command line    *)
(* before the environment before the defaults, and their entries are found *)
(* in this order: for all paths, defaults, options and contents.           *)
THEOREM FilesComeByPrecedence == Spec => []FilesByPrecedence
<1>1. ASSUME NEW input \in Inputs
      PROVE  LET uploaded == Uploaded(input)
                 first == Chosen(input, "config_file")
                 second == Chosen(input, "secrets_file")
             IN /\ uploaded.opened = IF input.disk[first] = Unreadable
                                     THEN <<first>> ELSE <<first, second>>
                /\ Has(uploaded.tree, "timeframe") =>
                     Get(uploaded.tree, "timeframe") =
                       Interval[IF "timeframe" \in input.disk[first] THEN first
                                ELSE second]
  <2> DEFINE first == Chosen(input, "config_file")
             second == Chosen(input, "secrets_file")
             disk == input.disk
             start == [tree |-> OptionsHandler(ParsedOptions(input)),
                       opened |-> << >>, thrown |-> FALSE]
             one == Upload(start, "config_file", disk)
             two == Upload(one, "secrets_file", disk)
             s == start.tree
             t1 == EntriesOf(first, disk)
             t2 == EntriesOf(second, disk)
  <2>1. /\ first \in Paths /\ second \in Paths
        /\ {"config_file", "secrets_file", "timeframe"} \subseteq Keys
        /\ \A p \in Paths : disk[p] \in SUBSET Keys \/ disk[p] = Unreadable
        /\ Uploaded(input) = two
    BY OptionsChosen DEF Options, Keys, Inputs, Uploaded
  <2>2. s = <<Entry("config_file", first), Entry("secrets_file", second)>>
    BY OptionsChosen DEF OptionsHandler, Options
  <2>3. /\ start.opened = << >> /\ start.thrown = FALSE
    OBVIOUS
  <2> HIDE DEF start
  <2> HIDE DEF first, second, disk
  <2>4. /\ s \in Seq(Entries) /\ Len(s) = 2 /\ DOMAIN s = 1 .. 2
        /\ s[1] = Entry("config_file", first)
        /\ s[2] = Entry("secrets_file", second)
    BY <2>1, <2>2 DEF Entry, Entries, Values
  <2>5. /\ Get(s, "config_file") = first
        /\ Get(s, "secrets_file") = second
        /\ Has(s, "secrets_file") /\ ~Has(s, "timeframe")
    <3>1. Get(s, "config_file") = first
      BY <2>4, GetFirst DEF Entry
    <3>2. Get(s, "secrets_file") = second
      <4>1. \A j \in 1 .. 2 - 1 : s[j].key # "secrets_file"
        BY <2>4 DEF Entry
      <4>2. 2 \in 1 .. Len(s) /\ s[2].key = "secrets_file" /\ s[2].value = second
        BY <2>4 DEF Entry
      <4> QED
        BY <2>4, <4>1, <4>2, GetFirst
    <3>3. Has(s, "secrets_file") /\ ~Has(s, "timeframe")
      BY <2>4 DEF Has, Entry
    <3> QED
      BY <3>1, <3>2, <3>3
  <2> HIDE DEF s
  <2>6. CASE disk[first] = Unreadable
    <3>1. one = [tree |-> s, opened |-> Append(<< >>, first), thrown |-> TRUE]
      BY <2>3, <2>5, <2>6 DEF Upload, s
    <3>2. two = one
      BY <3>1 DEF Upload
    <3> HIDE DEF one, two
    <3>3. two.tree = s /\ two.opened = <<first>>
      BY <3>1, <3>2
    <3> QED
      BY <2>1, <2>5, <2>6, <3>3 DEF first, second, disk
  <2>7. CASE disk[first] # Unreadable
    <3>1. one = [tree |-> s \o t1, opened |-> <<first>>, thrown |-> FALSE]
      <4>1. one = [tree |-> s \o t1, opened |-> Append(<< >>, first),
                   thrown |-> FALSE]
        BY <2>3, <2>5, <2>7 DEF Upload, s
      <4> QED
        BY <4>1
    <3>2. /\ t1 \in Seq(Entries)
          /\ Has(t1, "timeframe") <=> "timeframe" \in disk[first]
          /\ "timeframe" \in disk[first] => Get(t1, "timeframe") = Interval[first]
      BY <2>1, <2>7, FileEntries
    <3> HIDE DEF t1
    <3>3. /\ s \o t1 \in Seq(Entries)
          /\ Get(s \o t1, "secrets_file") = second
          /\ Has(s \o t1, "timeframe") <=> "timeframe" \in disk[first]
          /\ "timeframe" \in disk[first] =>
               Get(s \o t1, "timeframe") = Interval[first]
      BY <2>4, <2>5, <3>2, AppendedEntries
    <3> DEFINE st == s \o t1
    <3> HIDE DEF st
    <3>4. /\ two.opened = <<first, second>>
          /\ two.tree = IF disk[second] = Unreadable THEN st ELSE st \o t2
      <4>1. /\ one.tree = st /\ one.opened = <<first>> /\ one.thrown = FALSE
        BY <3>1 DEF st
      <4>2. Get(one.tree, "secrets_file") = second
        BY <3>3, <4>1 DEF st
      <4> HIDE DEF one
      <4>3. two = [tree |-> IF disk[second] = Unreadable THEN one.tree
                            ELSE one.tree \o t2,
                   opened |-> Append(one.opened, second),
                   thrown |-> disk[second] = Unreadable]
        BY <4>1, <4>2, Zenon DEF Upload
      <4> HIDE DEF two
      <4>4. Append(<<first>>, second) = <<first, second>>
        BY AppendPair
      <4> QED
        BY <4>1, <4>3, <4>4
    <3> HIDE DEF one, two
    <3>5. CASE disk[second] = Unreadable
      BY <2>1, <2>7, <3>3, <3>4, <3>5 DEF first, second, disk, st
    <3>6. CASE disk[second] # Unreadable
      <4>1. /\ t2 \in Seq(Entries)
            /\ Has(t2, "timeframe") <=> "timeframe" \in disk[second]
            /\ "timeframe" \in disk[second] => Get(t2, "timeframe") = Interval[second]
        BY <2>1, <3>6, FileEntries
      <4> HIDE DEF t2
      <4>2. /\ Has(st \o t2, "timeframe") <=>
                 Has(st, "timeframe") \/ Has(t2, "timeframe")
            /\ Has(st, "timeframe") => Get(st \o t2, "timeframe") = Get(st, "timeframe")
            /\ ~Has(st, "timeframe") /\ Has(t2, "timeframe") =>
                 Get(st \o t2, "timeframe") = Get(t2, "timeframe")
        BY <3>3, <4>1, AppendedEntries DEF st
      <4>3. Has(two.tree, "timeframe") =>
              Get(two.tree, "timeframe") =
                Interval[IF "timeframe" \in disk[first] THEN first ELSE second]
        BY <3>3, <3>4, <3>6, <4>1, <4>2 DEF st
      <4> QED
        BY <2>1, <2>7, <3>4, <4>3 DEF first, second, disk
    <3> QED
      BY <3>5, <3>6
  <2> QED
    BY <2>6, <2>7
<1>2. FilesByPrecedence
  BY <1>1 DEF FilesByPrecedence
<1> QED
  BY <1>2, PTL
==============================================================================
