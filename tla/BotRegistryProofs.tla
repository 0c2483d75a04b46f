--------------------------- MODULE BotRegistryProofs ---------------------------
(***************************************************************************)
(* The registry for any number of bots, tags and seconds.  What makes ids  *)
(* unique is a fact about positions: as long as the youngest bot goes      *)
(* first, the i-th bot has the id i - 1, which is below the count.         *)
(***************************************************************************)
EXTENDS BotRegistry, SequenceTheorems, TLAPS

(* The count is the number of bots, in whichever order they go.            *)
CountsTheLiving == count_ = Len(bots)

IdsArePositions == scoped => \A i \in DOMAIN bots : bots[i].id = i - 1

(* A generated tag is the one that the second of its naming gives.         *)
NamedBySecond(bot) == bot.named # Unseeded => bot.tag = TagOf[bot.named]

TagsAreOfSeconds == \A i \in DOMAIN bots : NamedBySecond(bots[i])

IInv == TypeOK /\ CountsTheLiving /\ IdsArePositions /\ TagsAreOfSeconds

----------------------------------------------------------------------------
LEMMA RecordUpdate ==
  ASSUME NEW N, NEW T, NEW T2, NEW M,
         NEW b \in [id : N, tag : T, named : M], NEW x \in T2, NEW y \in M
  PROVE  LET c == [b EXCEPT !.tag = x, !.named = y]
         IN  /\ c \in [id : N, tag : T2, named : M]
             /\ c.id = b.id /\ c.tag = x /\ c.named = y
OBVIOUS

(* A bot while it is constructed may have no tag yet.                      *)
BotTags == Tags \cup {TagOf[t] : t \in 0 .. MaxTime}
Namings == 0 .. MaxTime \cup {Unseeded}
UntaggedBots == [id : Int, tag : BotTags \cup {NoTag}, named : Namings]

LEMMA TaggedBot ==
  ASSUME now \in 0 .. MaxTime, NEW bot \in UntaggedBots,
         NEW tag \in Tags \cup {NoTag}
  PROVE  /\ Tagged(bot, tag) \in Bots /\ Tagged(bot, tag).id = bot.id
         /\ NamedBySecond(Tagged(bot, tag))
<1> DEFINE generated == [bot EXCEPT !.tag = TagOf[now], !.named = now]
           given == [bot EXCEPT !.tag = tag, !.named = Unseeded]
<1>1. CASE tag = NoTag
  <2>1. Tagged(bot, tag) = generated
    BY <1>1 DEF Tagged, GenerateTag
  <2>2. TagOf[now] \in BotTags /\ now \in Namings
    BY DEF BotTags, Namings
  <2>3. /\ generated \in Bots /\ generated.id = bot.id
        /\ generated.tag = TagOf[now] /\ generated.named = now
    BY <2>2, RecordUpdate DEF UntaggedBots, Bots, BotTags, Namings
  <2> HIDE DEF generated
  <2> QED
    BY <2>1, <2>3, Zenon DEF NamedBySecond
<1>2. CASE tag # NoTag
  <2>1. Tagged(bot, tag) = given
    BY <1>2 DEF Tagged
  <2>2. tag \in BotTags /\ Unseeded \in Namings
    BY <1>2 DEF BotTags, Namings
  <2>3. /\ given \in Bots /\ given.id = bot.id /\ given.named = Unseeded
    BY <2>2, RecordUpdate DEF UntaggedBots, Bots, BotTags, Namings
  <2> HIDE DEF given
  <2> QED
    BY <2>1, <2>3, Zenon DEF NamedBySecond
<1> QED
  BY <1>1, <1>2

LEMMA SeedType ==
  ASSUME TypeOK, NEW tag, Seeds(tag)
  PROVE  rand' \in 0 .. MaxTime \cup {Unseeded}
BY DEF TypeOK, Seeds, GenerateTag

LEMMA BotsMayBeTagged ==
  ASSUME NEW bot \in Bots
  PROVE  bot \in UntaggedBots
BY DEF Bots, UntaggedBots, BotTags, Namings

(* What is left when one bot is taken out.                                 *)
LEMMA RemoveOne ==
  ASSUME NEW S, NEW s \in Seq(S), NEW i \in 1 .. Len(s)
  PROVE  /\ RemoveAt(s, i) \in Seq(S) /\ Len(RemoveAt(s, i)) = Len(s) - 1
         /\ \A j \in 1 .. Len(s) - 1 :
              RemoveAt(s, i)[j] = IF j < i THEN s[j] ELSE s[j + 1]
<1>1. Len(s) \in Nat /\ \A j \in 1 .. Len(s) : s[j] \in S
  BY ElementOfSeq
<1> DEFINE older == SubSeq(s, 1, i - 1)
           newer == SubSeq(s, i + 1, Len(s))
<1>2. /\ older \in Seq(S) /\ Len(older) = i - 1
      /\ \A j \in 1 .. i - 1 : older[j] = s[j]
  <2>1. \A j \in 1 .. i - 1 : s[j] \in S
    BY <1>1
  <2>2. i - 1 \in Int /\ 1 \in Int
    BY <1>1
  <2>3. /\ older \in Seq(S) /\ Len(older) = IF 1 <= i - 1 THEN i - 1 - 1 + 1 ELSE 0
        /\ \A j \in 1 .. i - 1 - 1 + 1 : older[j] = s[1 + j - 1]
    BY <2>1, <2>2, SubSeqProperties
  <2> HIDE DEF older
  <2> QED
    BY <1>1, <2>3
<1>3. /\ newer \in Seq(S) /\ Len(newer) = Len(s) - i
      /\ \A j \in 1 .. Len(s) - i : newer[j] = s[i + j]
  <2>1. \A j \in i + 1 .. Len(s) : s[j] \in S
    BY <1>1
  <2>2. i + 1 \in Int /\ Len(s) \in Int
    BY <1>1
  <2>3. /\ newer \in Seq(S)
        /\ Len(newer) = IF i + 1 <= Len(s) THEN Len(s) - (i + 1) + 1 ELSE 0
        /\ \A j \in 1 .. Len(s) - (i + 1) + 1 : newer[j] = s[i + 1 + j - 1]
    BY <2>1, <2>2, SubSeqProperties
  <2> HIDE DEF newer
  <2> QED
    BY <1>1, <2>3
<1>4. RemoveAt(s, i) = older \o newer
  BY DEF RemoveAt
<1> HIDE DEF older, newer
<1>5. /\ RemoveAt(s, i) \in Seq(S)
      /\ Len(RemoveAt(s, i)) = Len(older) + Len(newer)
      /\ \A j \in 1 .. Len(older) + Len(newer) :
           RemoveAt(s, i)[j] = IF j <= Len(older) THEN older[j]
                               ELSE newer[j - Len(older)]
  <2>1. /\ older \o newer \in Seq(S)
        /\ Len(older \o newer) = Len(older) + Len(newer)
        /\ \A j \in 1 .. Len(older) + Len(newer) :
             (older \o newer)[j] = IF j <= Len(older) THEN older[j]
                                  ELSE newer[j - Len(older)]
    BY <1>2, <1>3, ConcatProperties, Zenon
  <2> QED
    BY <1>4, <2>1, Zenon
<1>6. ASSUME NEW j \in 1 .. Len(s) - 1
      PROVE  RemoveAt(s, i)[j] = IF j < i THEN s[j] ELSE s[j + 1]
  <2>1. CASE j < i
    <3>1. j \in 1 .. i - 1 /\ j <= Len(older) /\ j \in 1 .. Len(older) + Len(newer)
      BY <1>1, <1>2, <1>3, <2>1
    <3> QED
      BY <1>2, <1>5, <2>1, <3>1
  <2>2. CASE ~(j < i)
    <3>1. /\ ~(j <= Len(older)) /\ j \in 1 .. Len(older) + Len(newer)
          /\ j - (i - 1) \in 1 .. Len(s) - i /\ i + (j - (i - 1)) = j + 1
      BY <1>1, <1>2, <1>3, <2>2
    <3>2. RemoveAt(s, i)[j] = newer[j - (i - 1)]
      BY <1>2, <1>5, <3>1
    <3> QED
      BY <1>3, <2>2, <3>1, <3>2
  <2> QED
    BY <2>1, <2>2
<1>7. Len(older) + Len(newer) = Len(s) - 1
  BY <1>1, <1>2, <1>3
<1> QED
  BY <1>5, <1>6, <1>7

----------------------------------------------------------------------------
LEMMA IInvInit == Init => IInv
<1> SUFFICES ASSUME Init PROVE IInv
  OBVIOUS
<1>1. bots = << >> /\ bots \in Seq(Bots) /\ Len(bots) = 0 /\ DOMAIN bots = {}
  BY EmptySeq DEF Init
<1> QED
  BY <1>1, RegistryAssumption
  DEF Init, IInv, TypeOK, CountsTheLiving, IdsArePositions, TagsAreOfSeconds

LEMMA ConstructStep ==
  ASSUME IInv, NEW tag \in Tags \cup {NoTag}, Construct(tag)
  PROVE  IInv'
<1> DEFINE bot == NewBot(tag)
<1>1. /\ bots \in Seq(Bots) /\ Len(bots) \in Nat /\ Len(bots) < MaxBots
      /\ count_ = Len(bots) /\ count_' = count_ + 1 /\ bots' = Append(bots, bot)
      /\ UNCHANGED <<scoped, now>>
  BY DEF Construct, IInv, TypeOK, CountsTheLiving
<1>2. bot \in Bots /\ bot.id = Len(bots) /\ NamedBySecond(bot)
  <2>1. now \in 0 .. MaxTime /\ count_ \in Int
    BY <1>1 DEF IInv, TypeOK
  <2> DEFINE blank == [id |-> count_, tag |-> NoTag, named |-> Unseeded]
  <2>2. blank \in UntaggedBots /\ blank.id = count_
    BY <2>1 DEF UntaggedBots, Namings
  <2>3. bot = Tagged(blank, tag)
    BY DEF NewBot
  <2> HIDE DEF blank, bot
  <2> QED
    BY <1>1, <2>1, <2>2, <2>3, TaggedBot
<1> HIDE DEF bot
<1>3. /\ bots' \in Seq(Bots) /\ Len(bots') = Len(bots) + 1
      /\ bots'[Len(bots) + 1] = bot
      /\ \A i \in 1 .. Len(bots) : bots'[i] = bots[i]
  BY <1>1, <1>2
<1>4. TypeOK' /\ CountsTheLiving'
  <2>1. rand' \in 0 .. MaxTime \cup {Unseeded}
    BY SeedType DEF Construct, IInv
  <2>2. MaxBots \in Nat
    BY RegistryAssumption
  <2> QED
    BY <1>1, <1>3, <2>1, <2>2 DEF IInv, TypeOK, CountsTheLiving
<1>5. ASSUME NEW i \in DOMAIN bots'
      PROVE  (scoped => bots'[i].id = i - 1) /\ NamedBySecond(bots'[i])
  <2>1. i = Len(bots) + 1 \/ i \in 1 .. Len(bots)
    BY <1>1, <1>3
  <2>2. CASE i = Len(bots) + 1
    <3>1. bots'[i] = bot /\ i - 1 = Len(bots)
      BY <1>1, <1>3, <2>2
    <3> QED
      BY <1>2, <3>1, Zenon
  <2>3. CASE i \in 1 .. Len(bots)
    <3>1. bots'[i] = bots[i] /\ i \in DOMAIN bots
      BY <1>1, <1>3, <2>3
    <3> QED
      BY <3>1, Zenon DEF IInv, IdsArePositions, TagsAreOfSeconds
  <2> QED
    BY <2>1, <2>2, <2>3
<1>6. IdsArePositions' /\ TagsAreOfSeconds'
  BY <1>1, <1>5, Zenon DEF IdsArePositions, TagsAreOfSeconds, NamedBySecond
<1> QED
  BY <1>4, <1>6, Zenon DEF IInv

LEMMA SetTagStep ==
  ASSUME IInv, NEW tag \in Tags \cup {NoTag}, NEW n \in DOMAIN bots,
         SetTag(n, tag)
  PROVE  IInv'
<1> DEFINE bot == Tagged(bots[n], tag)
<1>1. bots \in Seq(Bots) /\ n \in 1 .. Len(bots) /\ bots[n] \in Bots
  BY ElementOfSeq DEF IInv, TypeOK
<1>2. bot \in Bots /\ bot.id = bots[n].id /\ NamedBySecond(bot)
  <2>1. now \in 0 .. MaxTime
    BY DEF IInv, TypeOK
  <2> QED
    BY <1>1, <2>1, BotsMayBeTagged, TaggedBot
<1>3. /\ bots' = [bots EXCEPT ![n] = bot]
      /\ UNCHANGED <<scoped, count_, now>>
  BY DEF SetTag
<1> HIDE DEF bot
<1>4. /\ bots' \in Seq(Bots) /\ Len(bots') = Len(bots)
      /\ DOMAIN bots' = DOMAIN bots
      /\ \A i \in DOMAIN bots : bots'[i] = IF i = n THEN bot ELSE bots[i]
  BY <1>1, <1>2, <1>3, ExceptSeq
<1>5. TypeOK' /\ CountsTheLiving'
  <2>1. rand' \in 0 .. MaxTime \cup {Unseeded}
    BY SeedType DEF SetTag, IInv
  <2> QED
    BY <1>3, <1>4, <2>1 DEF IInv, TypeOK, CountsTheLiving
<1>6. ASSUME NEW i \in DOMAIN bots
      PROVE  (scoped => bots'[i].id = i - 1) /\ NamedBySecond(bots'[i])
  <2>1. (scoped => bots[i].id = i - 1) /\ NamedBySecond(bots[i])
    BY Zenon DEF IInv, IdsArePositions, TagsAreOfSeconds
  <2> QED
    BY <1>2, <1>4, <2>1, Zenon
<1>7. IdsArePositions' /\ TagsAreOfSeconds'
  BY <1>3, <1>4, <1>6, Zenon DEF IdsArePositions, TagsAreOfSeconds, NamedBySecond
<1> QED
  BY <1>5, <1>7, Zenon DEF IInv

LEMMA DestroyStep ==
  ASSUME IInv, NEW n \in DOMAIN bots, Destroy(n)
  PROVE  IInv'
<1>1. /\ bots \in Seq(Bots) /\ n \in 1 .. Len(bots) /\ Len(bots) \in Nat
      /\ count_ = Len(bots) /\ Len(bots) <= MaxBots
  BY DEF IInv, TypeOK, CountsTheLiving
<1>2. /\ scoped => n = Len(bots)
      /\ bots' = RemoveAt(bots, n) /\ count_' = count_ - 1
      /\ UNCHANGED <<scoped, rand, now>>
  BY DEF Destroy
<1>3. /\ bots' \in Seq(Bots) /\ Len(bots') = Len(bots) - 1
      /\ \A i \in 1 .. Len(bots) - 1 :
           bots'[i] = IF i < n THEN bots[i] ELSE bots[i + 1]
  BY <1>1, <1>2, RemoveOne
<1>4. TypeOK' /\ CountsTheLiving'
  <2>1. MaxBots \in Nat
    BY RegistryAssumption
  <2> QED
    BY <1>1, <1>2, <1>3, <2>1 DEF IInv, TypeOK, CountsTheLiving
<1>5. ASSUME NEW i \in DOMAIN bots'
      PROVE  (scoped => bots'[i].id = i - 1) /\ NamedBySecond(bots'[i])
  <2>1. i \in 1 .. Len(bots) - 1 /\ i \in DOMAIN bots /\ i + 1 \in DOMAIN bots
    BY <1>1, <1>3
  <2>2. CASE i < n
    <3>1. bots'[i] = bots[i]
      BY <1>3, <2>1, <2>2
    <3> QED
      BY <2>1, <3>1, Zenon DEF IInv, IdsArePositions, TagsAreOfSeconds
  <2>3. CASE ~(i < n)
    <3>1. bots'[i] = bots[i + 1] /\ ~scoped
      BY <1>1, <1>2, <1>3, <2>1, <2>3
    <3> QED
      BY <2>1, <3>1, Zenon DEF IInv, TagsAreOfSeconds
  <2> QED
    BY <2>2, <2>3
<1>6. IdsArePositions' /\ TagsAreOfSeconds'
  BY <1>2, <1>5, Zenon DEF IdsArePositions, TagsAreOfSeconds, NamedBySecond
<1> QED
  BY <1>4, <1>6, Zenon DEF IInv

LEMMA IInvStep == IInv /\ [Next]_vars => IInv'
<1> SUFFICES ASSUME IInv, [Next]_vars PROVE IInv'
  OBVIOUS
<1>1. CASE Tick
  <2>1. now' \in 0 .. MaxTime /\ UNCHANGED <<scoped, count_, bots, rand>>
    BY <1>1, RegistryAssumption DEF Tick, IInv, TypeOK
  <2> QED
    BY <2>1 DEF IInv, TypeOK, CountsTheLiving, IdsArePositions,
                TagsAreOfSeconds, NamedBySecond
<1>2. CASE UNCHANGED vars
  BY <1>2 DEF vars, IInv, TypeOK, CountsTheLiving, IdsArePositions,
              TagsAreOfSeconds, NamedBySecond
<1> QED
  BY <1>1, <1>2, ConstructStep, SetTagStep, DestroyStep DEF Next

LEMMA Invariance == Spec => []IInv
BY IInvInit, IInvStep, PTL DEF Spec

----------------------------------------------------------------------------
(* The variables keep their types; the unsigned count never wraps.         *)
THEOREM RegistryTypeCorrect == Spec => []TypeOK
BY Invariance, PTL DEF IInv

(* Bots that are destroyed youngest first never share an id.               *)
THEOREM IdsAreUnique == Spec => []IdsTellApart
<1>1. IInv => IdsTellApart
  <2> SUFFICES ASSUME IInv, scoped, NEW i \in DOMAIN bots,
                      NEW j \in DOMAIN bots, i # j
               PROVE  bots[i].id # bots[j].id
    BY DEF IdsTellApart
  <2>1. bots[i].id = i - 1 /\ bots[j].id = j - 1
    BY DEF IInv, IdsArePositions
  <2>2. i \in Nat /\ j \in Nat
    BY DEF IInv, TypeOK
  <2> QED
    BY <2>1, <2>2
<1> QED
  BY <1>1, Invariance, PTL

(* Bots that are named in the same second share a tag (GodBot.cpp:24).     *)
THEOREM TagsRepeatWithinASecond == Spec => []SameSecondSameTag
<1>1. IInv => SameSecondSameTag
  BY DEF IInv, TagsAreOfSeconds, NamedBySecond, SameSecondSameTag
<1> QED
  BY <1>1, Invariance, PTL
===============================================================================
