------------------------------ MODULE BotRegistry ------------------------------
(***************************************************************************)
(* What the bots of one process share: the count behind their ids, and the *)
(* C library's generator behind the tags they are given when they are      *)
(* created, or tagged, without one.  (The class can be copied, which would *)
(* not count the copy; the program makes none.)                            *)
(***************************************************************************)
EXTENDS Integers, Sequences, SequencesExt

CONSTANTS
  Tags,      \* tags that a caller gives, "" for none
  TagOf,     \* the tag that the generator makes of a seed
  MaxBots,   \* bound: bots that live at a time
  MaxTime    \* bound: seconds

ASSUME RegistryAssumption == MaxBots \in Nat /\ MaxTime \in Nat

VARIABLES
  scoped,    \* bots are locals, as in main: the youngest is destroyed first
  count_,    \* GodBot::count_
  bots,      \* the bots that live, oldest first
  rand,      \* the seed of the generator, Unseeded before the first srand
  now        \* the clock, in seconds

vars == <<scoped, count_, bots, rand, now>>

Unseeded == -1
NoTag == ""

Init ==
  /\ scoped \in BOOLEAN
  /\ count_ = 0 /\ bots = << >> /\ rand = Unseeded /\ now = 0

----------------------------------------------------------------------------
(* GenerateTag seeds the generator with the time and draws twice.          *)
GenerateTag == now

(* SetTag: what the bot is called, and when the generator named it.        *)
Tagged(bot, tag) ==
  IF tag = NoTag THEN [bot EXCEPT !.tag = TagOf[GenerateTag], !.named = now]
  ELSE [bot EXCEPT !.tag = tag, !.named = Unseeded]

Seeds(tag) == rand' = IF tag = NoTag THEN GenerateTag ELSE rand

NewBot(tag) == Tagged([id |-> count_, tag |-> NoTag, named |-> Unseeded], tag)

ConstructUncounted(tag) ==     \* id_ = count_
  /\ Len(bots) < MaxBots
  /\ bots' = Append(bots, NewBot(tag))
  /\ Seeds(tag)
  /\ UNCHANGED <<scoped, count_, now>>

Construct(tag) ==
  /\ Len(bots) < MaxBots
  /\ bots' = Append(bots, NewBot(tag))
  /\ count_' = count_ + 1
  /\ Seeds(tag)
  /\ UNCHANGED <<scoped, now>>

SetTag(i, tag) ==
  /\ bots' = [bots EXCEPT ![i] = Tagged(bots[i], tag)]
  /\ Seeds(tag)
  /\ UNCHANGED <<scoped, count_, now>>

Destroy(i) ==
  /\ scoped => i = Len(bots)
  /\ bots' = RemoveAt(bots, i)
  /\ count_' = count_ - 1
  /\ UNCHANGED <<scoped, rand, now>>

Tick ==
  /\ now < MaxTime
  /\ now' = now + 1
  /\ UNCHANGED <<scoped, count_, bots, rand>>

Next ==
  \/ \E tag \in Tags \cup {NoTag} :
       \/ Construct(tag)
       \/ \E i \in DOMAIN bots : SetTag(i, tag)
  \/ \E i \in DOMAIN bots : Destroy(i)
  \/ Tick

Spec == Init /\ [][Next]_vars

----------------------------------------------------------------------------
Bots == [id : Int, tag : Tags \cup {TagOf[t] : t \in 0 .. MaxTime},
         named : 0 .. MaxTime \cup {Unseeded}]

(* Types: the count, which is unsigned, never wraps.                       *)
TypeOK ==
  /\ scoped \in BOOLEAN
  /\ count_ \in 0 .. MaxBots
  /\ bots \in Seq(Bots) /\ Len(bots) <= MaxBots
  /\ rand \in 0 .. MaxTime \cup {Unseeded}
  /\ now \in 0 .. MaxTime

(* GetID() tells the bots apart that live at the same time, as long as the *)
(* youngest is destroyed first, as locals are: an id is given again only   *)
(* after its bot is gone.                                                  *)
IdsTellApart ==
  scoped => \A i, j \in DOMAIN bots : i # j => bots[i].id # bots[j].id

(* Tags do not tell them apart: two bots that are named by the generator   *)
(* in the same second have the same tag, because GodBot.cpp:24 seeds it    *)
(* with the time again for every tag.                                      *)
SameSecondSameTag ==
  \A i, j \in DOMAIN bots :
    (bots[i].named = bots[j].named /\ bots[i].named # Unseeded)
      => bots[i].tag = bots[j].tag
================================================================================
