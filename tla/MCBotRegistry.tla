----------------------------- MODULE MCBotRegistry -----------------------------
(***************************************************************************)
(* BotRegistry with a generator that may, or may not, repeat a tag.        *)
(***************************************************************************)
EXTENDS BotRegistry

GivenTags == {"alice"}
Generator == [t \in 0 .. MaxTime + MaxBots |->
                CASE t = 0 -> "bob_1" [] t = 2 -> "bob_1" [] OTHER -> "sam_7"]
================================================================================
