----------------------------- MODULE MCChannels ------------------------------
(* Small instances of Channels.                                               *)
EXTENDS Channels

Message0 == [friend |-> TRUE, direct |-> TRUE, addressed |-> TRUE, file |-> FALSE,
             album |-> "none", command |-> FALSE]
E(id, chat) == [id |-> id, uid |-> id, chat |-> chat] @@ Message0

(* A direct chat a with text, two parts of an album and a command; a group g    *)
(* with a mention, a message that is not for the bot, and one of a stranger.    *)
MCEvents ==
  {E(1, "a"),
   [E(2, "a") EXCEPT !.file = TRUE, !.album = "x"],
   [E(3, "a") EXCEPT !.file = TRUE, !.album = "x"],
   [E(4, "a") EXCEPT !.command = TRUE],
   [E(5, "g") EXCEPT !.direct = FALSE],
   [E(6, "g") EXCEPT !.direct = FALSE, !.addressed = FALSE],
   [E(7, "g") EXCEPT !.direct = FALSE, !.friend = FALSE]}

Ids == 1 .. 7
Deliver(once, twice) ==
  [i \in Ids |-> IF i \in twice THEN 2 ELSE IF i \in once THEN 1 ELSE 0]

MCTraffic ==
  {Deliver({2}, {1}), Deliver({2, 3}, {}), Deliver({1, 4}, {}),
   Deliver({6}, {5}), Deliver({5, 6}, {}), Deliver({5, 7}, {})}
MCProgress == {1}
=============================================================================
