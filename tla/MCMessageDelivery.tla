------------------------ MODULE MCMessageDelivery ------------------------
(* Instances of MessageDelivery for TLC. *)
EXTENDS MessageDelivery

CONSTANTS a1, a2

\* Messages of portal operators, and replies of the bot in one conversation.
MCOneMessage == 1 .. 1
MCThreeMessages == 1 .. 3
MCNoReplies == {}
MCTwoReplies == 2 .. 3
=============================================================================
