------------------------ MODULE MCTopicSubscription ------------------------
(* Small instances of TopicSubscription. *)
EXTENDS TopicSubscription, TLC

CONSTANTS single, pair, other

\* One message of a single chunk and two of two chunks.
Chunks == single :> 1 @@ pair :> 2 @@ other :> 2
Responses == {[message |-> single, number |-> 1]} \cup [message : {pair, other}, number : 1..2]
=============================================================================
