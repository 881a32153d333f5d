----------------------------- MODULE MCLongPoll ----------------------------
(* Two reviews, so that one reply may carry either or both, one named      *)
(* session, one polling client.                                            *)
EXTENDS LongPoll
=============================================================================
