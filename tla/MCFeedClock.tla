----------------------------- MODULE MCFeedClock -----------------------------
(* Instances of FeedClock for TLC.                                         *)
EXTENDS FeedClock

CONSTANTS t1, t2, b1, b2
=============================================================================
