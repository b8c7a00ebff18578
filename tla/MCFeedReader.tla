---------------------------- MODULE MCFeedReader -----------------------------
(* Instances of FeedReader for TLC.                                        *)
EXTENDS FeedReader

CONSTANTS alice, sA

(* Bids and asks at prices that the feed can carry (4, 6), has to round    *)
(* (7) and cannot carry (9), that rest or trade; one without shares.       *)
MCReading ==
  {f \in Forms :
     \/ f.buy /\ <<f.px, f.qty>> \in {<<4, 2>>, <<7, 1>>, <<9, 1>>, <<4, 0>>}
     \/ ~f.buy /\ <<f.px, f.qty>> \in {<<4, 1>>, <<6, 1>>}}

MCEverything == Forms
=============================================================================
