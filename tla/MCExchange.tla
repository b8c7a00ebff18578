----------------------------- MODULE MCExchange ------------------------------
(* Instances of Exchange for TLC.                                          *)
EXTENDS Exchange

CONSTANTS alice, bob, sA, sC

(* What two sessions send: orders that trade, wholly or in part of either  *)
(* side, at the price of the one that was there first; one without shares, *)
(* and one for a symbol without a book.                                    *)
MCTrading ==
  {f \in Forms :
     \/ f.owner = alice /\ f.sym = sA /\ f.buy /\ f.px = 4
     \/ f.owner = bob /\ f.sym = sA /\ ~f.buy /\ f.px = 2 /\ f.qty = 1
     \/ f.owner = bob /\ f.sym = sC /\ f.buy /\ f.px = 2 /\ f.qty = 1}

MCEverything == Forms
=============================================================================
