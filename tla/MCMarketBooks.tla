---------------------------- MODULE MCMarketBooks ----------------------------
(* Instances of MarketBooks for TLC: the orders o1 and o2 are for one      *)
(* symbol, o3 is for another.                                              *)
EXTENDS MarketBooks, TLC

CONSTANTS t1, t2, t3, sA, sB, o1, o2, o3

MCSymbolOf == [o \in Orders |-> IF o = o3 THEN sB ELSE sA]
=============================================================================
