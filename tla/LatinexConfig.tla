---------------------------- MODULE LatinexConfig ----------------------------
(***************************************************************************)
(* The price conversions of src/src/latinex_config.cpp between the prices  *)
(* of the exchange, 64-bit integers that count millionths, and those of    *)
(* the ITCH feed, 32-bit integers that count ten-thousandths.              *)
(*                                                                         *)
(* The widths are parameters: a feed price is an integer of -Half..Half-1, *)
(* Half = 2^31, and Ratio = 100 prices of the exchange make one of it.     *)
(***************************************************************************)
EXTENDS Integers

CONSTANTS
  Ratio,  \* prices of the exchange in one price of the feed
  Half    \* half the range of an int32_t

ASSUME LatinexConfigAssumption ==
  /\ Ratio \in Nat \ {0}
  /\ Half \in Nat \ {0}

(* The conversion of an integer to int32_t, which keeps the low bits.      *)
Int32(i) == ((i + Half) % (2 * Half)) - Half

(* Integer division in C++ rounds towards zero.                            *)
Quotient(i, n) == IF i >= 0 THEN i \div n ELSE -((-i) \div n)

(* `(int32_t)in / 100': the cast binds tighter than the division.          *)
to_itch_price(in) == Quotient(Int32(in), Ratio)

(* Mutant: the digits that to_itch_price has cut off are not put back.     *)
from_itch_price_unscaled(in) == in

(* `in * 100', an int product.                                             *)
from_itch_price(in) == Int32(in * Ratio)

(* A price the feed can carry.                                             *)
Representable(p) == p \in 0 .. Half - 1 /\ p % Ratio = 0
=============================================================================
