--------------------------- MODULE MCExchangeClient ---------------------------
(* Instances of ExchangeClient for TLC.                                    *)
EXTENDS ExchangeClient

CONSTANTS own1, own2, alice, bob

MCSessions == <<own1, own2>>
=============================================================================
