--------------------------- MODULE MCHealthCheck ----------------------------
(***************************************************************************)
(* Two instruments; each may have a protective stop resting, one also a    *)
(* buy of stop type, the other a buy limit.                                *)
(***************************************************************************)
EXTENDS HealthCheck

CONSTANTS A, B, stopA, stopB, buyStopA, buyB

MCTickerOf == [o \in Orders |-> IF o \in {buyB, stopB} THEN B ELSE A]

MCSideOf == [o \in Orders |-> IF o \in {stopA, stopB} THEN "sell" ELSE "buy"]
============================================================================
