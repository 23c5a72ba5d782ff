----------------------------- MODULE MCFlatten ------------------------------
(***************************************************************************)
(* Two instruments; each may have a resting stop, one also a resting buy.  *)
(***************************************************************************)
EXTENDS Flatten

CONSTANTS A, B, stopA, stopB, buyB

MCTickerOf == [o \in Orders |-> IF o = stopA THEN A ELSE B]

MCSideOf == [o \in Orders |-> IF o = buyB THEN "buy" ELSE "sell"]
============================================================================
