--------------------------- MODULE FlattenProofs ----------------------------
(***************************************************************************)
(* Theorems about Flatten, for any instruments, any orders and any set of  *)
(* calls that may raise.                                                   *)
(***************************************************************************)
EXTENDS Flatten, TLAPS

\* No step of the call or of the broker leaves a variable outside its type.
LEMMA TypeStep == TypeOK /\ [Next]_vars => TypeOK'
<1> SUFFICES ASSUME TypeOK, [Next]_vars PROVE TypeOK'
  OBVIOUS
<1> USE FlattenAssumption DEF TypeOK
<1>1. CASE FetchOrders
  BY <1>1 DEF FetchOrders, brokerVars, Live
<1>2. ASSUME NEW o \in Orders, CancelAccepted(o) PROVE TypeOK'
  BY <1>2 DEF CancelAccepted, TakeCancel, reportVars
<1>3. ASSUME NEW o \in Orders, CancelRaises(o) PROVE TypeOK'
  BY <1>3 DEF CancelRaises, CancelRefused, TakeCancel, ReportName
<1>4. CASE CancelsSent \/ WaitRaises \/ CancelsSettled \/ Report
  BY <1>4 DEF CancelsSent, WaitRaises, CancelsSettled, Report, brokerVars, reportVars
<1>5. ASSUME NEW o \in Orders, Wait(o) PROVE TypeOK'
  BY <1>5 DEF Wait, brokerVars, reportVars
<1>6. CASE FetchPositions
  BY <1>6 DEF FetchPositions, brokerVars
<1>7. ASSUME NEW t \in Tickers, CloseAccepted(t) PROVE TypeOK'
  BY <1>7 DEF CloseAccepted, TakeClose, reportVars
<1>8. ASSUME NEW t \in Tickers, CloseRaises(t) PROVE TypeOK'
  BY <1>8 DEF CloseRaises, CloseRefused, TakeClose
<1>9. CASE LogTrade
  BY <1>9 DEF LogTrade, brokerVars
<1>10. ASSUME NEW o \in Orders, OrderFills(o) \/ CancelSettles(o) PROVE TypeOK'
  BY <1>10 DEF OrderFills, CancelSettles, reportVars
<1>11. ASSUME NEW t \in Tickers, CloseFills(t) PROVE TypeOK'
  BY <1>11 DEF CloseFills, reportVars
<1>12. CASE UNCHANGED vars
  BY <1>12 DEF vars
<1> QED
  BY <1>1, <1>2, <1>3, <1>4, <1>5, <1>6, <1>7, <1>8, <1>9, <1>10, <1>11, <1>12
     DEF Next, FlattenStep, BrokerStep

\* Every variable keeps its type: no call of flatten_all, and nothing the
\* broker does meanwhile, leaves the report or the broker in an unknown state.
THEOREM TypeCorrect == Spec => []TypeOK
<1>1. Init => TypeOK
  BY FlattenAssumption DEF Init, TypeOK
<1> QED
  BY <1>1, TypeStep, PTL DEF Spec

----------------------------------------------------------------------------
(***************************************************************************)
(* The report is complete because of what holds on the way: an order is    *)
(* still to be cancelled, cancelled and awaited, or reported; a position   *)
(* that appears after the listing comes from an order whose cancel failed. *)
(***************************************************************************)

OrdersCovered ==
    pc # "orders" /\ "orders" \notin fetchFailed =>
        \A o \in Live : o \in toCancel \cup cancelled \/ TickerOf[o] \in cancelFailed

CancelsCovered ==
    /\ pc \in {"orders", "cancel"} \/ toCancel = {}
    /\ pc = "wait" => \A o \in cancelled \ toWait : order[o] = "done"
    /\ pc = "cancel" => cancelled \subseteq toWait
    /\ pc = "orders" => cancelled = {}

PositionsCovered ==
    pc \in {"close", "row", "done"} /\ fetchFailed = {} =>
        held \subseteq toClose \cup closeFailed \cup cancelFailed

RowsCovered ==
    /\ rows \subseteq accepted
    /\ accepted \subseteq rows \cup closeFailed \cup (IF pc = "row" THEN {pos} ELSE {})
    /\ pc = "row" => pos \in accepted

Covered ==
    /\ TypeOK
    /\ OrdersCovered
    /\ CancelsCovered
    /\ CancelsSettleFirst
    /\ PositionsCovered
    /\ RowsCovered
    /\ pc = "done" => toClose = {}

\* Covered is inductive.
LEMMA CoveredInductive == Covered /\ [Next]_vars => Covered'
<1> SUFFICES ASSUME Covered, [Next]_vars, TypeOK' PROVE Covered'
  BY TypeStep DEF Covered
<1> USE FlattenAssumption DEF Covered, TypeOK, OrdersCovered, CancelsCovered,
        CancelsSettleFirst, PositionsCovered, RowsCovered, Live
<1>1. CASE FetchOrders
  BY <1>1 DEF FetchOrders, brokerVars
<1>2. ASSUME NEW o \in Orders, CancelAccepted(o) PROVE Covered'
  BY <1>2 DEF CancelAccepted, TakeCancel, reportVars
<1>3. ASSUME NEW o \in Orders, CancelRaises(o) PROVE Covered'
  BY <1>3 DEF CancelRaises, CancelRefused, TakeCancel, ReportName
<1>4. CASE CancelsSent \/ WaitRaises \/ CancelsSettled \/ Report
  BY <1>4 DEF CancelsSent, WaitRaises, CancelsSettled, Report, brokerVars, reportVars
<1>5. ASSUME NEW o \in Orders, Wait(o) PROVE Covered'
  BY <1>5 DEF Wait, brokerVars, reportVars
<1>6. CASE FetchPositions
  BY <1>6 DEF FetchPositions, brokerVars
<1>7. ASSUME NEW t \in Tickers, CloseAccepted(t) PROVE Covered'
  BY <1>7 DEF CloseAccepted, TakeClose, reportVars
<1>8. ASSUME NEW t \in Tickers, CloseRaises(t) PROVE Covered'
  BY <1>8 DEF CloseRaises, CloseRefused, TakeClose
<1>9. CASE LogTrade
  BY <1>9 DEF LogTrade, brokerVars
<1>10. ASSUME NEW o \in Orders, OrderFills(o) PROVE Covered'
  BY <1>10 DEF OrderFills, reportVars
<1>11. ASSUME NEW o \in Orders, CancelSettles(o) PROVE Covered'
  BY <1>11 DEF CancelSettles, reportVars
<1>12. ASSUME NEW t \in Tickers, CloseFills(t) PROVE Covered'
  BY <1>12 DEF CloseFills, reportVars
<1>13. CASE UNCHANGED vars
  BY <1>13 DEF vars
<1> QED
  BY <1>1, <1>2, <1>3, <1>4, <1>5, <1>6, <1>7, <1>8, <1>9, <1>10, <1>11, <1>12, <1>13
     DEF Next, FlattenStep, BrokerStep

\* Covered holds throughout every run.
LEMMA CoveredHolds == Spec => []Covered
<1>1. Init => Covered
  BY FlattenAssumption
     DEF Init, Covered, TypeOK, OrdersCovered, CancelsCovered, CancelsSettleFirst,
         PositionsCovered, RowsCovered
<1> QED
  BY <1>1, CoveredInductive, PTL DEF Spec

\* What flatten_all leaves behind is in its report, whichever calls raised and
\* whichever orders filled while it ran.
THEOREM ReportComplete == Spec => []NothingLeftUnsaid
<1>1. Covered => NothingLeftUnsaid
  BY FlattenAssumption
     DEF Covered, TypeOK, OrdersCovered, CancelsCovered, CancelsSettleFirst,
         PositionsCovered, NothingLeftUnsaid, Live
<1> QED
  BY <1>1, CoveredHolds, PTL

\* No cancel of the call is under way once it lists and closes positions.
THEOREM SettledBeforeClose == Spec => []CancelsSettleFirst
<1>1. Covered => CancelsSettleFirst
  BY DEF Covered
<1> QED
  BY <1>1, CoveredHolds, PTL

\* SELL rows and accepted closes match, but for the closes reported as failed.
THEOREM RowsMatchCloses == Spec => []ClosesAccounted
<1>1. Covered => ClosesAccounted
  BY DEF Covered, RowsCovered, ClosesAccounted
<1> QED
  BY <1>1, CoveredHolds, PTL
=============================================================================
