------------------------- MODULE HealthCheckProofs --------------------------
(***************************************************************************)
(* Theorems about HealthCheck, for any instruments, orders and faults, and *)
(* about Alerting, for any chain of transports.                            *)
(***************************************************************************)
EXTENDS HealthCheck, FlattenProofs, WellOrder

\* An alert lands whatever its transports do, as long as the chain has a console,
\* its own or the one that ensure_console adds: the first transport that confirms
\* is tried (FallbackNotifier).
THEOREM AlertsLand ==
    ASSUME NEW Kinds, Console \in Kinds, NEW transports \in Seq(Kinds),
           NEW ensure_console \in BOOLEAN, ensure_console \/ HasConsole(transports),
           NEW fate \in Fates(Chain(transports, ensure_console))
    PROVE  Lands(fate)
<1> DEFINE chain == Chain(transports, ensure_console)
           confirmed == {i \in DOMAIN fate : fate[i] = "confirmed"}
<1>1. /\ chain \in Seq(Kinds)
      /\ \E i \in DOMAIN chain : chain[i] = Console
  <2>1. CASE HasConsole(transports)
    BY <2>1 DEF Chain, HasConsole
  <2>2. CASE ~HasConsole(transports)
    <3>1. chain = Append(transports, Console)
      BY <2>2 DEF Chain
    <3>2. /\ chain \in Seq(Kinds)
          /\ Len(chain) = Len(transports) + 1
          /\ chain[Len(transports) + 1] = Console
      BY <3>1
    <3> QED
      BY <3>2
  <2> QED
    BY <2>1, <2>2
<1>2. /\ DOMAIN fate = DOMAIN chain
      /\ \A i \in DOMAIN chain : chain[i] = Console => fate[i] = "confirmed"
  BY DEF Fates
<1>3. confirmed # {} /\ confirmed \subseteq Nat
  BY <1>1, <1>2
<1> HIDE DEF confirmed, chain
<1>5. PICK i \in confirmed : \A j \in confirmed : i <= j
  BY <1>3, LeastNumber
<1>6. DOMAIN fate = 1 .. Len(chain) /\ Len(chain) \in Nat
  BY <1>1, <1>2
<1>7. i \in Tried(fate)
  <2>1. i \in DOMAIN fate
    BY DEF confirmed
  <2>2. ASSUME NEW j \in 1 .. i - 1 PROVE fate[j] # "confirmed"
    <3>1. j \in DOMAIN fate /\ j < i
      BY <1>6, <2>1
    <3> QED
      BY <3>1, <1>5, <1>6, <2>1 DEF confirmed
  <2> QED
    BY <2>1, <2>2 DEF Tried
<1> QED
  BY <1>7 DEF Lands, confirmed

----------------------------------------------------------------------------
(***************************************************************************)
(* The run.  A position that was listed and that nothing has happened to   *)
(* since is still to be looked at, has its sell or a buy of stop type, or  *)
(* is the one in hand; a stop the broker took has its row, or is the one   *)
(* in hand.                                                                *)
(***************************************************************************)

\* The flatten is over while a run is on, and what the run has done so far is
\* in its rows.
RowsInOrder ==
    /\ stage # "idle" => FlattenOver
    /\ fixed \subseteq placed
    /\ placed \subseteq found
    /\ stage = "log" => at \in placed
    /\ stopsOk => placed \subseteq fixed \cup (IF stage = "log" THEN {at} ELSE {})

\* A sell rests against t, or the run takes something for one.
Passed(t) == Protected(t) \/ BuyStop(t)

ListedCovered ==
    /\ stage = "orders" => \A t \in held \ moved : t \in todo \/ Passed(t)
    /\ stage \in {"detect", "place", "log", "breaker", "row"} /\ apiOk /\ stopsOk =>
           \A t \in held \ moved :
               Passed(t) \/ t \in todo \/ (stage = "place" /\ t = at)
    /\ stage \in {"breaker", "row"} /\ apiOk /\ stopsOk =>
           \A t \in held \ moved : Passed(t)

HealthInv == TypeOK /\ HealthTypeOK /\ RowsInOrder /\ ListedCovered

\* A step of the run, of the account or of the call, one by one.
LEMMA HealthInvStep == HealthInv /\ [HealthNext]_allVars => HealthInv'
<1> SUFFICES ASSUME HealthInv, [HealthNext]_allVars PROVE HealthInv'
  OBVIOUS
<1> USE FlattenAssumption, StopsAssumption
    DEF HealthInv, HealthTypeOK, RowsInOrder, ListedCovered
<1>1. ASSUME CallStep PROVE HealthInv'
  <2>1. TypeOK'
    BY <1>1, TypeStep DEF CallStep, Next
  <2>2. UNCHANGED healthVars /\ stage = "idle"
    BY <1>1
       DEF CallStep, FlattenOver, FlattenStep, WaitRaises, FetchOrders, CancelAccepted,
           CancelRaises, CancelsSent, CancelsSettled, Wait, FetchPositions, CloseAccepted,
           CloseRaises, LogTrade, Report
  <2> QED
    BY <2>1, <2>2 DEF healthVars, runVars
<1>2. CASE BeginRun
  BY <1>2 DEF BeginRun, ForgetFlatten, TypeOK, FlattenOver
<1>3. CASE ListPositions
  BY <1>3
     DEF ListPositions, vars, TypeOK, FlattenOver, Passed, BuyStop, Protected, Free,
         Reserved, Live
<1>4. CASE BrokerDown
  BY <1>4 DEF BrokerDown, OutageAlert, MayLand, vars, TypeOK, FlattenOver
<1>5. CASE ListOrders
  BY <1>5
     DEF ListOrders, StopTickers, vars, TypeOK, FlattenOver, Passed, BuyStop,
         Protected, Reserved, Live
<1>6. CASE OrdersUnknown
  BY <1>6 DEF OrdersUnknown, OutageAlert, MayLand, vars, TypeOK, FlattenOver
<1>7. ASSUME NEW t \in Tickers, Detect(t) PROVE HealthInv'
  BY <1>7
     DEF Detect, Alert, MayLand, vars, TypeOK, FlattenOver, Passed, BuyStop, Protected,
         Reserved, Live
<1>8. CASE StopAccepted
  BY <1>8
     DEF StopAccepted, TakeStop, vars, TypeOK, FlattenOver, Passed, BuyStop, Protected,
         Reserved, Live
<1>9. CASE StopRaises
  BY <1>9 DEF StopRaises, TakeStop, Failed, Alert, MayLand, vars, TypeOK, FlattenOver
<1>10. CASE LogFix
  <2>1. UNCHANGED <<vars, emergency, todo, at, apiOk, skip, found, placed, moved>>
    BY <1>10 DEF LogFix
  <2>2. TypeOK' /\ (\A t : Passed(t)' <=> Passed(t)) /\ (FlattenOver' <=> FlattenOver)
    BY <2>1 DEF vars, TypeOK, FlattenOver, Passed, BuyStop, Protected, Reserved, Live
  <2>3. CASE fixed' = fixed \cup {at} /\ UNCHANGED <<stopsOk, paged, outage>>
    BY <1>10, <2>1, <2>2, <2>3 DEF LogFix, vars
  <2>4. CASE Failed /\ UNCHANGED fixed
    <3>1. stopsOk' = FALSE /\ paged' \subseteq Tickers /\ UNCHANGED outage
      BY <2>4 DEF Failed, Alert, MayLand
    <3> QED
      BY <1>10, <2>1, <2>2, <2>4, <3>1 DEF LogFix, vars
  <2> QED
    BY <1>10, <2>3, <2>4 DEF LogFix
<1>11. CASE CoverageDone
  BY <1>11
     DEF CoverageDone, runVars, vars, TypeOK, FlattenOver, Passed, BuyStop, Protected,
         Reserved, Live
<1>12. CASE ConsultBreaker
  <2>1. skip' \in BOOLEAN /\ stage = "breaker" /\ stage' = "row"
    BY <1>12 DEF ConsultBreaker
  <2>2. UNCHANGED <<vars, emergency, todo, at, apiOk, stopsOk, found, fixed, placed,
                    paged, outage, moved>>
    BY <1>12 DEF ConsultBreaker
  <2>3. TypeOK' /\ (\A t : Passed(t)' <=> Passed(t)) /\ (FlattenOver' <=> FlattenOver)
    BY <2>2 DEF vars, TypeOK, FlattenOver, Passed, BuyStop, Protected, Reserved, Live
  <2> QED
    BY <2>1, <2>2, <2>3 DEF vars
<1>13. CASE LogHealth \/ JournalRaises
  BY <1>13 DEF LogHealth, JournalRaises, EndRun, vars, TypeOK
<1>14. ASSUME NEW t \in Tickers, BrokerMoves(t) PROVE HealthInv'
  <2>1. TypeOK' /\ UNCHANGED pc
    <3>1. Next /\ UNCHANGED pc
      BY <1>14 DEF BrokerMoves, OrderFills, CancelSettles, CloseFills, Next, BrokerStep
    <3> QED
      BY <3>1, TypeStep
  <2>2. /\ UNCHANGED <<emergency, stage, todo, at, apiOk, stopsOk, skip, found, fixed,
                       placed, paged, outage>>
        /\ moved' = IF stage = "idle" THEN moved ELSE moved \cup {t}
    BY <1>14 DEF BrokerMoves, Moves
  <2>3. held' \subseteq held \cup {t}
    BY <1>14 DEF BrokerMoves, OrderFills, CancelSettles, CloseFills
  <2>4. ASSUME NEW u \in Tickers, u # t, Passed(u) PROVE Passed(u)'
    BY <1>14, <2>2, <2>4
       DEF BrokerMoves, OrderFills, CancelSettles, CloseFills, Passed, BuyStop, Protected,
           Reserved, Live, TypeOK
  <2>5. held \subseteq Tickers /\ held' \subseteq Tickers
    BY <2>1 DEF TypeOK
  <2> QED
    BY <2>1, <2>2, <2>3, <2>4, <2>5 DEF FlattenOver
<1>15. ASSUME NEW o \in Orders, OrderExpires(o) PROVE HealthInv'
  BY <1>15
     DEF OrderExpires, Moves, TypeOK, FlattenOver, Passed, BuyStop, Protected,
         Reserved, Live, reportVars
<1>16. ASSUME NEW t \in Tickers, EmergencyEnds(t) PROVE HealthInv'
  BY <1>16
     DEF EmergencyEnds, Moves, TypeOK, FlattenOver, Passed, BuyStop, Protected,
         Reserved, Live, reportVars
<1>17. CASE UNCHANGED allVars
  BY <1>17
     DEF allVars, healthVars, runVars, vars, TypeOK, FlattenOver, Passed, BuyStop,
         Protected, Reserved, Live
<1> QED
  BY <1>1, <1>2, <1>3, <1>4, <1>5, <1>6, <1>7, <1>8, <1>9, <1>10, <1>11, <1>12, <1>13,
     <1>14, <1>15, <1>16, <1>17 DEF HealthNext, RunStep, AccountStep

\* HealthInv holds throughout every run.
LEMMA HealthInvHolds == HealthSpec => []HealthInv
<1>1. HealthInit => HealthInv
  BY FlattenAssumption, StopsAssumption
     DEF HealthInit, Init, HealthInv, TypeOK, HealthTypeOK, RowsInOrder, ListedCovered
<1> QED
  BY <1>1, HealthInvStep, PTL DEF HealthSpec

\* The variables of the runs keep their types, and those of the account and of
\* the call too, morning after morning.
THEOREM HealthTypeCorrect == HealthSpec => [](TypeOK /\ HealthTypeOK)
<1>1. HealthInv => TypeOK /\ HealthTypeOK
  BY DEF HealthInv
<1> QED
  BY <1>1, HealthInvHolds, PTL

\* A run that reports the API and the stops in order has left no position
\* without a sell that nothing happened to since it was listed, except where a
\* buy of stop type passed for its stop.
THEOREM CleanRunCovered == HealthSpec => []CleanRunMeansCovered
<1>1. HealthInv => CleanRunMeansCovered
  BY DEF HealthInv, ListedCovered, CleanRunMeansCovered, Passed
<1> QED
  BY <1>1, HealthInvHolds, PTL

\* Every stop a run places has its detection row before, and its remediation row
\* after, or the run reports the stops as not in order.
THEOREM FixesAudited == HealthSpec => []RemediationAudited
<1>1. HealthInv => RemediationAudited
  BY DEF HealthInv, RowsInOrder, RemediationAudited
<1> QED
  BY <1>1, HealthInvHolds, PTL

----------------------------------------------------------------------------
(***************************************************************************)
(* The report of flatten_all, once the mornings after it are counted in.   *)
(***************************************************************************)

ReportInv == Covered \/ (pc = "over" /\ rows = {} /\ accepted = {})

\* Orders that expire and stops that fill take nothing out of the report.
LEMMA ReportInvStep == ReportInv /\ [HealthNext]_allVars => ReportInv'
<1> SUFFICES ASSUME ReportInv, [HealthNext]_allVars PROVE ReportInv'
  OBVIOUS
<1> USE DEF ReportInv
<1>1. CASE pc = "over" /\ rows = {} /\ accepted = {}
  BY <1>1
     DEF HealthNext, CallStep, FlattenStep, WaitRaises, FetchOrders, CancelAccepted,
         CancelRaises, CancelsSent, CancelsSettled, Wait, FetchPositions, CloseAccepted,
         CloseRaises, LogTrade, Report, RunStep, BeginRun, ForgetFlatten, ListPositions,
         BrokerDown, ListOrders, OrdersUnknown, Detect, StopAccepted, StopRaises, LogFix,
         CoverageDone, ConsultBreaker, LogHealth, JournalRaises, EndRun, AccountStep,
         BrokerMoves, OrderFills, CancelSettles, CloseFills, OrderExpires, EmergencyEnds,
         reportVars, vars, allVars
<1>2. CASE Covered
  <2>1. CASE [Next]_vars
    BY <1>2, <2>1, CoveredInductive
  <2>2. CASE BeginRun
    BY <2>2 DEF BeginRun, ForgetFlatten
  <2>3. ASSUME NEW o \in Orders, OrderExpires(o) PROVE ReportInv'
    <3>1. /\ order' = [order EXCEPT ![o] = "done"]
          /\ pc \in {"done", "raised", "over"}
          /\ UNCHANGED <<held, closing, accepted, pc, toCancel, cancelled, toWait,
                         toClose, pos, reportVars>>
      BY <2>3 DEF OrderExpires, FlattenOver
    <3> QED
      BY <1>2, <3>1, FlattenAssumption
         DEF Covered, TypeOK, OrdersCovered, CancelsCovered, CancelsSettleFirst,
             PositionsCovered, RowsCovered, Live, reportVars
  <2>4. ASSUME NEW t \in Tickers, EmergencyEnds(t) PROVE ReportInv'
    <3>1. /\ held' \subseteq held
          /\ UNCHANGED <<order, closing, accepted, pc, toCancel, cancelled, toWait,
                         toClose, pos, reportVars>>
      BY <2>4 DEF EmergencyEnds
    <3> QED
      BY <1>2, <3>1
         DEF Covered, TypeOK, OrdersCovered, CancelsCovered, CancelsSettleFirst,
             PositionsCovered, RowsCovered, Live, reportVars
  <2>5. ASSUME NEW t \in Tickers, BrokerMoves(t) PROVE [Next]_vars
    BY <2>5 DEF BrokerMoves, Next, BrokerStep
  <2>6. CallStep => [Next]_vars
    BY DEF CallStep, Next
  <2>7. RunStep \/ JournalRaises \/ UNCHANGED allVars => [Next]_vars
    BY DEF RunStep, ListPositions, BrokerDown, ListOrders, OrdersUnknown, Detect,
           StopAccepted, StopRaises, LogFix, CoverageDone, ConsultBreaker, LogHealth,
           JournalRaises, EndRun, allVars
  <2> QED
    BY <2>1, <2>2, <2>3, <2>4, <2>5, <2>6, <2>7 DEF HealthNext, AccountStep
<1> QED
  BY <1>1, <1>2

\* On the account the mornings share, too, the report of flatten_all names all
\* it left, its cancels settle before its closes, and its rows match its closes.
THEOREM ReportCompleteInHealth ==
    HealthSpec => [](NothingLeftUnsaid /\ CancelsSettleFirst /\ ClosesAccounted)
<1>1. HealthInit => ReportInv
  BY FlattenAssumption
     DEF HealthInit, Init, ReportInv, Covered, TypeOK, OrdersCovered, CancelsCovered,
         CancelsSettleFirst, PositionsCovered, RowsCovered
<1>2. ReportInv => NothingLeftUnsaid /\ CancelsSettleFirst /\ ClosesAccounted
  BY FlattenAssumption
     DEF ReportInv, Covered, TypeOK, OrdersCovered, CancelsCovered, CancelsSettleFirst,
         PositionsCovered, RowsCovered, NothingLeftUnsaid, ClosesAccounted, Live
<1> QED
  BY <1>1, <1>2, ReportInvStep, PTL DEF HealthSpec
============================================================================
