-------------------------- MODULE RoundTripProofs ---------------------------
(***************************************************************************)
(* The theorems about exits on the tables Reconciliation leaves: every     *)
(* realized one is paired with the entry it sold (get_closed_round_trips), *)
(* and one the journal has missed stays where pass 3 finds it.             *)
(***************************************************************************)
EXTENDS ReconciliationProofs

\* Every order but a stop has its row: the loop journals what it places.
OrdersJournaled ==
    \A o \in OrderIds : orders[o].side # "stop" => \E q \in RowIds : trades[q].order = o

\* Shares change hands after the order is placed, and not before.
TradesFollowOrders ==
    \A o \in OrderIds :
        /\ orders[o].status = "new" => orders[o].done = 0
        /\ Traded(o) => orders[o].placed <= orders[o].done

\* The entry a sell belongs to: the newest buy of its ticker before it, settled.
EntryFor(o, s) ==
    /\ orders[o].side = "buy" /\ orders[o].ticker = orders[s].ticker
    /\ Traded(o) /\ ~AtWork(o)
    /\ o < s /\ orders[o].done < orders[s].placed
    /\ \A p \in OrderIds :
           orders[p].side = "buy" /\ orders[p].ticker = orders[s].ticker /\ p < s => p <= o

SellsHaveEntry ==
    \A s \in OrderIds : orders[s].side # "buy" => \E o \in OrderIds : EntryFor(o, s)

\* The row of an exit, whenever it was written, is stamped with a time at which
\* its ticker had not been bought again.
ExitRowsEarly ==
    \A r \in RowIds, p \in OrderIds :
        /\ trades[r].action # "BUY" /\ orders[p].side = "buy"
        /\ orders[p].ticker = trades[r].ticker /\ trades[r].order < p
        => trades[r].at <= orders[p].placed

TripInv == Inv /\ OrdersJournaled /\ TradesFollowOrders /\ SellsHaveEntry /\ ExitRowsEarly

----------------------------------------------------------------------------
(* Where orders and rows come from *)

\* Types, spelled out for the provers.
LEMMA Facts ==
    ASSUME Inv
    PROVE  /\ now \in Nat /\ now + 1 \in Nat
           /\ orders \in Seq(Orders) /\ OrderIds = 1 .. Len(orders) /\ Len(orders) \in Nat
           /\ \A o \in OrderIds :
                  /\ orders[o] \in Orders
                  /\ orders[o].placed \in Nat /\ orders[o].done \in Nat
           /\ trades \in Seq(Rows) /\ RowIds = 1 .. Len(trades) /\ Len(trades) \in Nat
           /\ \A r \in RowIds :
                  /\ trades[r] \in Rows /\ trades[r].at \in Nat
                  /\ trades[r].order \in OrderIds
BY StateFacts DEF Inv

\* The order of a side that is placed or, for a stop, filled at this moment.
Fresh(t, side) ==
    [ticker |-> t, side |-> side,
     status |-> IF side = "stop" THEN "filled" ELSE "new",
     placed |-> now + 1, done |-> IF side = "stop" THEN now + 1 ELSE 0]

\* What the three actions that grow the history append.
LEMMA FreshOrder ==
    ASSUME Inv, NEW t \in Tickers
    PROVE  /\ \A side \in {"buy", "sell", "stop"} : Fresh(t, side) \in Orders
           /\ Buy(t) => orders' = Append(orders, Fresh(t, "buy"))
           /\ Exit(t) => orders' = Append(orders, Fresh(t, "sell"))
           /\ StopFills(t) => orders' = Append(orders, Fresh(t, "stop"))
<1>1. now + 1 \in Nat /\ 0 \in Nat /\ "filled" \in Statuses /\ "new" \in Statuses
  BY Facts DEF Statuses
<1>2. \A side \in {"buy", "sell", "stop"} : Fresh(t, side) \in Orders
  BY <1>1 DEF Fresh, Orders
<1> QED
  BY <1>2 DEF Fresh, Buy, Exit, StopFills, Place

\* Where an appended order is found.
LEMMA OrderNew ==
    ASSUME Inv, NEW new \in Orders, orders' = Append(orders, new),
           NEW n, n = Len(orders) + 1
    PROVE  /\ OrderIds' = OrderIds \cup {n} /\ n \notin OrderIds /\ n \in Nat
           /\ \A o \in OrderIds : orders'[o] = orders[o] /\ o < n
           /\ orders'[n] = new
<1>1. OrderIds = 1 .. Len(orders) /\ Len(orders) \in Nat /\ orders \in Seq(Orders)
  BY Facts
<1> QED
  BY <1>1, AppendFacts DEF OrderIds

\* The history grows by a buy, an exit or a stop only.
LEMMA OrdersGrow ==
    ASSUME Inv, [Next]_vars
    PROVE  OrderIds' = OrderIds \/ \E t \in Tickers : Buy(t) \/ Exit(t) \/ StopFills(t)
<1>1. CASE \E o \in DOMAIN orders : Fill(o) \/ PartlyFill(o) \/ Die(o)
  <2>1. PICK o \in DOMAIN orders, new \in Orders : orders' = [orders EXCEPT ![o] = new]
    BY <1>1, OrderChanges DEF Inv, OrderRewritten
  <2> QED
    BY <2>1, Facts, ExceptFacts DEF OrderIds
<1>2. CASE \/ \E o \in DOMAIN orders : Repair(o)
           \/ \E w \in Windows : Age(w)
           \/ RunStep \/ PassRaises \/ Crash \/ UNCHANGED vars
  BY <1>2
     DEF Repair, Age, RunStep, RunAll, PassEnds, ListBrokerExits, RowStep, Unanswered,
         SettleEntryFill, SettlePendingExit, ReconcileBrokerExit, DecomposeFill, PassRaises,
         Crash, vars, OrderIds
<1> QED
  BY <1>1, <1>2 DEF Next, BrokerStep, OutsideStep

\* The table grows by a placed order, a repair or a find of pass 3 only.
LEMMA TableGrows ==
    ASSUME Inv, [Next]_vars
    PROVE  \/ RowIds' = RowIds
           \/ \E t \in Tickers : Buy(t) \/ Exit(t)
           \/ \E o \in OrderIds : Repair(o)
           \/ \E r \in RowIds : ReconcileBrokerExit(r)
<1>1. CASE \E r \in RowIds : RowStep(r) /\ ~ReconcileBrokerExit(r)
  <2>1. PICK r \in RowIds : RowStep(r) /\ ~ReconcileBrokerExit(r)
    BY <1>1
  <2>2. r \in todo /\ pc # "broker_exits"
    BY <2>1 DEF RowStep, SettleEntryFill, SettlePendingExit, DecomposeFill
  <2>3. PICK row \in Rows : trades' = [trades EXCEPT ![r] = row]
    BY <2>1, <2>2, RowChanges DEF Inv, RowIds, RowRewritten
  <2> QED
    BY <2>3, Facts, ExceptFacts DEF RowIds
<1>2. CASE \/ BrokerStep
           \/ \E w \in Windows : Age(w)
           \/ RunAll \/ PassEnds \/ ListBrokerExits \/ PassRaises \/ Crash \/ UNCHANGED vars
           \/ \E r \in RowIds : Unanswered(r)
  BY <1>2
     DEF BrokerStep, Fill, PartlyFill, Die, StopFills, Age, RunAll, PassEnds, ListBrokerExits,
         PassRaises, Crash, Unanswered, vars, RowIds
<1> QED
  BY <1>1, <1>2 DEF Next, OutsideStep, RunStep, OrderIds, RowIds

----------------------------------------------------------------------------
(* The parts of the invariant, step by step *)

\* An order and its row come in one step, and rows stay.
LEMMA OrdersJournaledStep ==
    ASSUME TripInv, [Next]_vars
    PROVE  OrdersJournaled'
<1> USE DEF TripInv
<1> SUFFICES ASSUME NEW o \in OrderIds', orders'[o].side # "stop"
             PROVE  \E q \in RowIds' : trades'[q].order = o
  BY DEF OrdersJournaled
<1>1. CASE o \in OrderIds
  <2>1. orders[o].side # "stop"
    BY <1>1, OrdersPersist DEF Inv
  <2>2. PICK q \in RowIds : trades[q].order = o
    BY <1>1, <2>1 DEF OrdersJournaled
  <2> QED
    BY <2>2, RowsPersist
<1>2. CASE o \notin OrderIds
  <2>1. PICK t \in Tickers : Buy(t) \/ Exit(t) \/ StopFills(t)
    BY <1>2, OrdersGrow
  <2>2. PICK n : n = Len(orders) + 1
    OBVIOUS
  <2>3. ASSUME NEW side \in {"buy", "sell", "stop"}, orders' = Append(orders, Fresh(t, side))
        PROVE  o = n /\ side # "stop"
    <3>1. Fresh(t, side) \in Orders /\ Fresh(t, side).side = side
      BY FreshOrder DEF Fresh
    <3>2. o = n /\ orders'[o] = Fresh(t, side)
      BY <1>2, <2>2, <2>3, <3>1, OrderNew
    <3> QED
      BY <3>1, <3>2
  <2>4. CASE Buy(t)
    <3> DEFINE row == TradeRow(t, "BUY", now + 1, n, "none", "agent")
    <3>1. trades' = Append(trades, row) /\ row.order = n
      BY <2>2, <2>4 DEF Buy, TradeRow
    <3>2. row \in Rows
      BY <2>2, Facts, NewRow
    <3> HIDE DEF row
    <3>3. Len(trades) + 1 \in RowIds' /\ trades'[Len(trades) + 1] = row
      BY <3>1, <3>2, NewRowId
    <3> QED
      BY <2>3, <2>4, <3>1, <3>3, FreshOrder
  <2>5. CASE Exit(t)
    <3> DEFINE row == TradeRow(t, "SELL", now + 1, n, "PENDING_FILL", "agent")
    <3>1. trades' = Append(trades, row) /\ row.order = n
      BY <2>2, <2>5 DEF Exit, TradeRow
    <3>2. row \in Rows
      BY <2>2, Facts, NewRow
    <3> HIDE DEF row
    <3>3. Len(trades) + 1 \in RowIds' /\ trades'[Len(trades) + 1] = row
      BY <3>1, <3>2, NewRowId
    <3> QED
      BY <2>3, <2>5, <3>1, <3>3, FreshOrder
  <2> QED
    BY <2>1, <2>3, <2>4, <2>5, FreshOrder
<1> QED
  BY <1>1, <1>2

\* Fills are stamped with the present, and orders were placed before.
LEMMA TradesFollowStep ==
    ASSUME TripInv, [Next]_vars
    PROVE  TradesFollowOrders'
<1> USE DEF TripInv
<1> DEFINE Follows(o) ==
        /\ orders[o].status = "new" => orders[o].done = 0
        /\ Traded(o) => orders[o].placed <= orders[o].done
<1>1. ASSUME NEW o \in OrderIds PROVE Follows(o)'
  <2>1. Follows(o) /\ orders[o] \in Orders /\ orders[o].placed <= now
    BY Facts DEF TradesFollowOrders, Inv, OrderTimes
  <2>2. now \in Nat /\ orders[o].placed \in Nat /\ orders[o].done \in Nat
    BY Facts
  <2>3. CASE orders'[o] = orders[o]
    BY <2>1, <2>3 DEF Traded
  <2>4. CASE orders'[o] # orders[o]
    <3>1. orders \in Seq(Orders) /\ (\E p \in DOMAIN orders : Fill(p) \/ PartlyFill(p) \/ Die(p))
      <4>1. OrderIds' # OrderIds => orders'[o] = orders[o]
        BY OrdersGrow, FreshOrder, OrderNew
      <4>2. CASE \E t \in Tickers : Buy(t) \/ Exit(t) \/ StopFills(t)
        BY <2>4, <4>2, FreshOrder, OrderNew
      <4>3. CASE \/ \E p \in DOMAIN orders : Repair(p)
                 \/ \E w \in Windows : Age(w)
                 \/ RunStep \/ PassRaises \/ Crash \/ UNCHANGED vars
        BY <2>4, <4>3
           DEF Repair, Age, RunStep, RunAll, PassEnds, ListBrokerExits, RowStep, Unanswered,
               SettleEntryFill, SettlePendingExit, ReconcileBrokerExit, DecomposeFill,
               PassRaises, Crash, vars
      <4> QED
        BY <4>2, <4>3, Facts DEF Next, BrokerStep, OutsideStep
    <3>2. PICK p \in DOMAIN orders : Fill(p) \/ PartlyFill(p) \/ Die(p)
      BY <3>1
    <3>3. p = o /\ o \in DOMAIN orders
      BY <2>4, <3>1, <3>2 DEF Fill, PartlyFill, Die, OrderIds
    <3>4. CASE Fill(o)
      <4>1. orders'[o] = [orders[o] EXCEPT !.status = "filled",
                              !.done = IF orders[o].done = 0 THEN now + 1 ELSE orders[o].done]
            /\ orders[o].status \in {"new", "partial"}
        BY <3>1, <3>3, <3>4 DEF Fill
      <4>2. /\ orders'[o].status = "filled" /\ orders'[o].placed = orders[o].placed
            /\ orders'[o].done = IF orders[o].done = 0 THEN now + 1 ELSE orders[o].done
        BY <2>1, <4>1 DEF Orders
      <4> QED
        BY <2>1, <2>2, <4>1, <4>2 DEF Traded
    <3>5. CASE PartlyFill(o)
      <4>1. orders'[o] = [orders[o] EXCEPT !.status = "partial", !.done = now + 1]
        BY <3>1, <3>3, <3>5 DEF PartlyFill
      <4>2. /\ orders'[o].status = "partial" /\ orders'[o].placed = orders[o].placed
            /\ orders'[o].done = now + 1
        BY <2>1, <4>1 DEF Orders
      <4> QED
        BY <2>1, <2>2, <4>2 DEF Traded
    <3>6. CASE Die(o)
      <4>1. \/ /\ orders'[o] = [orders[o] EXCEPT !.status = "canceled"]
               /\ orders[o].status = "new"
            \/ /\ orders'[o] = [orders[o] EXCEPT !.status = "lost"]
               /\ orders[o].status = "partial"
        BY <3>1, <3>3, <3>6 DEF Die
      <4>2. /\ orders'[o].placed = orders[o].placed /\ orders'[o].done = orders[o].done
            /\ \/ orders'[o].status = "canceled"
               \/ orders'[o].status = "lost" /\ orders[o].status = "partial"
        BY <2>1, <4>1 DEF Orders
      <4> QED
        BY <2>1, <4>2 DEF Traded
    <3> QED
      BY <3>2, <3>3, <3>4, <3>5, <3>6
  <2> QED
    BY <2>3, <2>4
<1>2. ASSUME NEW o \in OrderIds', o \notin OrderIds PROVE Follows(o)'
  <2>1. PICK t \in Tickers, side \in {"buy", "sell", "stop"} :
            Fresh(t, side) \in Orders /\ orders' = Append(orders, Fresh(t, side))
    BY <1>2, OrdersGrow, FreshOrder
  <2>2. orders'[o] = Fresh(t, side)
    BY <1>2, <2>1, OrderNew
  <2>3. /\ orders'[o].placed = now + 1
        /\ orders'[o].status = IF side = "stop" THEN "filled" ELSE "new"
        /\ orders'[o].done = IF side = "stop" THEN now + 1 ELSE 0
    BY <2>2 DEF Fresh
  <2>4. now + 1 \in Nat
    BY Facts
  <2> QED
    BY <2>3, <2>4 DEF Traded
<1> QED
  BY <1>1, <1>2 DEF TradesFollowOrders

\* A sell comes while an entry is held, which is settled and stays the newest
\* buy before it.
LEMMA SellsHaveEntryStep ==
    ASSUME TripInv, [Next]_vars
    PROVE  SellsHaveEntry'
<1> USE DEF TripInv
<1> SUFFICES ASSUME NEW s \in OrderIds', orders'[s].side # "buy"
             PROVE  \E o \in OrderIds' : EntryFor(o, s)'
  BY DEF SellsHaveEntry
<1>0. OrderIds = 1 .. Len(orders) /\ Len(orders) \in Nat
  BY Facts
<1>f. \A o \in OrderIds :
          /\ o \in OrderIds'
          /\ orders'[o].ticker = orders[o].ticker
          /\ orders'[o].side = orders[o].side
          /\ orders'[o].placed = orders[o].placed
          /\ ~AtWork(o) => orders'[o] = orders[o]
  BY OrdersPersist DEF Inv
<1>s. orders' \in Seq(Orders) /\ OrderIds' = 1 .. Len(orders') /\ Len(orders') \in Nat
  BY OrdersPersist, LenProperties DEF Inv, OrderIds
<1>1. CASE s \in OrderIds
  <2>1. PICK o \in OrderIds : EntryFor(o, s)
    BY <1>1, <1>f DEF SellsHaveEntry
  <2>2. orders'[o] = orders[o] /\ ~AtWork(o)' /\ Traded(o)'
    BY <1>f, <2>1 DEF EntryFor, AtWork, Traded
  <2>3. \A p \in OrderIds' : p < s => p \in OrderIds
    BY <1>0, <1>s, <1>1
  <2> QED
    BY <1>1, <1>f, <2>1, <2>2, <2>3 DEF EntryFor
<1>2. CASE s \notin OrderIds
  <2>1. PICK t \in Tickers, side \in {"sell", "stop"} :
            /\ Fresh(t, side) \in Orders /\ orders' = Append(orders, Fresh(t, side))
            /\ StopRests(t)
    <3>1. PICK t \in Tickers : Buy(t) \/ Exit(t) \/ StopFills(t)
      BY <1>2, OrdersGrow
    <3>2. ~Buy(t)
      <4> SUFFICES ASSUME Buy(t) PROVE FALSE
        OBVIOUS
      <4>1. Fresh(t, "buy").side = "buy"
        BY DEF Fresh
      <4> QED
        BY <1>2, <4>1, FreshOrder, OrderNew
    <3> QED
      BY <3>1, <3>2, FreshOrder DEF Exit, StopFills
  <2>2. /\ OrderIds' = OrderIds \cup {s} /\ \A o \in OrderIds : orders'[o] = orders[o] /\ o < s
        /\ orders'[s] = Fresh(t, side)
    <3> DEFINE n == Len(orders) + 1
    <3>1. /\ OrderIds' = OrderIds \cup {n}
          /\ \A o \in OrderIds : orders'[o] = orders[o] /\ o < n
          /\ orders'[n] = Fresh(t, side)
      BY <2>1, OrderNew
    <3>2. s = n
      BY <1>2, <3>1
    <3> QED
      BY <3>1, <3>2
  <2>3. orders'[s].ticker = t /\ orders'[s].placed = now + 1
    BY <2>2 DEF Fresh
  <2>4. PICK o \in OrderIds : Held(o) /\ orders[o].ticker = t
    BY <2>1 DEF StopRests, OrdersOf, OrderIds
  <2>5. ~AtWork(o) /\ Traded(o) /\ orders[o].side = "buy" /\ Live(o)
    BY <2>1, <2>4 DEF StopRests, Working, OrdersOf, OrderIds, AtWork, Held, Live
  <2>6. orders[o].done < now + 1
    BY Facts DEF Inv, OrderTimes
  <2>7. ASSUME NEW p \in OrderIds, orders[p].side = "buy", orders[p].ticker = t PROVE p <= o
    <3>1. ~(o < p)
      BY <2>4, <2>5, <2>7 DEF Inv, OnePosition
    <3> QED
      BY <1>0, <3>1
  <2>8. \A p \in OrderIds' : p < s => p \in OrderIds
    BY <1>s, <2>2
  <2>9. o \in OrderIds' /\ orders'[o] = orders[o] /\ ~AtWork(o)' /\ Traded(o)' /\ o < s
    BY <1>f, <2>2, <2>5 DEF AtWork, Traded
  <2> QED
    BY <2>2, <2>3, <2>4, <2>5, <2>6, <2>7, <2>8, <2>9 DEF EntryFor
<1> QED
  BY <1>1, <1>2

\* A repair is stamped with its fill and a find of pass 3 comes before the next
\* entry, so neither row is younger than a later buy.
LEMMA ExitRowsEarlyStep ==
    ASSUME TripInv, [Next]_vars
    PROVE  ExitRowsEarly'
<1> USE DEF TripInv
<1> SUFFICES ASSUME NEW r \in RowIds', NEW p \in OrderIds',
                    trades'[r].action # "BUY", orders'[p].side = "buy",
                    orders'[p].ticker = trades'[r].ticker, trades'[r].order < p
             PROVE  trades'[r].at <= orders'[p].placed
  BY DEF ExitRowsEarly
<1>f. \A o \in OrderIds :
          /\ orders'[o].ticker = orders[o].ticker
          /\ orders'[o].side = orders[o].side
          /\ orders'[o].placed = orders[o].placed
  BY OrdersPersist DEF Inv
<1>1. CASE r \in RowIds /\ p \in OrderIds
  <2>1. /\ trades'[r].ticker = trades[r].ticker /\ trades'[r].at = trades[r].at
        /\ trades'[r].order = trades[r].order
        /\ trades'[r].action = "BUY" <=> trades[r].action = "BUY"
    BY <1>1, RowsPersist
  <2> QED
    BY <1>1, <1>f, <2>1 DEF ExitRowsEarly
<1>2. CASE r \in RowIds /\ p \notin OrderIds
  <2>1. PICK t \in Tickers, side \in {"buy", "sell", "stop"} :
            Fresh(t, side) \in Orders /\ orders' = Append(orders, Fresh(t, side))
    BY <1>2, OrdersGrow, FreshOrder
  <2>2. orders'[p] = Fresh(t, side)
    BY <1>2, <2>1, OrderNew
  <2>3. orders'[p].placed = now + 1
    BY <2>2 DEF Fresh
  <2>4. trades'[r].at = trades[r].at /\ trades[r].at <= now /\ trades[r].at \in Nat /\ now \in Nat
    BY <1>2, RowsPersist, Facts DEF Inv, RowsFit
  <2> QED
    BY <2>3, <2>4
<1>3. CASE r \notin RowIds
  <2> DEFINE m == Len(trades) + 1
  <2>1. ASSUME NEW row \in Rows, trades' = Append(trades, row)
        PROVE  r = m /\ trades'[r] = row
    BY <1>3, <2>1, NewRowId
  <2>2. CASE \E t \in Tickers : Buy(t)
    <3>1. PICK t \in Tickers : Buy(t)
      BY <2>2
    <3> DEFINE row == TradeRow(t, "BUY", now + 1, Len(orders) + 1, "none", "agent")
    <3>2. row \in Rows /\ row.action = "BUY"
      <4>1. now + 1 \in Nat /\ Len(orders) + 1 \in Nat
        BY Facts
      <4> QED
        BY <4>1, NewRow DEF TradeRow
    <3>3. trades' = Append(trades, row)
      BY <3>1 DEF Buy
    <3> HIDE DEF row
    <3> QED
      BY <2>1, <3>2, <3>3
  <2>3. CASE \E t \in Tickers : Exit(t)
    <3>1. PICK t \in Tickers : Exit(t)
      BY <2>3
    <3> DEFINE n == Len(orders) + 1
               row == TradeRow(t, "SELL", now + 1, n, "PENDING_FILL", "agent")
    <3>2. row \in Rows /\ row.order = n /\ n \in Nat
      <4>1. now + 1 \in Nat /\ Len(orders) + 1 \in Nat
        BY Facts
      <4> QED
        BY <4>1, NewRow DEF TradeRow
    <3>3. trades' = Append(trades, row)
      BY <3>1 DEF Exit
    <3> HIDE DEF row
    <3>4. trades'[r].order = n
      BY <2>1, <3>2, <3>3
    <3>5. \A o \in OrderIds' : o <= n
      <4>1. OrderIds' = OrderIds \cup {n} /\ \A o \in OrderIds : o < n /\ o \in Nat
        BY <3>1, FreshOrder, OrderNew, Facts
      <4> QED
        BY <3>2, <4>1
    <3>6. p \in Nat
      BY <3>2, <3>1, FreshOrder, OrderNew, Facts
    <3> QED
      BY <3>2, <3>4, <3>5, <3>6
  <2>4. CASE \E o \in OrderIds : Repair(o)
    <3>1. PICK o \in OrderIds : Repair(o)
      BY <2>4
    <3>b. PICK by \in ByHand :
              trades' = Append(trades, TradeRow(orders[o].ticker, "SELL", orders[o].done, o,
                                                "FILLED", by))
      BY <3>1 DEF Repair
    <3> DEFINE row == TradeRow(orders[o].ticker, "SELL", orders[o].done, o, "FILLED", by)
    <3>2. row \in Rows
      BY Facts, StateFacts, NewRow DEF Inv, ByHand
    <3>3. row.at = orders[o].done /\ row.order = o /\ row.ticker = orders[o].ticker
      BY DEF TradeRow
    <3>4. trades' = Append(trades, row) /\ orders' = orders
      BY <3>1, <3>b DEF Repair
    <3> HIDE DEF row
    <3>5. trades'[r] = row /\ OrderIds' = OrderIds
      BY <2>1, <3>2, <3>4 DEF OrderIds
    <3>6. orders[o].done < orders[p].placed
      BY <3>3, <3>4, <3>5 DEF Inv, OnePosition
    <3> QED
      BY <3>3, <3>4, <3>5, <3>6, Facts
  <2>5. CASE \E q \in RowIds : ReconcileBrokerExit(q)
    <3>1. PICK q \in RowIds : ReconcileBrokerExit(q)
      BY <2>5
    <3>2. PICK s \in RecentFilledSells(trades[q].ticker, trades[q].at) :
              trades' = Append(trades, TradeRow(trades[q].ticker, "SELL", now + 1, s,
                                                "FILLED", "pass"))
      BY <3>1 DEF ReconcileBrokerExit
    <3> DEFINE row == TradeRow(trades[q].ticker, "SELL", now + 1, s, "FILLED", "pass")
    <3>3. /\ s \in OrderIds /\ orders[s].placed > trades[q].at
          /\ StillOpen(q)
      BY <3>1 DEF RecentFilledSells, Sells, OrdersOf, OrderIds, ReconcileBrokerExit, Inv,
             TodoFits
    <3>4. row \in Rows
      <4>1. trades[q].ticker \in Tickers /\ s \in Nat /\ now + 1 \in Nat
        BY <3>3, Facts DEF Rows
      <4> QED
        BY <4>1, NewRow
    <3>5. row.order = s /\ row.ticker = trades[q].ticker
      BY DEF TradeRow
    <3> HIDE DEF row
    <3>6. trades'[r] = row /\ orders' = orders /\ OrderIds' = OrderIds
      BY <2>1, <3>1, <3>2, <3>4 DEF OrderIds, ReconcileBrokerExit, row
    \* A buy after the sell would have a row younger than the entry of pass 3.
    <3>7. PICK e \in RowIds : trades[e].order = p
      BY <3>6 DEF OrdersJournaled
    <3>8. /\ trades[e].ticker = orders[p].ticker /\ trades[e].at = orders[p].placed
          /\ trades[e].by # "barged"
      BY <3>6, <3>7 DEF Inv, RowsFit
    <3>9. orders[p].placed <= trades[q].at
      BY <3>3, <3>5, <3>6, <3>7, <3>8 DEF StillOpen
    <3>10. orders[s].placed < orders[p].placed
      BY <3>3, <3>5, <3>6 DEF Inv, OrderTimes
    <3> QED
      BY <3>3, <3>6, <3>9, <3>10, Facts
  <2> QED
    BY <1>3, <2>2, <2>3, <2>4, <2>5, TableGrows
<1> QED
  BY <1>1, <1>2, <1>3

----------------------------------------------------------------------------
\* TripInv holds throughout every run.
LEMMA TripInvariance == Spec => []TripInv
<1>1. Init => TripInv
  <2> SUFFICES ASSUME Init PROVE TripInv
    OBVIOUS
  <2>1. OrderIds = {} /\ RowIds = {}
    BY EmptySeq, LenProperties DEF Init, OrderIds, RowIds
  <2> QED
    BY <2>1, InitInv
       DEF TripInv, OrdersJournaled, TradesFollowOrders, SellsHaveEntry, ExitRowsEarly
<1>2. TripInv /\ [Next]_vars => TripInv'
  <2>1. Inv /\ [Next]_vars => Inv'
    BY TypeStep, OrderTimesStep, OnePositionStep, RowsFitStep, LiveEntryStep, TodoStep DEF Inv
  <2> QED
    BY <2>1, OrdersJournaledStep, TradesFollowStep, SellsHaveEntryStep, ExitRowsEarlyStep
       DEF TripInv
<1> QED
  BY <1>1, <1>2, PTL DEF Spec

\* A realized exit is paired with the entry whose shares it sold and no other,
\* however late its row was written (get_closed_round_trips).
THEOREM TripsPaired == Spec => []TripsPairTheirEntry
<1>1. TripInv => TripsPairTheirEntry
  <2> USE DEF TripInv
  <2> SUFFICES ASSUME TripInv, NEW r \in ClosedExits(trades)
               PROVE  {trades[q].order : q \in EntryOf(trades, r)} = SoldBy(trades[r].order)
    BY DEF TripsPairTheirEntry
  <2> DEFINE s == trades[r].order
  <2>1. /\ r \in RowIds /\ trades[r].action = "SELL" /\ trades[r].status = "FILLED"
    BY DEF ClosedExits, RowIds, Inv, RowsFit
  <2>2. /\ s \in OrderIds /\ orders[s].status = "filled" /\ orders[s].side # "buy"
        /\ orders[s].ticker = trades[r].ticker /\ orders[s].placed <= trades[r].at
    BY <2>1, Facts DEF Inv, RowsFit, VerdictsAreTheBrokers, RowIds
  <2>3. PICK o \in OrderIds : EntryFor(o, s)
    BY <2>2 DEF SellsHaveEntry
  <2>4. orders[s].placed <= orders[s].done
    BY <2>2 DEF TradesFollowOrders, Traded
  <2> HIDE DEF s
  <2>5. SoldBy(s) = {o}
    <3>1. ASSUME NEW p \in OrderIds, orders[p].ticker = orders[s].ticker,
                 orders[p].side = "buy", Traded(p), orders[p].done < orders[s].done
          PROVE  p = o \/ orders[p].done < orders[o].done
      <4>1. orders[p].placed <= orders[p].done
        BY <3>1 DEF TradesFollowOrders
      <4>2. ~(s < p)
        <5> SUFFICES ASSUME s < p PROVE FALSE
          OBVIOUS
        <5>1. orders[s].done < orders[p].placed
          BY <2>2, <3>1 DEF Inv, OnePosition
        <5> QED
          BY <2>2, <3>1, <4>1, <5>1, Facts
      <4>3. p < s
        BY <2>2, <3>1, <4>2, Facts
      <4>4. p <= o
        BY <2>3, <3>1, <4>3 DEF EntryFor
      <4>5. CASE p < o
        <5>1. orders[p].done < orders[o].placed
          BY <2>3, <3>1, <4>5 DEF Inv, OnePosition, EntryFor
        <5>2. orders[o].placed <= orders[o].done
          BY <2>3 DEF TradesFollowOrders, EntryFor
        <5> QED
          BY <5>1, <5>2, <2>3, <3>1, Facts
      <4> QED
        BY <4>4, <4>5, <2>3, <3>1, Facts
    <3>2. o \in OrdersOf(orders[s].ticker) /\ orders[o].done < orders[s].done
      BY <2>2, <2>3, <2>4, Facts DEF EntryFor, OrdersOf, OrderIds
    <3>3. o \in SoldBy(s)
      <4>1. ASSUME NEW p \in OrdersOf(orders[s].ticker),
                   orders[p].side = "buy", Traded(p), orders[p].done < orders[s].done
            PROVE  orders[p].done <= orders[o].done
        <5>1. p \in OrderIds /\ orders[p].ticker = orders[s].ticker
          BY DEF OrdersOf, OrderIds
        <5> QED
          BY <3>1, <4>1, <5>1, <2>3, Facts
      <4> QED
        BY <2>3, <3>2, <4>1 DEF SoldBy, EntryFor
    <3>4. ASSUME NEW x \in SoldBy(s) PROVE x = o
      <4>1. /\ x \in OrderIds /\ orders[x].ticker = orders[s].ticker /\ orders[x].side = "buy"
            /\ Traded(x) /\ orders[x].done < orders[s].done
            /\ orders[o].done <= orders[x].done
        BY <2>3, <3>2, <3>4 DEF SoldBy, OrdersOf, OrderIds, EntryFor
      <4> QED
        BY <3>1, <4>1, <2>3, Facts
    <3> QED
      BY <3>3, <3>4
  <2>6. PICK e \in RowIds : trades[e].order = o
    BY <2>3 DEF OrdersJournaled, EntryFor
  <2>7. ASSUME NEW q \in EntriesBefore(trades, r)
        PROVE  /\ q \in RowIds /\ trades[q].order \in OrderIds /\ trades[q].order <= o
               /\ trades[q].at = orders[trades[q].order].placed
               /\ trades[q].at <= orders[o].placed
    <3> DEFINE x == trades[q].order
    <3>1. /\ q \in RowIds /\ trades[q].action = "BUY" /\ trades[q].ticker = trades[r].ticker
          /\ trades[q].at < trades[r].at
      BY DEF EntriesBefore, RowIds
    <3>2. /\ x \in OrderIds /\ orders[x].side = "buy" /\ orders[x].ticker = orders[s].ticker
          /\ trades[q].at = orders[x].placed
      BY <2>2, <3>1, Facts DEF Inv, RowsFit
    <3> HIDE DEF x
    <3>3. ~(s < x)
      <4> SUFFICES ASSUME s < x PROVE FALSE
        OBVIOUS
      <4>1. trades[r].at <= orders[x].placed
        BY <2>1, <2>2, <3>2 DEF ExitRowsEarly, s
      <4> QED
        BY <2>1, <3>1, <3>2, <4>1, Facts
    <3>4. x < s
      BY <2>2, <3>2, <3>3, Facts
    <3>5. x <= o
      BY <2>3, <3>2, <3>4 DEF EntryFor
    <3>6. orders[x].placed <= orders[o].placed
      <4>1. CASE x < o
        BY <2>3, <3>2, <4>1, Facts DEF Inv, OrderTimes
      <4>2. CASE x = o
        BY <2>3, <4>2, Facts
      <4> QED
        BY <2>3, <3>2, <3>5, <4>1, <4>2, Facts
    <3> QED
      BY <3>1, <3>2, <3>5, <3>6 DEF x
  <2>8. e \in EntriesBefore(trades, r) /\ trades[e].at = orders[o].placed
    <3>1. /\ trades[e].action = "BUY" /\ trades[e].ticker = trades[r].ticker
          /\ trades[e].at = orders[o].placed
      BY <2>2, <2>3, <2>6 DEF Inv, RowsFit, EntryFor
    <3>2. o < s /\ orders[o].placed < orders[s].placed
      BY <2>2, <2>3 DEF EntryFor, Inv, OrderTimes
    <3>3. trades[e].at < trades[r].at
      BY <2>1, <2>2, <2>3, <3>1, <3>2, Facts
    <3> QED
      BY <3>1, <3>3 DEF EntriesBefore, RowIds
  <2>9. e \in EntryOf(trades, r)
    BY <2>7, <2>8 DEF EntryOf
  <2>10. ASSUME NEW q \in EntryOf(trades, r) PROVE trades[q].order = o
    <3>1. q \in EntriesBefore(trades, r) /\ trades[e].at <= trades[q].at
      BY <2>8 DEF EntryOf
    <3>2. ~(trades[q].order < o)
      <4> SUFFICES ASSUME trades[q].order < o PROVE FALSE
        OBVIOUS
      <4>1. orders[trades[q].order].placed < orders[o].placed
        BY <2>3, <2>7, <3>1 DEF Inv, OrderTimes
      <4> QED
        BY <2>3, <2>7, <2>8, <3>1, <4>1, Facts
    <3> QED
      BY <2>3, <2>7, <3>1, <3>2, Facts
  <2> QED
    BY <2>5, <2>6, <2>9, <2>10 DEF s
<1> QED
  BY <1>1, TripInvariance, PTL

----------------------------------------------------------------------------
(***************************************************************************)
(* An exit the journal has missed stays in pass 3's view.  This is so for  *)
(* an agent that does not buy what the journal calls open, and for entries *)
(* that fill whole: a re-entry's row hides the earlier entry, and one      *)
(* cancelled after a partial fill is called unfilled.                      *)
(***************************************************************************)

FillsWhole == \A o \in OrderIds : orders[o].status \notin {"partial", "lost"}

\* Row r is the entry stop o has closed, and nothing has happened to its ticker
\* since.
InView(o, r) ==
    /\ trades[r].ticker = orders[o].ticker
    /\ trades[r].action = "BUY" /\ trades[r].status \in {"none", "FILLED"}
    /\ orders[trades[r].order].status = "filled"
    /\ Latest(trades, r)
    /\ trades[r].at < orders[o].placed
    /\ \A q \in OrderIds :
           orders[q].ticker = orders[o].ticker =>
               /\ q <= o /\ ~Live(q)
               /\ orders[q].side # "buy" /\ orders[q].placed > trades[r].at => q = o

MissedInView == \A o \in OrderIds : Unjournaled(o) => \E r \in RowIds : InView(o, r)

ViewInv == TripInv /\ FillsWhole /\ MissedInView

\* Where no order fills in part, none is left with a part.
LEMMA FillsWholeStep ==
    ASSUME Inv, FillsWhole, [Next]_vars, "partial" \notin Faults
    PROVE  FillsWhole'
<1>1. orders \in Seq(Orders) /\ \A o \in OrderIds : orders[o] \in Orders
  BY Facts
<1>2. CASE \E p \in OrderIds : Fill(p) \/ PartlyFill(p) \/ Die(p)
  <2>1. PICK o \in OrderIds : Fill(o) \/ PartlyFill(o) \/ Die(o)
    BY <1>2
  <2>2. ~PartlyFill(o) /\ orders[o].status # "partial"
    BY DEF PartlyFill, FillsWhole
  <2>3. orders[o] \in Orders /\ o \in DOMAIN orders
    BY <1>1 DEF OrderIds
  <2>4. PICK f : orders' = [orders EXCEPT ![o] = f] /\ f.status \in {"filled", "canceled"}
    <3>1. CASE Fill(o)
      <4> DEFINE fate == [orders[o] EXCEPT !.status = "filled",
                                           !.done = IF @ = 0 THEN now + 1 ELSE @]
      <4>1. orders' = [orders EXCEPT ![o] = fate]
        BY <2>3, <3>1 DEF Fill
      <4>2. fate.status = "filled"
        BY <2>3 DEF Orders
      <4> QED
        BY <4>1, <4>2
    <3>2. CASE Die(o)
      <4> DEFINE fate == [orders[o] EXCEPT !.status = "canceled"]
      <4>1. orders' = [orders EXCEPT ![o] = fate]
        BY <2>2, <2>3, <3>2 DEF Die
      <4>2. fate.status = "canceled"
        BY <2>3 DEF Orders
      <4> QED
        BY <4>1, <4>2
    <3> QED
      BY <2>1, <2>2, <3>1, <3>2
  <2>5. /\ OrderIds' = OrderIds /\ orders'[o] = f
        /\ \A q \in OrderIds : q # o => orders'[q] = orders[q]
    BY <1>1, <2>3, <2>4 DEF OrderIds
  <2> QED
    BY <2>4, <2>5 DEF FillsWhole
<1>3. CASE OrderIds' = OrderIds /\ UNCHANGED orders
  BY <1>3 DEF FillsWhole
<1>4. CASE \E t \in Tickers : Buy(t) \/ Exit(t) \/ StopFills(t)
  <2>1. PICK t \in Tickers, side \in {"buy", "sell", "stop"} :
            orders' = Append(orders, Fresh(t, side)) /\ Fresh(t, side) \in Orders
    BY <1>4, FreshOrder
  <2>2. Fresh(t, side).status \in {"new", "filled"}
    BY DEF Fresh
  <2>3. \A o \in OrderIds' :
            (o \in OrderIds /\ orders'[o] = orders[o]) \/ orders'[o] = Fresh(t, side)
    <3> DEFINE n == Len(orders) + 1
    <3>1. /\ OrderIds' = OrderIds \cup {n}
          /\ \A o \in OrderIds : orders'[o] = orders[o]
          /\ orders'[n] = Fresh(t, side)
      BY <2>1, OrderNew
    <3> QED
      BY <3>1
  <2> QED
    BY <2>2, <2>3 DEF FillsWhole
<1>5. CASE \/ \E o \in DOMAIN orders : Repair(o)
           \/ \E w \in Windows : Age(w)
           \/ RunStep \/ PassRaises \/ Crash \/ UNCHANGED vars
  BY <1>3, <1>5
     DEF Repair, Age, RunStep, RunAll, PassEnds, ListBrokerExits, RowStep, Unanswered,
         SettleEntryFill, SettlePendingExit, ReconcileBrokerExit, DecomposeFill, PassRaises,
         Crash, vars, OrderIds
<1> QED
  BY <1>2, <1>4, <1>5 DEF Next, BrokerStep, OutsideStep, OrderIds

\* While a stop is missed nobody trades its ticker.
LEMMA TickerRests ==
    ASSUME Inv, [Next]_vars, "reenter" \notin Habits,
           NEW o \in OrderIds, NEW r \in RowIds, InView(o, r),
           NEW q \in OrderIds', orders'[q].ticker = orders[o].ticker
    PROVE  q \in OrderIds
<1> SUFFICES ASSUME q \notin OrderIds PROVE FALSE
  OBVIOUS
<1>1. PICK t \in Tickers, side \in {"buy", "sell", "stop"} :
          /\ Buy(t) \/ Exit(t) \/ StopFills(t)
          /\ orders' = Append(orders, Fresh(t, side)) /\ Fresh(t, side) \in Orders
  BY OrdersGrow, FreshOrder
<1>2. t = orders[o].ticker
  <2>1. orders'[q] = Fresh(t, side)
    BY <1>1, OrderNew
  <2> QED
    BY <2>1 DEF Fresh
<1>3. ~Buy(t)
  <2>1. r \in UnclosedEntries(trades) \cup PendingBuys(trades, 0)
    BY Facts DEF InView, UnclosedEntries, PendingBuys, RowIds
  <2>2. CalledOpen(t)
    BY <1>2, <2>1 DEF CalledOpen, InView
  <2> QED
    BY <2>2 DEF Buy
<1>4. ~StopRests(t)
  BY <1>2 DEF InView, StopRests, OrdersOf, OrderIds, Live
<1> QED
  BY <1>1, <1>3, <1>4 DEF Exit, StopFills

\* A sell older than an entry of its ticker was done before it.
LEMMA OlderSell ==
    ASSUME Inv, NEW r \in RowIds, trades[r].action = "BUY",
           NEW s \in OrderIds, orders[s].ticker = trades[r].ticker, orders[s].side # "buy",
           ~(orders[s].placed > trades[r].at)
    PROVE  orders[s].done <= trades[r].at
<1>1. PICK e \in OrderIds :
          /\ orders[e].ticker = trades[r].ticker
          /\ orders[e].side = "buy" /\ orders[e].placed = trades[r].at
  BY Facts DEF Inv, RowsFit
<1>2. ~(e < s) /\ e # s
  BY <1>1, Facts DEF Inv, OrderTimes
<1>3. s < e
  BY <1>2, Facts
<1>4. orders[s].done < orders[e].placed
  BY <1>1, <1>3 DEF Inv, OnePosition
<1> QED
  BY <1>1, <1>4, Facts

\* A stop still missed is in view as before.
LEMMA ViewKept ==
    ASSUME ViewInv, [Next]_vars, "reenter" \notin Habits,
           NEW o \in OrderIds, Unjournaled(o)', NEW r \in RowIds, InView(o, r), Unjournaled(o)
    PROVE  InView(o, r)'
<1> USE DEF ViewInv, TripInv
<1> DEFINE t == orders[o].ticker
<1>1. PICK e \in OrderIds : e = trades[r].order
  BY Facts
<1>2. orders'[e] = orders[e] /\ orders[e].status = "filled"
  BY <1>1, OrdersPersist DEF InView, AtWork, Inv
<1>3. /\ r \in RowIds' /\ trades'[r].ticker = t /\ trades'[r].at = trades[r].at
      /\ trades'[r].order = e /\ trades'[r].action = "BUY"
  BY <1>1, RowsPersist DEF InView
<1>4. trades'[r].status \in {"none", "FILLED"}
  BY <1>1, <1>2, <1>3, RowsPersist DEF Verdicts
<1>5. orders'[o].ticker = t /\ orders'[o].placed = orders[o].placed
  BY OrdersPersist DEF Inv
<1>6. ASSUME NEW q \in OrderIds', orders'[q].ticker = t
      PROVE  /\ q \in OrderIds /\ q <= o /\ ~Live(q)'
             /\ orders'[q].side # "buy" /\ orders'[q].placed > trades'[r].at => q = o
  <2>1. q \in OrderIds
    BY <1>6, TickerRests
  <2>2. /\ orders[q].ticker = t /\ orders'[q].side = orders[q].side
        /\ orders'[q].placed = orders[q].placed
    BY <1>6, <2>1, OrdersPersist DEF Inv
  <2>3. q <= o /\ ~Live(q)
        /\ (orders[q].side # "buy" /\ orders[q].placed > trades[r].at => q = o)
    BY <2>1, <2>2 DEF InView
  <2> QED
    BY <1>3, <2>1, <2>2, <2>3, OverStaysOver DEF Inv
<1>7. ASSUME NEW q \in RowIds', trades'[q].ticker = t PROVE trades'[q].at <= trades[r].at
  <2>1. CASE q \in RowIds
    BY <1>7, <2>1, RowsPersist DEF InView, Latest, RowIds
  \* A row appended about the ticker would be about the stop itself, or about an
  \* older one that an operator had seen missing.
  <2>2. CASE q \notin RowIds
    <3>1. ASSUME NEW row \in Rows, trades' = Append(trades, row)
          PROVE  trades'[q] = row
      BY <2>2, <3>1, NewRowId
    <3>2. ASSUME NEW s \in OrderIds, trades'[q].order = s PROVE s # o
      BY <2>2, <3>2 DEF Unjournaled, Journaled, RowIds
    <3>3. ASSUME NEW u \in Tickers, Buy(u) \/ Exit(u) PROVE FALSE
      <4> DEFINE n == Len(orders) + 1
      <4>1. PICK side \in {"buy", "sell"} :
                orders' = Append(orders, Fresh(u, side)) /\ Fresh(u, side) \in Orders
        BY <3>3, FreshOrder
      <4>2. n \in OrderIds' /\ n \notin OrderIds /\ orders'[n].ticker = u
        BY <4>1, OrderNew DEF Fresh
      <4>3. u = t
        <5>1. PICK action \in {"BUY", "SELL"}, status \in {"none", "PENDING_FILL"} :
                  trades' = Append(trades, TradeRow(u, action, now + 1, n, status, "agent"))
          BY <3>3 DEF Buy, Exit
        <5>2. TradeRow(u, action, now + 1, n, status, "agent") \in Rows
          <6>1. n \in Nat /\ now + 1 \in Nat
            BY Facts
          <6> HIDE DEF n
          <6> QED
            BY <6>1, NewRow
        <5>3. trades'[q] = TradeRow(u, action, now + 1, n, status, "agent")
          BY <3>1, <5>1, <5>2
        <5>4. trades'[q].ticker = u
          BY <5>3 DEF TradeRow
        <5> QED
          BY <1>7, <5>4
      <4> QED
        BY <1>6, <4>2, <4>3
    <3>4. CASE \E s \in OrderIds : Repair(s)
      <4>1. PICK s \in OrderIds : Repair(s)
        BY <3>4
      <4>2. PICK by \in ByHand :
                trades' = Append(trades, TradeRow(orders[s].ticker, "SELL", orders[s].done, s,
                                                  "FILLED", by))
        BY <4>1 DEF Repair
      <4>3. TradeRow(orders[s].ticker, "SELL", orders[s].done, s, "FILLED", by) \in Rows
        BY StateFacts, Facts, NewRow DEF Inv, ByHand
      <4>4. /\ trades'[q].ticker = orders[s].ticker /\ trades'[q].at = orders[s].done
            /\ trades'[q].order = s
        <5>1. trades'[q] = TradeRow(orders[s].ticker, "SELL", orders[s].done, s, "FILLED", by)
          BY <3>1, <4>2, <4>3
        <5> QED
          BY <5>1 DEF TradeRow
      <4>5. orders[s].ticker = t /\ orders[s].side = "stop" /\ s # o
        BY <1>7, <3>2, <4>1, <4>4 DEF Repair
      <4>6. ~(orders[s].placed > trades[r].at)
        BY <4>5 DEF InView
      <4> QED
        BY <4>4, <4>5, <4>6, OlderSell DEF InView
    <3>5. CASE \E f \in RowIds : ReconcileBrokerExit(f)
      <4>1. PICK f \in RowIds : ReconcileBrokerExit(f)
        BY <3>5
      <4>2. PICK s \in RecentFilledSells(trades[f].ticker, trades[f].at) :
                trades' = Append(trades, TradeRow(trades[f].ticker, "SELL", now + 1, s,
                                                  "FILLED", "pass"))
        BY <4>1 DEF ReconcileBrokerExit
      <4>3. /\ s \in OrderIds /\ orders[s].ticker = trades[f].ticker /\ orders[s].side # "buy"
            /\ \A p \in Sells(trades[f].ticker) :
                   orders[p].status = "filled" => orders[p].done <= orders[s].done
        BY DEF RecentFilledSells, Sells, OrdersOf, OrderIds
      <4>4. TradeRow(trades[f].ticker, "SELL", now + 1, s, "FILLED", "pass") \in Rows
        <5>1. trades[f].ticker \in Tickers /\ s \in Nat /\ now + 1 \in Nat
          BY <4>3, Facts DEF Rows
        <5> QED
          BY <5>1, NewRow
      <4>5. trades'[q].ticker = trades[f].ticker /\ trades'[q].order = s
        <5>1. trades'[q] = TradeRow(trades[f].ticker, "SELL", now + 1, s, "FILLED", "pass")
          BY <3>1, <4>2, <4>4
        <5> QED
          BY <5>1 DEF TradeRow
      <4>6. trades[f].ticker = t /\ s # o
        BY <1>7, <3>2, <4>3, <4>5
      <4>7. ~(orders[s].placed > trades[r].at)
        BY <4>3, <4>6 DEF InView
      <4>8. orders[s].done <= trades[r].at
        BY <4>3, <4>6, <4>7, OlderSell DEF InView
      <4>9. orders[o].done <= orders[s].done
        BY <4>3, <4>6 DEF Unjournaled, Inv, OrderTimes, Sells, OrdersOf, OrderIds
      <4>10. trades[r].at < orders[o].placed /\ orders[o].placed <= orders[o].done
        BY DEF InView, Unjournaled, Inv, OrderTimes, OrderIds
      <4> QED
        BY <4>3, <4>8, <4>9, <4>10, Facts
    <3> QED
      BY <2>2, <3>3, <3>4, <3>5, TableGrows
  <2> QED
    BY <2>1, <2>2
<1> HIDE DEF t
<1>8. Latest(trades, r)'
  BY <1>3, <1>7 DEF Latest, RowIds
<1> QED
  BY <1>2, <1>3, <1>4, <1>5, <1>6, <1>8 DEF InView, t

\* A stop that has just filled has closed the newest entry of its ticker.
LEMMA ViewOpens ==
    ASSUME ViewInv, [Next]_vars, NEW t \in Tickers, StopFills(t),
           NEW n, n = Len(orders) + 1
    PROVE  \E r \in RowIds' : InView(n, r)'
<1> USE DEF ViewInv, TripInv
<1>1. /\ orders' = Append(orders, Fresh(t, "stop")) /\ Fresh(t, "stop") \in Orders
      /\ trades' = trades /\ now' = now + 1
  BY FreshOrder DEF StopFills, Stamp
<1>2. /\ OrderIds' = OrderIds \cup {n} /\ n \notin OrderIds /\ n \in Nat
      /\ \A o \in OrderIds : orders'[o] = orders[o] /\ o < n
      /\ orders'[n] = Fresh(t, "stop")
  BY <1>1, OrderNew
<1>3. /\ orders'[n].ticker = t /\ orders'[n].side = "stop" /\ orders'[n].status = "filled"
      /\ orders'[n].placed = now + 1 /\ orders'[n].done = now + 1
  BY <1>2 DEF Fresh
<1>4. PICK e \in OrderIds :
          /\ orders[e].ticker = t /\ Held(e)
          /\ \A s \in Sells(t) : ~(orders[s].placed > orders[e].placed)
  BY DEF StopFills, StopRests, OrdersOf, OrderIds
<1>5. orders[e].side = "buy" /\ orders[e].status = "filled"
  BY <1>4 DEF Held, Traded, FillsWhole
<1>6. PICK r \in RowIds : trades[r].order = e
  BY <1>5 DEF OrdersJournaled
<1>7. /\ trades[r].ticker = t /\ trades[r].action = "BUY"
      /\ trades[r].at = orders[e].placed /\ trades[r].at <= now
  BY <1>4, <1>5, <1>6 DEF Inv, RowsFit
<1>8. trades[r].status \in {"none", "FILLED"}
  <2>1. <<trades[r].action, trades[r].status>> \in Verdicts
    BY DEF Inv, TypeOK, RowIds
  <2>2. trades[r].status # "UNFILLED"
    BY <1>5, <1>6 DEF Inv, VerdictsAreTheBrokers, RowIds
  <2> QED
    BY <1>7, <2>1, <2>2 DEF Verdicts
<1>9. ASSUME NEW s \in Sells(t) PROVE orders[s].placed < orders[e].placed
  <2>1. s \in OrderIds /\ s # e /\ ~(orders[s].placed > orders[e].placed)
    BY <1>4, <1>5 DEF Sells, OrdersOf, OrderIds
  <2>2. ~(e < s)
    BY <2>1, Facts DEF Inv, OrderTimes
  <2>3. s < e
    BY <2>1, <2>2, Facts
  <2> QED
    BY <2>1, <2>3 DEF Inv, OrderTimes
<1>10. Latest(trades, r)
  BY <1>4, <1>6, <1>7, <1>9 DEF Inv, LiveEntryLatest, Live
<1>11. ASSUME NEW q \in OrderIds', orders'[q].ticker = t
       PROVE  /\ q <= n /\ ~Live(q)'
              /\ orders'[q].side # "buy" /\ orders'[q].placed > trades[r].at => q = n
  <2>1. CASE q = n
    BY <1>2, <1>3, <2>1 DEF Live, AtWork, Held
  <2>2. CASE q \in OrderIds
    <3>1. orders'[q] = orders[q] /\ orders[q].ticker = t /\ q < n /\ q \in Nat
      BY <1>2, <1>11, <2>2, Facts
    <3>2. ~AtWork(q)'
      BY <2>2, <3>1 DEF StopFills, StopRests, Working, OrdersOf, OrderIds, AtWork
    <3>3. ~Held(q)'
      <4>1. n \in Sells(t)' /\ Traded(n)'
        BY <1>2, <1>3 DEF Sells, OrdersOf, OrderIds, Traded
      <4>2. orders[q].done <= now /\ orders[q].done \in Nat /\ now \in Nat
        BY <2>2, Facts DEF Inv, OrderTimes
      <4>3. orders'[n].done > orders'[q].done
        BY <1>3, <3>1, <4>2
      <4> QED
        BY <3>1, <4>1, <4>3 DEF Held
    <3>4. ~(orders[q].side # "buy" /\ orders[q].placed > trades[r].at)
      <4> SUFFICES ASSUME orders[q].side # "buy" PROVE ~(orders[q].placed > trades[r].at)
        OBVIOUS
      <4>1. orders[q].placed < orders[e].placed
        BY <1>9, <2>2, <3>1 DEF Sells, OrdersOf, OrderIds
      <4> QED
        BY <1>7, <2>2, <4>1, Facts
    <3> QED
      BY <1>2, <3>1, <3>2, <3>3, <3>4 DEF Live
  <2> QED
    BY <1>2, <2>1, <2>2
<1>12. trades[r].at < now + 1 /\ r \in RowIds'
  BY <1>1, <1>7, Facts DEF RowIds
<1>13. InView(n, r)'
  <2>1. Latest(trades, r)'
    BY <1>1, <1>10 DEF Latest
  <2>2. orders'[trades'[r].order].status = "filled"
    BY <1>1, <1>2, <1>5, <1>6
  <2> QED
    BY <1>1, <1>3, <1>7, <1>8, <1>11, <1>12, <2>1, <2>2 DEF InView
<1> QED
  BY <1>12, <1>13

\* Missed exits are in view after every step.
LEMMA MissedInViewStep ==
    ASSUME ViewInv, [Next]_vars, "reenter" \notin Habits
    PROVE  MissedInView'
<1> USE DEF ViewInv, TripInv
<1> SUFFICES ASSUME NEW o \in OrderIds', Unjournaled(o)'
             PROVE  \E r \in RowIds' : InView(o, r)'
  BY DEF MissedInView
<1>1. CASE o \in OrderIds
  <2>1. Unjournaled(o)
    <3>1. orders[o].side = "stop"
      BY <1>1, OrdersPersist DEF Unjournaled, Inv
    <3>2. ~Journaled(o)
      <4>1. \A q \in RowIds : q \in RowIds' /\ trades'[q].order = trades[q].order
        BY RowsPersist
      <4> QED
        BY <4>1 DEF Unjournaled, Journaled, RowIds
    <3> QED
      BY <1>1, <3>1, <3>2 DEF Unjournaled, OrderIds
  <2>2. PICK r \in RowIds : InView(o, r)
    BY <1>1, <2>1 DEF MissedInView
  <2> QED
    BY <1>1, <2>1, <2>2, ViewKept, RowsPersist
<1>2. CASE o \notin OrderIds
  <2>1. PICK n : n = Len(orders) + 1
    OBVIOUS
  <2>2. PICK t \in Tickers, side \in {"buy", "sell", "stop"} :
            /\ Buy(t) \/ Exit(t) \/ StopFills(t)
            /\ StopFills(t) \/ side # "stop"
            /\ orders' = Append(orders, Fresh(t, side)) /\ Fresh(t, side) \in Orders
    BY <1>2, OrdersGrow, FreshOrder
  <2>3. o = n /\ orders'[o] = Fresh(t, side)
    BY <1>2, <2>1, <2>2, OrderNew
  <2>4. side = "stop"
    BY <2>3 DEF Unjournaled, Fresh
  <2> QED
    BY <2>1, <2>2, <2>3, <2>4, ViewOpens
<1> QED
  BY <1>1, <1>2

\* What is in view is what pass 3 finds, and all it finds.
LEMMA InViewIsFound ==
    ASSUME ViewInv, NEW o \in OrderIds, Unjournaled(o), NEW r \in RowIds, InView(o, r)
    PROVE  /\ r \in UnclosedEntries(trades) \cup PendingBuys(trades, 0)
           /\ RecentFilledSells(trades[r].ticker, trades[r].at) = {o}
<1> USE DEF ViewInv, TripInv
<1>1. r \in UnclosedEntries(trades) \cup PendingBuys(trades, 0)
  BY Facts DEF InView, UnclosedEntries, PendingBuys, RowIds
<1> DEFINE t == trades[r].ticker
<1>2. /\ orders[o].ticker = t /\ orders[o].side = "stop" /\ orders[o].status = "filled"
      /\ orders[o].placed > trades[r].at /\ orders[o].placed <= orders[o].done
  BY Facts DEF InView, Unjournaled, Inv, OrderTimes
<1>3. PICK e \in OrderIds :
          /\ trades[r].order = e /\ orders[e].ticker = t
          /\ orders[e].side = "buy" /\ orders[e].placed = trades[r].at
  BY Facts DEF InView, Inv, RowsFit
<1>4. ASSUME NEW q \in Sells(t), orders[q].status = "filled"
      PROVE  orders[q].done <= orders[o].done
  <2>1. q \in OrderIds /\ orders[q].ticker = t /\ orders[q].side # "buy"
    BY DEF Sells, OrdersOf, OrderIds
  <2>2. CASE orders[q].placed > trades[r].at
    <3>1. q = o
      BY <1>2, <2>1, <2>2 DEF InView
    <3> QED
      BY <3>1, Facts
  <2>3. CASE ~(orders[q].placed > trades[r].at)
    <3>1. ~(e < q) /\ e # q
      BY <1>3, <2>1, <2>3, Facts DEF Inv, OrderTimes
    <3>2. q < e
      BY <2>1, <3>1, Facts
    <3>3. orders[q].done < orders[e].placed
      BY <1>3, <2>1, <3>2 DEF Inv, OnePosition
    <3> QED
      BY <1>2, <1>3, <2>1, <3>3, Facts
  <2> QED
    BY <2>2, <2>3
<1>5. o \in Sells(t)
  BY <1>2 DEF Sells, OrdersOf, OrderIds
<1>6. ASSUME NEW q \in RecentFilledSells(t, trades[r].at) PROVE q = o
  <2>1. q \in OrderIds /\ orders[q].ticker = t /\ orders[q].side # "buy"
        /\ orders[q].placed > trades[r].at
    BY DEF RecentFilledSells, Sells, OrdersOf, OrderIds
  <2> QED
    BY <1>2, <2>1 DEF InView
<1>7. o \in RecentFilledSells(t, trades[r].at)
  BY <1>2, <1>4, <1>5 DEF RecentFilledSells
<1> QED
  BY <1>1, <1>6, <1>7

\* As long as a stop that fired is missing from the journal, the entry it closed
\* is the newest row of its ticker and it is the one sell pass 3 will find:
\* nothing that fails, is cut off or is backfilled takes it out of view
\* (reconcile_broker_exits).
THEOREM MissedExitsInView ==
    ASSUME "reenter" \notin Habits, "partial" \notin Faults
    PROVE  Spec => []ExitsStayInView
<1>1. Init => FillsWhole /\ MissedInView
  <2> SUFFICES ASSUME Init PROVE OrderIds = {}
    BY DEF FillsWhole, MissedInView
  <2> QED
    BY EmptySeq, LenProperties DEF Init, OrderIds
<1>2. TripInv /\ FillsWhole /\ MissedInView /\ [Next]_vars => FillsWhole' /\ MissedInView'
  BY FillsWholeStep, MissedInViewStep DEF ViewInv, TripInv
<1>3. TripInv /\ FillsWhole /\ MissedInView => ExitsStayInView
  <2> SUFFICES ASSUME ViewInv, NEW o \in OrderIds, Unjournaled(o)
               PROVE  \E r \in UnclosedEntries(trades) \cup PendingBuys(trades, 0) :
                          /\ trades[r].ticker = orders[o].ticker
                          /\ Latest(trades, r)
                          /\ RecentFilledSells(trades[r].ticker, trades[r].at) = {o}
    BY DEF ExitsStayInView, ViewInv, OrderIds
  <2>1. PICK r \in RowIds : InView(o, r)
    BY DEF ViewInv, MissedInView
  <2>2. trades[r].ticker = orders[o].ticker /\ Latest(trades, r)
    BY <2>1 DEF InView
  <2> QED
    BY <2>1, <2>2, InViewIsFound
<1> QED
  BY <1>1, <1>2, <1>3, TripInvariance, PTL DEF Spec
============================================================================
