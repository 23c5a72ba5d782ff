------------------------ MODULE ReconciliationProofs ------------------------
(***************************************************************************)
(* Theorems about Reconciliation, for any tickers, any number of orders    *)
(* and any faults and habits.                                              *)
(***************************************************************************)
EXTENDS Reconciliation, SequenceTheorems, TLAPS

LEMMA AppendFacts ==
    ASSUME NEW S, NEW s \in Seq(S), NEW e \in S
    PROVE  /\ Append(s, e) \in Seq(S)
           /\ Len(s) \in Nat /\ DOMAIN s = 1..Len(s)
           /\ DOMAIN Append(s, e) = 1..(Len(s) + 1)
           /\ \A i \in DOMAIN s : Append(s, e)[i] = s[i]
           /\ Append(s, e)[Len(s) + 1] = e
BY AppendProperties, LenProperties

LEMMA ExceptFacts ==
    ASSUME NEW S, NEW s \in Seq(S), NEW i \in DOMAIN s, NEW e \in S
    PROVE  /\ [s EXCEPT ![i] = e] \in Seq(S)
           /\ DOMAIN [s EXCEPT ![i] = e] = DOMAIN s
           /\ [s EXCEPT ![i] = e][i] = e
           /\ \A j \in DOMAIN s : j # i => [s EXCEPT ![i] = e][j] = s[j]
BY ExceptSeq, LenProperties

\* A pass rewrites row r: the row keeps its ticker, time, order and writer, and
\* gets its result with its fill.
RowRewritten(r) ==
    \E row \in Rows :
        /\ trades' = [trades EXCEPT ![r] = row]
        /\ row.ticker = trades[r].ticker
        /\ row.at = trades[r].at
        /\ row.order = trades[r].order
        /\ row.by = trades[r].by
        /\ row.pnl => trades[r].pnl \/ (row.status = "FILLED" /\ pc = "exits")
        /\ \/ /\ pc = "entries"
              /\ row.status = EntryVerdict(r) /\ row.action = trades[r].action
           \/ /\ pc = "exits"
              /\ \/ /\ Reported(trades[r].order) = "filled"
                    /\ row.status = "FILLED" /\ row.action = trades[r].action
                 \/ /\ Reported(trades[r].order) = "dead"
                    /\ row.status = "FAILED" /\ row.action = "SELL_FAILED"
                 \/ row = trades[r]
           \/ /\ pc = "decomposition"
              /\ row.status = trades[r].status /\ row.action = trades[r].action

LEMMA RowChanges ==
    ASSUME TypeOK, NEW r \in DOMAIN trades, r \in todo, RowStep(r), pc # "broker_exits"
    PROVE  RowRewritten(r)
<1>1. trades \in Seq(Rows) /\ trades[r] \in Rows
  BY LenProperties, ElementOfSeq DEF TypeOK
<1>2. \A e \in Rows : [trades EXCEPT ![r] = e] \in Seq(Rows)
  BY <1>1, ExceptFacts
<1>3. CASE pc = "entries"
  <2> DEFINE row == [trades[r] EXCEPT !.status = EntryVerdict(r)]
  <2>1. EntryVerdict(r) \in {"FILLED", "UNFILLED", trades[r].status}
    BY DEF EntryVerdict, Reported
  <2>2. row \in Rows
    BY <1>1, <2>1 DEF Rows
  <2>3. trades' = [trades EXCEPT ![r] = row]
    BY <1>3, <1>1
       DEF RowStep, SettleEntryFill, SettlePendingExit, ReconcileBrokerExit,
           DecomposeFill, SetBuyFill
  <2> QED
    BY <1>1, <1>3, <2>2, <2>3 DEF Rows, RowRewritten
<1>4. CASE pc = "exits"
  <2>1. trades' = ExitSettled(r)
    BY <1>4 DEF RowStep, SettleEntryFill, SettlePendingExit, ReconcileBrokerExit, DecomposeFill
  <2>2. CASE Reported(trades[r].order) = "filled"
    <3> DEFINE row == [trades[r] EXCEPT !.status = "FILLED", !.pnl = TRUE]
    <3>1. row \in Rows /\ trades' = [trades EXCEPT ![r] = row]
      BY <1>1, <2>1, <2>2 DEF Rows, ExitSettled, SettleSellFill
    <3> QED
      BY <1>1, <1>4, <2>2, <3>1 DEF Rows, RowRewritten
  <2>3. CASE Reported(trades[r].order) = "dead"
    <3> DEFINE row == [trades[r] EXCEPT !.action = "SELL_FAILED", !.status = "FAILED"]
    <3>1. row \in Rows /\ trades' = [trades EXCEPT ![r] = row]
      BY <1>1, <2>1, <2>3 DEF Rows, ExitSettled, MarkSellFailed
    <3> QED
      BY <1>1, <1>4, <2>3, <3>1 DEF Rows, RowRewritten
  <2>4. CASE Reported(trades[r].order) \notin {"filled", "dead"}
    <3>1. trades' = trades
      BY <2>1, <2>4 DEF ExitSettled
    <3>2. trades' = [trades EXCEPT ![r] = trades[r]]
      BY <1>1, <3>1, LenProperties
    <3> QED
      BY <1>1, <1>4, <3>2 DEF RowRewritten
  <2> QED
    BY <2>2, <2>3, <2>4
<1>5. CASE pc = "decomposition"
  <2> DEFINE row == [trades[r] EXCEPT !.split = TRUE]
  <2>1. row \in Rows /\ trades' = [trades EXCEPT ![r] = row]
    BY <1>1, <1>5
       DEF Rows, RowStep, SettleEntryFill, SettlePendingExit, ReconcileBrokerExit,
           DecomposeFill, SetFillDecomposition
  <2> QED
    BY <1>1, <1>5, <2>1 DEF Rows, RowRewritten
<1> QED
  BY <1>3, <1>4, <1>5
     DEF RowStep, SettleEntryFill, SettlePendingExit, ReconcileBrokerExit, DecomposeFill


\* The order is still at the market, or has brought shares that are still held.
AtWork(o) == orders[o].status \in {"new", "partial"}
Live(o) == AtWork(o) \/ Held(o)

OrderIds == DOMAIN orders
RowIds == DOMAIN trades

\* Orders are placed one after the other; a stop is there once it has filled.
OrderTimes ==
    /\ \A o \in OrderIds : orders[o].placed <= now /\ orders[o].done <= now
    /\ \A o \in OrderIds : orders[o].side = "stop" =>
           orders[o].status = "filled" /\ orders[o].placed <= orders[o].done
    /\ \A o, p \in OrderIds : o < p => orders[o].placed < orders[p].placed

\* When an entry is placed all that came before it on its ticker is over.
OnePosition ==
    \A o, p \in OrderIds :
        orders[o].ticker = orders[p].ticker /\ orders[p].side = "buy" /\ o < p
            => ~Live(o) /\ orders[o].done < orders[p].placed

\* A row is about an order of its ticker and of its kind, and not older than it.
RowsFit ==
    /\ \A r \in RowIds : trades[r].order \in OrderIds /\ trades[r].at <= now
    /\ \A r \in RowIds : trades[r].ticker = orders[trades[r].order].ticker
    /\ \A r \in RowIds : trades[r].action = "BUY" <=> orders[trades[r].order].side = "buy"
    /\ \A r \in RowIds : trades[r].action = "BUY" => trades[r].at = orders[trades[r].order].placed
    /\ \A r \in RowIds : trades[r].at >= orders[trades[r].order].placed
    /\ \A r \in RowIds : trades[r].by = "agent" => orders[trades[r].order].side # "stop"
    /\ \A r \in RowIds :
           trades[r].by # "agent" \/ trades[r].pnl =>
               trades[r].action = "SELL" /\ trades[r].status = "FILLED"

\* The journal calls entry r open, or did when pass 3 listed it.
StillOpen(r) ==
    /\ trades[r].action = "BUY" /\ trades[r].status = "FILLED"
    /\ \A q \in RowIds :
           trades[q].ticker = trades[r].ticker =>
               trades[q].at <= trades[r].at \/ trades[q].by = "barged"

\* What a pass has selected is still as it was selected, but for repairs.
TodoFits ==
    /\ pc = "entries" => \A r \in todo : trades[r].action = "BUY" /\ trades[r].status = "none"
    /\ pc = "exits" => \A r \in todo : trades[r].status = "PENDING_FILL"
    /\ pc = "broker_exits" =>
           \A r \in todo : StillOpen(r) /\ ~Held(trades[r].order)

\* The entry of a live position is the newest row of its ticker, settled or not.
LiveEntryLatest ==
    \A r \in RowIds :
        /\ trades[r].action = "BUY" /\ Live(trades[r].order)
        /\ \A s \in Sells(trades[r].ticker) : orders[s].placed < trades[r].at
        => Latest(trades, r)

Inv ==
    /\ TypeOK
    /\ OrderTimes
    /\ OnePosition
    /\ RowsFit
    /\ TodoFits
    /\ VerdictsAreTheBrokers
    /\ ExitsJournaledOnce
    /\ LiveEntryLatest

----------------------------------------------------------------------------
(***************************************************************************)
(* How the broker's history moves: one order not yet terminal is           *)
(* rewritten, or one order is appended.                                    *)
(***************************************************************************)

OrderRewritten ==
    \E o \in DOMAIN orders, new \in Orders :
        /\ AtWork(o)
        /\ orders' = [orders EXCEPT ![o] = new]
        /\ new.ticker = orders[o].ticker
        /\ new.side = orders[o].side
        /\ new.placed = orders[o].placed
        /\ \/ /\ new.status \in {"filled", "partial"}
              /\ now' = now + 1
              /\ new.done \in {now + 1, orders[o].done}
           \/ /\ new.status = "canceled" /\ orders[o].status = "new"
              /\ now' = now /\ new.done = orders[o].done
           \/ /\ new.status = "lost" /\ orders[o].status = "partial"
              /\ now' = now /\ new.done = orders[o].done

OrderAppended ==
    \E new \in Orders :
        /\ orders' = Append(orders, new)
        /\ now' = now + 1
        /\ new.placed = now + 1
        /\ \/ /\ new.status = "new" /\ new.done = 0 /\ new.side \in {"buy", "sell"}
              /\ ~Working(new.ticker)
              /\ new.side = "buy" => ~Holding(new.ticker)
           \/ new.status = "filled" /\ new.done = now + 1 /\ new.side = "stop"

LEMMA OrderChanges ==
    ASSUME TypeOK, NEW o \in DOMAIN orders, Fill(o) \/ PartlyFill(o) \/ Die(o)
    PROVE  OrderRewritten
<1>1. /\ orders \in Seq(Orders) /\ orders[o] \in Orders
      /\ now \in Nat /\ now + 1 \in Nat
  BY LenProperties, ElementOfSeq DEF TypeOK
<1>2. orders[o].done \in Nat
  BY <1>1 DEF Orders
<1>d. \A st \in Statuses, d \in Nat :
          [orders[o] EXCEPT !.status = st, !.done = d] \in Orders
  BY <1>1 DEF Orders
<1>3. CASE Fill(o)
  <2> DEFINE d == IF orders[o].done = 0 THEN now + 1 ELSE orders[o].done
             new == [orders[o] EXCEPT !.status = "filled", !.done = d]
  <2>1. d \in Nat /\ d \in {now + 1, orders[o].done}
    BY <1>1, <1>2
  <2>2. orders' = [orders EXCEPT ![o] = new]
    BY <1>1, <1>3 DEF Fill
  <2> HIDE DEF d
  <2>3. new \in Orders
    BY <1>d, <2>1 DEF Statuses
  <2>4. /\ new.status = "filled" /\ new.done = d /\ new.ticker = orders[o].ticker
        /\ new.side = orders[o].side /\ new.placed = orders[o].placed
    BY <1>1 DEF Orders
  <2>5. now' = now + 1 /\ AtWork(o)
    BY <1>3 DEF Fill, Stamp, AtWork
  <2> HIDE DEF new
  <2> QED
    BY <2>1, <2>2, <2>3, <2>4, <2>5 DEF OrderRewritten
<1>4. CASE PartlyFill(o)
  <2> DEFINE new == [orders[o] EXCEPT !.status = "partial", !.done = now + 1]
  <2>1. new \in Orders
    BY <1>1, <1>d DEF Statuses
  <2>2. orders' = [orders EXCEPT ![o] = new]
    BY <1>1, <1>4 DEF PartlyFill
  <2>3. /\ new.status = "partial" /\ new.done = now + 1 /\ new.ticker = orders[o].ticker
        /\ new.side = orders[o].side /\ new.placed = orders[o].placed
    BY <1>1 DEF Orders
  <2> QED
    BY <1>4, <2>1, <2>2, <2>3 DEF PartlyFill, Stamp, OrderRewritten, AtWork
<1>5. CASE Die(o)
  <2> DEFINE st == IF orders[o].status = "new" THEN "canceled" ELSE "lost"
             new == [orders[o] EXCEPT !.status = st]
  <2>1. new \in Orders
    BY <1>1 DEF Orders, Statuses
  <2>2. orders' = [orders EXCEPT ![o] = new]
    BY <1>1, <1>5 DEF Die
  <2>3. /\ new.status = st /\ new.done = orders[o].done /\ new.ticker = orders[o].ticker
        /\ new.side = orders[o].side /\ new.placed = orders[o].placed
    BY <1>1 DEF Orders
  <2>4. /\ now' = now /\ AtWork(o)
        /\ \/ st = "canceled" /\ orders[o].status = "new"
           \/ st = "lost" /\ orders[o].status = "partial"
    BY <1>5 DEF Die, AtWork
  <2> HIDE DEF new, st
  <2> QED
    BY <2>1, <2>2, <2>3, <2>4 DEF OrderRewritten
<1> QED
  BY <1>3, <1>4, <1>5

\* An order with the fields of its kind is an order.
LEMMA NewOrder ==
    ASSUME TypeOK, NEW t \in Tickers, NEW side \in {"buy", "sell", "stop"},
           NEW st \in Statuses, NEW d \in Nat
    PROVE  [ticker |-> t, side |-> side, status |-> st, placed |-> now + 1, done |-> d] \in Orders
<1>1. now + 1 \in Nat
  BY DEF TypeOK
<1> QED
  BY <1>1 DEF Orders

LEMMA StopAppends ==
    ASSUME TypeOK, NEW t \in Tickers, StopFills(t)
    PROVE  OrderAppended
<1>1. now + 1 \in Nat /\ "filled" \in Statuses
  BY DEF TypeOK, Statuses
<1>2. [ticker |-> t, side |-> "stop", status |-> "filled",
       placed |-> now + 1, done |-> now + 1] \in Orders
  BY <1>1, NewOrder
<1> QED
  BY <1>2 DEF StopFills, Stamp, OrderAppended

LEMMA PlaceAppends ==
    ASSUME TypeOK, NEW t \in Tickers, NEW side \in {"buy", "sell"}, Place(t, side),
           ~Working(t), side = "buy" => ~Holding(t)
    PROVE  OrderAppended
<1>1. 0 \in Nat /\ "new" \in Statuses
  BY DEF Statuses
<1>2. [ticker |-> t, side |-> side, status |-> "new",
       placed |-> now + 1, done |-> 0] \in Orders
  BY <1>1, NewOrder
<1> QED
  BY <1>2 DEF Place, Stamp, OrderAppended

LEMMA BuyAppends ==
    ASSUME TypeOK, NEW t \in Tickers, Buy(t)
    PROVE  OrderAppended
BY PlaceAppends DEF Buy

LEMMA ExitAppends ==
    ASSUME TypeOK, NEW t \in Tickers, Exit(t)
    PROVE  OrderAppended
BY PlaceAppends DEF Exit, StopRests

\* A step rewrites one order, appends one, or leaves the history; then the
\* clock stands or moves on.
LEMMA OrderSteps ==
    ASSUME TypeOK, [Next]_vars
    PROVE  OrderRewritten \/ OrderAppended \/ (UNCHANGED orders /\ now' \in {now, now + 1})
<1>1. CASE BrokerStep
  BY <1>1, OrderChanges, StopAppends DEF BrokerStep
<1>2. CASE OutsideStep
  BY <1>2, BuyAppends, ExitAppends DEF OutsideStep, Repair, Age
<1>3. CASE RunStep \/ PassRaises \/ Crash \/ UNCHANGED vars
  BY <1>3
     DEF RunStep, RunAll, PassEnds, ListBrokerExits, RowStep, Unanswered, SettleEntryFill,
         SettlePendingExit, ReconcileBrokerExit, DecomposeFill, PassRaises, Crash, Stamp, vars
<1> QED
  BY <1>1, <1>2, <1>3 DEF Next

\* Nothing in the broker's history is taken back: an order keeps its ticker, side
\* and place, a terminal one is never touched again, and a trade stays a trade.
LEMMA OrdersPersist ==
    ASSUME TypeOK, OrderTimes, [Next]_vars
    PROVE  /\ now' \in Nat /\ now <= now' /\ now' <= now + 1
           /\ orders' \in Seq(Orders)
           /\ \A o \in OrderIds :
                  /\ o \in OrderIds'
                  /\ orders'[o].ticker = orders[o].ticker
                  /\ orders'[o].side = orders[o].side
                  /\ orders'[o].placed = orders[o].placed
                  /\ ~AtWork(o) => orders'[o] = orders[o]
                  /\ Traded(o) => Traded(o)' /\ orders[o].done <= orders'[o].done
<1>1. now \in Nat /\ orders \in Seq(Orders) /\ (\A o \in OrderIds : orders[o] \in Orders)
  BY LenProperties, ElementOfSeq DEF TypeOK, OrderIds
<1>2. \A o \in OrderIds : orders[o].done \in Nat /\ orders[o].done <= now
  BY <1>1 DEF Orders, OrderTimes
<1>3. CASE OrderRewritten
  <2>1. PICK o \in DOMAIN orders, new \in Orders :
            /\ AtWork(o)
            /\ orders' = [orders EXCEPT ![o] = new]
            /\ new.ticker = orders[o].ticker
            /\ new.side = orders[o].side
            /\ new.placed = orders[o].placed
            /\ new.status \in {"filled", "partial", "lost"} \/ orders[o].status = "new"
            /\ now' \in {now, now + 1}
            /\ new.done = now + 1 \/ new.done = orders[o].done
    BY <1>3 DEF OrderRewritten
  <2>2. /\ orders' \in Seq(Orders) /\ OrderIds' = OrderIds /\ orders'[o] = new
        /\ \A p \in OrderIds : p # o => orders'[p] = orders[p]
    BY <1>1, <2>1, ExceptFacts DEF OrderIds
  <2>3. orders[o].done <= new.done /\ now' \in Nat /\ now <= now' /\ now' <= now + 1
    BY <1>1, <1>2, <2>1 DEF OrderIds
  <2>4. Traded(o) => Traded(o)'
    BY <2>1, <2>2 DEF Traded, AtWork
  <2>5. \A p \in OrderIds : p # o => (Traded(p) => Traded(p)' /\ orders[p].done <= orders'[p].done)
    BY <1>2, <2>2 DEF Traded
  <2> QED
    BY <2>1, <2>2, <2>3, <2>4, <2>5
<1>4. CASE OrderAppended
  <2>1. PICK new \in Orders : orders' = Append(orders, new) /\ now' = now + 1
    BY <1>4 DEF OrderAppended
  <2>2. /\ orders' \in Seq(Orders)
        /\ \A p \in OrderIds : p \in OrderIds' /\ orders'[p] = orders[p]
    BY <1>1, <2>1, AppendFacts DEF OrderIds
  <2>3. now' \in Nat /\ now <= now' /\ now' <= now + 1
    BY <1>1, <2>1
  <2> QED
    BY <1>2, <2>2, <2>3 DEF Traded
<1>5. CASE UNCHANGED orders /\ now' \in {now, now + 1}
  BY <1>1, <1>2, <1>5 DEF OrderIds, Traded
<1> QED
  BY <1>3, <1>4, <1>5, OrderSteps

\* An order that is over, its shares sold or never brought, stays over.
LEMMA OverStaysOver ==
    ASSUME TypeOK, OrderTimes, [Next]_vars, NEW o \in OrderIds, ~Live(o)
    PROVE  ~Live(o)'
<1>1. ~AtWork(o) /\ ~Held(o) /\ orders'[o] = orders[o]
  BY OrdersPersist DEF Live
<1>2. ~AtWork(o)'
  BY <1>1 DEF AtWork
<1>3. ~Held(o)'
  <2>1. CASE orders[o].side # "buy" \/ ~Traded(o)
    BY <1>1, <2>1 DEF Held, Traded
  <2>2. CASE \E s \in Sells(orders[o].ticker) : Traded(s) /\ orders[s].done > orders[o].done
    <3>1. PICK s \in OrderIds :
              /\ orders[s].ticker = orders[o].ticker /\ orders[s].side # "buy"
              /\ Traded(s) /\ orders[s].done > orders[o].done
      BY <2>2 DEF Sells, OrdersOf, OrderIds
    <3>2. /\ s \in OrderIds' /\ orders'[s].ticker = orders'[o].ticker
          /\ orders'[s].side # "buy" /\ Traded(s)' /\ orders[s].done <= orders'[s].done
      BY <1>1, <3>1, OrdersPersist
    <3>3. orders[o].done \in Nat /\ orders[s].done \in Nat /\ orders'[s].done \in Nat
      <4>1. orders'[s] \in Orders /\ orders[s] \in Orders /\ orders[o] \in Orders
        BY <3>1, <3>2, OrdersPersist, LenProperties, ElementOfSeq DEF TypeOK, OrderIds
      <4> QED
        BY <4>1 DEF Orders
    <3>4. orders'[s].done > orders'[o].done
      BY <1>1, <3>1, <3>2, <3>3
    <3>5. s \in Sells(orders[o].ticker)'
      BY <1>1, <3>2 DEF Sells, OrdersOf, OrderIds
    <3> QED
      BY <3>2, <3>4, <3>5 DEF Held
  <2> QED
    BY <1>1, <2>1, <2>2 DEF Held
<1> QED
  BY <1>2, <1>3 DEF Live

LEMMA OrderTimesStep ==
    ASSUME TypeOK, OrderTimes, [Next]_vars
    PROVE  OrderTimes'
<1>1. now \in Nat /\ orders \in Seq(Orders) /\ (\A o \in OrderIds : orders[o] \in Orders)
  BY LenProperties, ElementOfSeq DEF TypeOK, OrderIds
<1>2. \A o \in OrderIds : orders[o].done \in Nat /\ orders[o].placed \in Nat
  BY <1>1 DEF Orders
<1>3. CASE OrderRewritten
  <2>1. PICK o \in DOMAIN orders, new \in Orders :
            /\ AtWork(o)
            /\ orders' = [orders EXCEPT ![o] = new]
            /\ new.side = orders[o].side
            /\ new.placed = orders[o].placed
            /\ \/ now' = now + 1 /\ new.done = now + 1
               \/ now' \in {now, now + 1} /\ new.done = orders[o].done
    BY <1>3 DEF OrderRewritten
  <2>2. /\ OrderIds' = OrderIds /\ orders'[o] = new
        /\ \A p \in OrderIds : p # o => orders'[p] = orders[p]
    BY <1>1, <2>1, ExceptFacts DEF OrderIds
  <2>3. orders[o].side # "stop" /\ orders[o].placed <= now /\ orders[o].done <= now
    BY <2>1 DEF OrderTimes, AtWork, OrderIds
  <2>4. now' \in Nat /\ now <= now' /\ new.placed <= now' /\ new.done <= now'
    BY <1>1, <1>2, <2>1, <2>3 DEF OrderIds
  <2>5. \A p \in OrderIds : orders'[p].placed <= now' /\ orders'[p].done <= now'
    BY <1>1, <1>2, <2>2, <2>4 DEF OrderTimes
  <2>6. \A p \in OrderIds : orders'[p].side = "stop" => p # o
    BY <2>1, <2>2, <2>3
  <2>7. \A p \in OrderIds : orders'[p].placed = orders[p].placed
    BY <2>1, <2>2
  <2> QED
    BY <2>2, <2>5, <2>6, <2>7 DEF OrderTimes
<1>4. CASE OrderAppended
  <2>1. PICK new \in Orders :
            /\ orders' = Append(orders, new)
            /\ now' = now + 1 /\ new.placed = now + 1
            /\ \/ new.done = 0 /\ new.side # "stop"
               \/ new.done = now + 1 /\ new.status = "filled"
    BY <1>4 DEF OrderAppended
  <2> DEFINE n == Len(orders) + 1
  <2>2. /\ OrderIds = 1 .. Len(orders) /\ OrderIds' = 1 .. n /\ Len(orders) \in Nat
        /\ orders'[n] = new
        /\ \A p \in OrderIds : orders'[p] = orders[p]
    BY <1>1, <2>1, AppendFacts DEF OrderIds
  <2>3. \A p \in OrderIds' : p \in OrderIds \/ p = n
    BY <2>2
  <2>4. \A p \in OrderIds' : orders'[p].placed <= now' /\ orders'[p].done <= now'
    BY <1>1, <1>2, <2>1, <2>2, <2>3 DEF OrderTimes
  <2>5. \A p \in OrderIds' : orders'[p].side = "stop" =>
            orders'[p].status = "filled" /\ orders'[p].placed <= orders'[p].done
    BY <1>1, <2>1, <2>2, <2>3 DEF OrderTimes
  <2>6. \A p, q \in OrderIds' : p < q => orders'[p].placed < orders'[q].placed
    <3> SUFFICES ASSUME NEW p \in OrderIds', NEW q \in OrderIds', p < q
                 PROVE  orders'[p].placed < orders'[q].placed
      OBVIOUS
    <3>1. p \in OrderIds
      BY <2>2
    <3>2. CASE q \in OrderIds
      BY <2>2, <3>1, <3>2 DEF OrderTimes
    <3>3. CASE q = n
      BY <1>1, <1>2, <2>1, <2>2, <3>1, <3>3 DEF OrderTimes
    <3> QED
      BY <2>3, <3>2, <3>3
  <2> QED
    BY <2>4, <2>5, <2>6 DEF OrderTimes
<1>5. CASE UNCHANGED orders /\ now' \in {now, now + 1}
  BY <1>1, <1>2, <1>5 DEF OrderTimes, OrderIds
<1> QED
  BY <1>3, <1>4, <1>5, OrderSteps

LEMMA OnePositionStep ==
    ASSUME TypeOK, OrderTimes, OnePosition, [Next]_vars
    PROVE  OnePosition'
<1>1. now \in Nat /\ orders \in Seq(Orders) /\ (\A o \in OrderIds : orders[o] \in Orders)
  BY LenProperties, ElementOfSeq DEF TypeOK, OrderIds
<1>2. \A o, p \in OrderIds :
          orders'[o].ticker = orders'[p].ticker /\ orders'[p].side = "buy" /\ o < p
              => ~Live(o)' /\ orders'[o].done < orders'[p].placed
  <2> SUFFICES ASSUME NEW o \in OrderIds, NEW p \in OrderIds,
                      orders'[o].ticker = orders'[p].ticker, orders'[p].side = "buy", o < p
               PROVE  ~Live(o)' /\ orders'[o].done < orders'[p].placed
    OBVIOUS
  <2>1. ~Live(o) /\ orders[o].done < orders[p].placed
    BY OrdersPersist DEF OnePosition
  <2> QED
    BY <2>1, OrdersPersist, OverStaysOver DEF Live
<1>3. CASE OrderAppended
  <2>1. PICK new \in Orders :
            /\ orders' = Append(orders, new)
            /\ new.placed = now + 1
            /\ new.side = "buy" => ~Working(new.ticker) /\ ~Holding(new.ticker)
    BY <1>3 DEF OrderAppended
  <2> DEFINE n == Len(orders) + 1
  <2>2. /\ OrderIds = 1 .. Len(orders) /\ OrderIds' = 1 .. n /\ Len(orders) \in Nat
        /\ orders'[n] = new
        /\ \A o \in OrderIds : orders'[o] = orders[o]
    BY <1>1, <2>1, AppendFacts DEF OrderIds
  <2>3. ASSUME NEW o \in OrderIds, orders[o].ticker = new.ticker, new.side = "buy"
        PROVE  ~Live(o)' /\ orders'[o].done < orders'[n].placed
    <3>1. ~Live(o)
      BY <2>1, <2>3 DEF Working, Holding, OrdersOf, Live, AtWork, OrderIds
    <3>2. orders[o].done \in Nat /\ orders[o].done <= now
      BY <1>1 DEF OrderTimes, Orders
    <3> QED
      BY <1>1, <2>1, <2>2, <3>1, <3>2, OverStaysOver
  <2>4. \A o, p \in OrderIds' : o < p => o \in OrderIds /\ (p \in OrderIds \/ p = n)
    BY <2>2
  <2> QED
    BY <1>2, <2>2, <2>3, <2>4 DEF OnePosition
<1>4. CASE OrderIds' = OrderIds
  BY <1>2, <1>4 DEF OnePosition
<1>5. OrderRewritten => OrderIds' = OrderIds
  BY <1>1, ExceptFacts DEF OrderRewritten, OrderIds
<1> QED
  BY <1>3, <1>4, <1>5, OrderSteps DEF OrderIds

----------------------------------------------------------------------------
(***************************************************************************)
(* How the table moves: one selected row is rewritten (RowChanges), or a   *)
(* row is appended, for an order that has none or whose other row its      *)
(* writer has not seen.                                                    *)
(***************************************************************************)

\* The second row about an order comes of a pass and an operator.
Unseen(old, new) ==
    \/ old = "barged" /\ new = "pass"
    \/ old = "pass" /\ new \in ByHand

RowAppended ==
    \E row \in Rows :
        /\ trades' = Append(trades, row)
        /\ row.order \in OrderIds'
        /\ \A q \in RowIds : trades[q].order = row.order => Unseen(trades[q].by, row.by)
        /\ row.by = "agent" => orders'[row.order].side # "stop"
        /\ row.by # "agent" \/ row.pnl => row.action = "SELL" /\ row.status = "FILLED"
        /\ row.ticker = orders'[row.order].ticker
        /\ orders'[row.order].placed <= row.at /\ row.at <= now'
        /\ \/ /\ row.action = "BUY" /\ row.status = "none"
              /\ orders'[row.order].side = "buy"
              /\ row.at = orders'[row.order].placed /\ row.at = now + 1
           \/ /\ row.action = "SELL" /\ orders'[row.order].side # "buy"
              /\ \/ row.status = "PENDING_FILL"
                 \/ row.status = "FILLED" /\ orders'[row.order].status = "filled"
        /\ \A q \in RowIds, o \in OrderIds :
               /\ trades[q].ticker = row.ticker /\ trades[q].action = "BUY"
               /\ trades[q].order = o /\ Live(o)'
               /\ \A s \in Sells(row.ticker)' : orders'[s].placed < trades[q].at
               => row.at <= trades[q].at

LEMMA StateFacts ==
    ASSUME TypeOK, RowsFit
    PROVE  /\ now \in Nat /\ now + 1 \in Nat
           /\ orders \in Seq(Orders) /\ OrderIds = 1 .. Len(orders) /\ Len(orders) \in Nat
           /\ \A o \in OrderIds :
                  /\ orders[o] \in Orders /\ orders[o].ticker \in Tickers
                  /\ orders[o].placed \in Nat /\ orders[o].done \in Nat
           /\ trades \in Seq(Rows) /\ RowIds = 1 .. Len(trades) /\ Len(trades) \in Nat
           /\ \A r \in RowIds :
                  /\ trades[r] \in Rows /\ trades[r].at \in Nat
                  /\ trades[r].order \in OrderIds
<1>1. /\ orders \in Seq(Orders) /\ trades \in Seq(Rows) /\ now \in Nat
      /\ \A o \in OrderIds : orders[o] \in Orders
      /\ \A r \in RowIds : trades[r] \in Rows
  BY LenProperties, ElementOfSeq DEF TypeOK, OrderIds, RowIds
<1> QED
  BY <1>1, LenProperties DEF OrderIds, RowIds, Orders, Rows, RowsFit

\* A row of one of the kinds the program writes is a row.
LEMMA NewRow ==
    ASSUME NEW t \in Tickers, NEW a \in {"BUY", "SELL"}, NEW at \in Nat, NEW o \in Nat,
           NEW st \in {"none", "PENDING_FILL", "FILLED"},
           NEW by \in {"agent", "pass", "hand", "barged"}
    PROVE  TradeRow(t, a, at, o, st, by) \in Rows
BY DEF TradeRow, Rows

LEMMA BuyJournals ==
    ASSUME TypeOK, OrderTimes, RowsFit, NEW t \in Tickers, Buy(t)
    PROVE  RowAppended
<1> DEFINE n   == Len(orders) + 1
           row == TradeRow(t, "BUY", now + 1, n, "none", "agent")
           new == [ticker |-> t, side |-> "buy", status |-> "new",
                   placed |-> now + 1, done |-> 0]
<1>1. /\ trades' = Append(trades, row) /\ now' = now + 1
      /\ orders' = Append(orders, new)
      /\ ~Working(t) /\ ~Holding(t)
  BY DEF Buy, Place, Stamp
<1>2. new \in Orders
  BY StateFacts, NewOrder, 0 \in Nat DEF Statuses
<1>3. /\ OrderIds' = 1 .. n /\ orders'[n] = new
      /\ \A o \in OrderIds : orders'[o] = orders[o]
  BY <1>1, <1>2, StateFacts, AppendFacts DEF OrderIds
<1>4. n \in Nat /\ n \in OrderIds' /\ n \notin OrderIds
  BY <1>3, StateFacts
<1>5. row \in Rows
  BY <1>4, StateFacts, NewRow
<1>6. ASSUME NEW q \in RowIds, NEW o \in OrderIds, trades[q].order = o, trades[q].ticker = t
      PROVE  ~Live(o)'
  <2>1. ~Live(o)
    BY <1>1, <1>6, StateFacts
       DEF RowsFit, Working, Holding, OrdersOf, Live, AtWork, OrderIds
  <2>2. [Next]_vars
    BY DEF Next, OutsideStep
  <2> QED
    BY <2>1, <2>2, StateFacts, OverStaysOver
<1>7. /\ row.ticker = t /\ row.action = "BUY" /\ row.at = now + 1
      /\ row.order = n /\ row.status = "none" /\ row.by = "agent" /\ ~row.pnl
      /\ new.ticker = t /\ new.side = "buy" /\ new.placed = now + 1
  BY DEF TradeRow
<1> HIDE DEF row, new, n
<1>8. orders'[n].placed <= now + 1
  BY <1>3, <1>7, StateFacts
<1>9. \A q \in RowIds : trades[q].order # n
  BY <1>4, StateFacts
<1> QED
  BY <1>1, <1>3, <1>4, <1>5, <1>6, <1>7, <1>8, <1>9, StateFacts DEF RowAppended

LEMMA ExitJournals ==
    ASSUME TypeOK, OrderTimes, RowsFit, NEW t \in Tickers, Exit(t)
    PROVE  RowAppended
<1> DEFINE n   == Len(orders) + 1
           row == TradeRow(t, "SELL", now + 1, n, "PENDING_FILL", "agent")
           new == [ticker |-> t, side |-> "sell", status |-> "new",
                   placed |-> now + 1, done |-> 0]
<1>1. /\ trades' = Append(trades, row) /\ now' = now + 1
      /\ orders' = Append(orders, new)
  BY DEF Exit, Place, Stamp
<1>2. new \in Orders
  BY StateFacts, NewOrder, 0 \in Nat DEF Statuses
<1>3. OrderIds' = 1 .. n /\ orders'[n] = new
  BY <1>1, <1>2, StateFacts, AppendFacts DEF OrderIds
<1>4. n \in Nat /\ n \in OrderIds' /\ n \notin OrderIds
  BY <1>3, StateFacts
<1>5. row \in Rows
  BY <1>4, StateFacts, NewRow
<1>6. /\ row.ticker = t /\ row.action = "SELL" /\ row.at = now + 1
      /\ row.order = n /\ row.status = "PENDING_FILL" /\ row.by = "agent" /\ ~row.pnl
      /\ new.ticker = t /\ new.side = "sell" /\ new.placed = now + 1
  BY DEF TradeRow
<1> HIDE DEF row, new, n
\* The exit itself is a sell younger than every entry.
<1>7. n \in Sells(t)'
  BY <1>3, <1>4, <1>6 DEF Sells, OrdersOf, OrderIds
<1>8. \A q \in RowIds : ~(orders'[n].placed < trades[q].at)
  BY <1>3, <1>6, StateFacts DEF RowsFit
<1>9. orders'[n].placed <= now + 1
  BY <1>3, <1>6, StateFacts
<1>10. \A q \in RowIds : trades[q].order # n
  BY <1>4, StateFacts
<1> QED
  BY <1>1, <1>3, <1>4, <1>5, <1>6, <1>7, <1>8, <1>9, <1>10, StateFacts DEF RowAppended

LEMMA RepairJournals ==
    ASSUME TypeOK, OrderTimes, OnePosition, RowsFit, NEW o \in OrderIds, Repair(o)
    PROVE  RowAppended
<1>b. PICK by \in ByHand :
          trades' = Append(trades, TradeRow(orders[o].ticker, "SELL", orders[o].done, o,
                                            "FILLED", by))
  BY DEF Repair
<1> DEFINE row == TradeRow(orders[o].ticker, "SELL", orders[o].done, o, "FILLED", by)
<1>1. /\ trades' = Append(trades, row) /\ now' = now /\ orders' = orders
      /\ orders[o].side = "stop"
      /\ \A q \in RowIds : trades[q].order = o => trades[q].by \notin ByHand
  BY <1>b DEF Repair, RowIds
<1>2. row \in Rows
  BY StateFacts, NewRow DEF ByHand
<1>3. /\ row.ticker = orders[o].ticker /\ row.action = "SELL" /\ row.by \in ByHand
      /\ row.at = orders[o].done /\ row.order = o /\ row.status = "FILLED"
  BY DEF TradeRow
\* The agent has no row about a stop, so a row that is not by hand is pass 3's.
<1>4. ASSUME NEW q \in RowIds, trades[q].order = o PROVE Unseen(trades[q].by, row.by)
  <2>1. trades[q].by # "agent" /\ trades[q].by \notin ByHand
    BY <1>1, <1>4 DEF RowsFit
  <2>2. trades[q] \in Rows
    BY StateFacts
  <2>3. trades[q].by = "pass"
    BY <2>1, <2>2 DEF Rows, ByHand
  <2> QED
    BY <1>3, <2>3 DEF Unseen
<1>5. ASSUME NEW q \in RowIds, trades[q].ticker = orders[o].ticker, trades[q].action = "BUY",
             \A s \in Sells(orders[o].ticker)' : orders'[s].placed < trades[q].at
      PROVE  orders[o].done <= trades[q].at
  <2> DEFINE e == trades[q].order
  <2>1. /\ e \in OrderIds /\ orders[e].ticker = orders[o].ticker
        /\ orders[e].side = "buy" /\ orders[e].placed = trades[q].at
    BY <1>5, StateFacts DEF RowsFit
  <2> HIDE DEF e
  <2>2. orders[o].placed < orders[e].placed
    BY <1>1, <1>5, <2>1 DEF Sells, OrdersOf, OrderIds
  <2>3. o \in Int /\ e \in Int /\ orders[o].placed \in Int /\ orders[e].placed \in Int
    BY <2>1, StateFacts
  <2>4. ~(e < o) /\ o # e
    BY <2>1, <2>2, <2>3 DEF OrderTimes
  <2>5. o < e
    BY <2>3, <2>4
  <2>6. orders[o].done < orders[e].placed
    BY <2>1, <2>5 DEF OnePosition
  <2> QED
    BY <2>1, <2>3, <2>6, StateFacts
<1> HIDE DEF row
<1> QED
  BY <1>1, <1>2, <1>3, <1>5, <1>4, StateFacts DEF RowAppended, OrderTimes, OrderIds, ByHand

LEMMA BrokerExitJournals ==
    ASSUME Inv, NEW r \in RowIds, ReconcileBrokerExit(r)
    PROVE  RowAppended
<1> USE DEF Inv
<1>1. PICK s \in RecentFilledSells(trades[r].ticker, trades[r].at) :
          trades' = Append(trades, TradeRow(trades[r].ticker, "SELL", now + 1, s, "FILLED", "pass"))
  BY DEF ReconcileBrokerExit
<1> DEFINE row == TradeRow(trades[r].ticker, "SELL", now + 1, s, "FILLED", "pass")
<1>2. /\ s \in OrderIds /\ orders[s].ticker = trades[r].ticker /\ orders[s].side # "buy"
      /\ orders[s].status = "filled" /\ orders[s].placed > trades[r].at
  BY DEF RecentFilledSells, Sells, OrdersOf, OrderIds
<1>3. trades[r].ticker \in Tickers /\ s \in Nat
  BY <1>2, StateFacts DEF Rows
<1>4. row \in Rows
  BY <1>3, StateFacts, NewRow
<1>5. /\ row.ticker = trades[r].ticker /\ row.action = "SELL"
      /\ row.at = now + 1 /\ row.order = s /\ row.status = "FILLED" /\ row.by = "pass"
  BY DEF TradeRow
<1>6. orders' = orders /\ now' = now + 1
  BY DEF ReconcileBrokerExit, Stamp
<1>7. StillOpen(r) /\ ~Live(trades[r].order)
  BY DEF ReconcileBrokerExit, TodoFits, StillOpen, VerdictsAreTheBrokers, Live, AtWork, RowIds
\* A row about the sell is younger than the entry, so it came in after the list.
<1>8. \A q \in RowIds : trades[q].order = s => trades[q].by = "barged"
  BY <1>2, <1>7, StateFacts DEF StillOpen, RowsFit
<1>9. ASSUME NEW q \in RowIds, trades[q].ticker = trades[r].ticker, trades[q].action = "BUY",
             NEW e \in OrderIds, trades[q].order = e, Live(e)'
      PROVE  FALSE
  <2> DEFINE f == trades[r].order
  <2>1. /\ e \in OrderIds /\ orders[e].ticker = trades[r].ticker
        /\ orders[e].side = "buy" /\ orders[e].placed = trades[q].at
        /\ f \in OrderIds /\ orders[f].ticker = trades[r].ticker
        /\ orders[f].side = "buy" /\ orders[f].placed = trades[r].at
    BY <1>7, <1>9, StateFacts DEF RowsFit, StillOpen
  <2> HIDE DEF f
  <2>2. trades[q].at <= trades[r].at
    BY <1>7, <1>9 DEF StillOpen, RowsFit
  <2>3. Live(e)
    BY <1>6, <1>9 DEF Live, AtWork, Held, Traded, Sells, OrdersOf
  <2>4. e # f /\ ~(f < e)
    BY <1>7, <2>1, <2>2, <2>3, StateFacts DEF OrderTimes, f
  <2>5. e \in Int /\ f \in Int
    BY <2>1, StateFacts
  <2>6. e < f
    BY <2>4, <2>5
  <2> QED
    BY <2>1, <2>3, <2>6 DEF OnePosition
<1> HIDE DEF row
<1>10. orders[s].placed <= now + 1 /\ s \in OrderIds'
  BY <1>2, <1>6, StateFacts DEF OrderTimes, OrderIds
<1> QED
  BY <1>1, <1>2, <1>4, <1>5, <1>6, <1>8, <1>9, <1>10, StateFacts DEF RowAppended, Unseen, row

LEMMA TableSteps ==
    ASSUME Inv, [Next]_vars
    PROVE  \/ UNCHANGED trades
           \/ RowAppended
           \/ \E r \in todo : RowRewritten(r) /\ UNCHANGED <<orders, now>>
<1> USE DEF Inv
<1>1. CASE \E t \in Tickers : Buy(t) \/ Exit(t)
  BY <1>1, BuyJournals, ExitJournals
<1>2. CASE \E o \in OrderIds : Repair(o)
  BY <1>2, RepairJournals
<1>3. CASE \E r \in RowIds : RowStep(r)
  <2>1. PICK r \in RowIds : RowStep(r)
    BY <1>3
  <2>2. CASE ReconcileBrokerExit(r)
    BY <2>2, BrokerExitJournals
  <2>3. CASE ~ReconcileBrokerExit(r)
    <3>1. r \in todo /\ pc # "broker_exits" /\ UNCHANGED <<orders, now>>
      BY <2>1, <2>3 DEF RowStep, SettleEntryFill, SettlePendingExit, DecomposeFill
    <3> QED
      BY <2>1, <3>1, RowChanges DEF RowIds
  <2> QED
    BY <2>2, <2>3
<1>4. CASE \/ BrokerStep
           \/ \E w \in Windows : Age(w)
           \/ RunAll \/ PassEnds \/ ListBrokerExits \/ PassRaises \/ Crash \/ UNCHANGED vars
           \/ \E r \in RowIds : Unanswered(r)
  BY <1>4
     DEF BrokerStep, Fill, PartlyFill, Die, StopFills, Age, RunAll, PassEnds, ListBrokerExits,
         PassRaises, Crash, Unanswered, vars
<1> QED
  BY <1>1, <1>2, <1>3, <1>4 DEF Next, OutsideStep, RunStep, OrderIds, RowIds

\* A row keeps its ticker, time, order and kind, and gets no verdict but the broker's.
LEMMA RowsPersist ==
    ASSUME Inv, [Next]_vars
    PROVE  /\ trades' \in Seq(Rows)
           /\ RowIds' = RowIds \/ RowAppended
           /\ \A r \in RowIds :
                  /\ r \in RowIds'
                  /\ trades'[r].ticker = trades[r].ticker
                  /\ trades'[r].at = trades[r].at
                  /\ trades'[r].order = trades[r].order
                  /\ trades'[r].by = trades[r].by
                  /\ trades'[r].by # "agent" \/ trades'[r].pnl =>
                         trades'[r].action = "SELL" /\ trades'[r].status = "FILLED"
                  /\ trades'[r].action = "BUY" <=> trades[r].action = "BUY"
                  /\ <<trades'[r].action, trades'[r].status>> \in Verdicts
                  /\ trades'[r].status = "FILLED" =>
                         orders'[trades[r].order].status = "filled"
                  /\ trades'[r].status \in {"UNFILLED", "FAILED"} =>
                         orders'[trades[r].order].status \in {"canceled", "lost"}
<1> USE DEF Inv
<1>1. \A r \in RowIds :
          /\ trades[r].status = "FILLED" => orders'[trades[r].order].status = "filled"
          /\ trades[r].status \in {"UNFILLED", "FAILED"} =>
                 orders'[trades[r].order].status \in {"canceled", "lost"}
  BY StateFacts, OrdersPersist DEF VerdictsAreTheBrokers, AtWork, RowIds
<1>2. \A r \in RowIds :
          /\ <<trades[r].action, trades[r].status>> \in Verdicts
          /\ trades[r].by # "agent" \/ trades[r].pnl =>
                 trades[r].action = "SELL" /\ trades[r].status = "FILLED"
  BY DEF TypeOK, RowsFit, RowIds
<1>3. CASE UNCHANGED trades
  BY <1>1, <1>2, <1>3, StateFacts DEF RowIds
<1>4. CASE RowAppended
  <2>1. PICK row \in Rows : trades' = Append(trades, row)
    BY <1>4 DEF RowAppended
  <2>2. /\ trades' \in Seq(Rows)
        /\ \A r \in RowIds : r \in RowIds' /\ trades'[r] = trades[r]
    BY <2>1, StateFacts, AppendFacts DEF RowIds
  <2> QED
    BY <1>1, <1>2, <1>4, <2>2
<1>5. ASSUME NEW r \in todo, RowRewritten(r), UNCHANGED <<orders, now>>
      PROVE  /\ trades' \in Seq(Rows) /\ RowIds' = RowIds
             /\ \A q \in RowIds : q # r => trades'[q] = trades[q]
             /\ r \in RowIds
             /\ trades'[r].ticker = trades[r].ticker
             /\ trades'[r].at = trades[r].at
             /\ trades'[r].order = trades[r].order
             /\ trades'[r].by = trades[r].by
             /\ trades'[r].by # "agent" \/ trades'[r].pnl =>
                    trades'[r].action = "SELL" /\ trades'[r].status = "FILLED"
             /\ trades'[r].action = "BUY" <=> trades[r].action = "BUY"
             /\ <<trades'[r].action, trades'[r].status>> \in Verdicts
             /\ trades'[r].status = "FILLED" =>
                    orders'[trades[r].order].status = "filled"
             /\ trades'[r].status \in {"UNFILLED", "FAILED"} =>
                    orders'[trades[r].order].status \in {"canceled", "lost"}
  <2>1. r \in RowIds
    BY <1>5 DEF TypeOK, RowIds
  <2>2. PICK row \in Rows :
            /\ trades' = [trades EXCEPT ![r] = row]
            /\ row.ticker = trades[r].ticker
            /\ row.at = trades[r].at
            /\ row.order = trades[r].order
            /\ row.by = trades[r].by
            /\ \/ /\ pc = "entries" /\ (row.pnl => trades[r].pnl)
                  /\ row.status = EntryVerdict(r) /\ row.action = trades[r].action
               \/ /\ pc = "exits"
                  /\ Reported(trades[r].order) = "filled"
                  /\ row.status = "FILLED" /\ row.action = trades[r].action
               \/ /\ pc = "exits"
                  /\ Reported(trades[r].order) = "dead"
                  /\ row.status = "FAILED" /\ row.action = "SELL_FAILED"
                  /\ row.pnl => trades[r].pnl
               \/ /\ row.status = trades[r].status /\ row.action = trades[r].action
                  /\ row.pnl => trades[r].pnl
    BY <1>5 DEF RowRewritten
  <2>3. /\ trades' \in Seq(Rows) /\ RowIds' = RowIds /\ trades'[r] = row
        /\ \A q \in RowIds : q # r => trades'[q] = trades[q]
    BY <2>1, <2>2, StateFacts, ExceptFacts DEF RowIds
  <2>4. CASE /\ pc = "entries" /\ (row.pnl => trades[r].pnl)
             /\ row.status = EntryVerdict(r) /\ row.action = trades[r].action
    <3>1. /\ trades[r].action = "BUY" /\ trades[r].status = "none"
          /\ trades[r].by = "agent" /\ ~trades[r].pnl
      BY <1>2, <1>5, <2>1, <2>4 DEF TodoFits
    <3>2. \/ row.status = "FILLED" /\ orders[trades[r].order].status = "filled"
          \/ row.status = "UNFILLED" /\ orders[trades[r].order].status \in {"canceled", "lost"}
          \/ row.status = "none"
      BY <2>4, <3>1 DEF EntryVerdict, Reported
    <3> QED
      BY <1>5, <2>1, <2>2, <2>3, <2>4, <3>1, <3>2 DEF Verdicts
  <2>5. CASE /\ pc = "exits"
             /\ Reported(trades[r].order) = "filled"
             /\ row.status = "FILLED" /\ row.action = trades[r].action
    <3>1. trades[r].status = "PENDING_FILL" /\ trades[r].by = "agent"
      BY <1>2, <1>5, <2>1, <2>5 DEF TodoFits
    <3>2. trades[r].action = "SELL"
      BY <1>2, <2>1, <3>1 DEF Verdicts
    <3>3. orders[trades[r].order].status = "filled"
      BY <2>5 DEF Reported
    <3> QED
      BY <1>5, <2>1, <2>2, <2>3, <2>5, <3>1, <3>2, <3>3 DEF Verdicts
  <2>6. CASE /\ pc = "exits"
             /\ Reported(trades[r].order) = "dead"
             /\ row.status = "FAILED" /\ row.action = "SELL_FAILED"
             /\ row.pnl => trades[r].pnl
    <3>1. trades[r].status = "PENDING_FILL" /\ trades[r].by = "agent" /\ ~trades[r].pnl
      BY <1>2, <1>5, <2>1, <2>6 DEF TodoFits
    <3>2. trades[r].action = "SELL"
      BY <1>2, <2>1, <3>1 DEF Verdicts
    <3>3. orders[trades[r].order].status \in {"canceled", "lost"}
      BY <2>6 DEF Reported
    <3> QED
      BY <1>5, <2>1, <2>2, <2>3, <2>6, <3>1, <3>2, <3>3 DEF Verdicts
  <2>7. CASE /\ row.status = trades[r].status /\ row.action = trades[r].action
             /\ row.pnl => trades[r].pnl
    <3>1. trades'[r].pnl => trades[r].pnl
      BY <2>3, <2>7
    <3> QED
      BY <1>1, <1>2, <2>1, <2>2, <2>3, <2>7, <3>1
  <2> QED
    BY <2>2, <2>4, <2>5, <2>6, <2>7
<1>6. CASE \E r \in todo : RowRewritten(r) /\ UNCHANGED <<orders, now>>
  <2>1. PICK r \in todo : RowRewritten(r) /\ UNCHANGED <<orders, now>>
    BY <1>6
  <2>2. \A q \in RowIds : q # r => trades'[q] = trades[q]
    BY <1>5, <2>1
  <2>3. ASSUME NEW q \in RowIds, q # r
        PROVE  /\ trades'[q].status = "FILLED" => orders'[trades[q].order].status = "filled"
               /\ trades'[q].status \in {"UNFILLED", "FAILED"} =>
                      orders'[trades[q].order].status \in {"canceled", "lost"}
    BY <1>1, <2>2, <2>3
  <2>4. ASSUME NEW q \in RowIds, q # r
        PROVE  /\ <<trades'[q].action, trades'[q].status>> \in Verdicts
               /\ trades'[q].by # "agent" \/ trades'[q].pnl =>
                      trades'[q].action = "SELL" /\ trades'[q].status = "FILLED"
    BY <1>2, <2>2, <2>4
  <2> DEFINE Kept(q) ==
          /\ trades'[q].ticker = trades[q].ticker
          /\ trades'[q].at = trades[q].at
          /\ trades'[q].order = trades[q].order
          /\ trades'[q].by = trades[q].by
          /\ trades'[q].by # "agent" \/ trades'[q].pnl =>
                 trades'[q].action = "SELL" /\ trades'[q].status = "FILLED"
          /\ trades'[q].action = "BUY" <=> trades[q].action = "BUY"
          /\ <<trades'[q].action, trades'[q].status>> \in Verdicts
          /\ trades'[q].status = "FILLED" => orders'[trades[q].order].status = "filled"
          /\ trades'[q].status \in {"UNFILLED", "FAILED"} =>
                 orders'[trades[q].order].status \in {"canceled", "lost"}
  <2>5. ASSUME NEW q \in RowIds, q # r PROVE Kept(q)
    BY <2>2, <2>3, <2>4, <2>5
  <2>6. Kept(r)
    BY <1>5, <2>1
  <2>7. trades' \in Seq(Rows) /\ RowIds' = RowIds
    BY <1>5, <2>1
  <2>8. \A q \in RowIds : Kept(q)
    BY <2>5, <2>6
  <2> QED
    BY <2>7, <2>8
<1> QED
  BY <1>3, <1>4, <1>6, TableSteps

\* The id an appended row gets, and what is known of it.
LEMMA NewRowId ==
    ASSUME Inv, NEW row \in Rows, trades' = Append(trades, row)
    PROVE  /\ \A r \in RowIds' : r \in RowIds \/ r = Len(trades) + 1
           /\ Len(trades) + 1 \in RowIds' /\ Len(trades) + 1 \notin RowIds
           /\ trades'[Len(trades) + 1] = row
           /\ \A r \in RowIds : trades'[r] = trades[r]
<1>1. /\ RowIds = 1 .. Len(trades) /\ RowIds' = 1 .. (Len(trades) + 1) /\ Len(trades) \in Nat
      /\ trades'[Len(trades) + 1] = row
      /\ \A r \in RowIds : trades'[r] = trades[r]
  BY StateFacts, AppendFacts DEF Inv, RowIds
<1> QED
  BY <1>1

\* The table keeps the verdicts, and the rows, of the orders it is about.
LEMMA RowsFitStep ==
    ASSUME Inv, [Next]_vars
    PROVE  RowsFit' /\ VerdictsAreTheBrokers' /\ ExitsJournaledOnce'
<1> USE DEF Inv
<1> DEFINE Fits(r) ==
        /\ trades'[r].order \in OrderIds' /\ trades'[r].at <= now'
        /\ trades'[r].ticker = orders'[trades'[r].order].ticker
        /\ trades'[r].action = "BUY" <=> orders'[trades'[r].order].side = "buy"
        /\ trades'[r].action = "BUY" => trades'[r].at = orders'[trades'[r].order].placed
        /\ trades'[r].at >= orders'[trades'[r].order].placed
        /\ trades'[r].by = "agent" => orders'[trades'[r].order].side # "stop"
        /\ trades'[r].by # "agent" \/ trades'[r].pnl =>
               trades'[r].action = "SELL" /\ trades'[r].status = "FILLED"
        /\ trades'[r].status = "FILLED" => orders'[trades'[r].order].status = "filled"
        /\ trades'[r].status \in {"UNFILLED", "FAILED"} =>
               orders'[trades'[r].order].status \in {"canceled", "lost"}
<1>1. ASSUME NEW r \in RowIds PROVE Fits(r)
  <2> DEFINE o == trades[r].order
  <2>1. /\ trades'[r].order = o /\ o \in OrderIds
        /\ trades'[r].at = trades[r].at /\ trades'[r].ticker = trades[r].ticker
        /\ trades'[r].action = "BUY" <=> trades[r].action = "BUY"
        /\ trades'[r].by = trades[r].by
        /\ trades'[r].by # "agent" \/ trades'[r].pnl =>
               trades'[r].action = "SELL" /\ trades'[r].status = "FILLED"
    BY StateFacts, RowsPersist
  <2>2. /\ o \in OrderIds' /\ orders'[o].ticker = orders[o].ticker
        /\ orders'[o].side = orders[o].side /\ orders'[o].placed = orders[o].placed
        /\ now <= now' /\ now' \in Nat
    BY <2>1, OrdersPersist
  <2>3. /\ trades[r].at <= now /\ trades[r].at \in Nat /\ now \in Nat
        /\ trades[r].ticker = orders[o].ticker
        /\ trades[r].action = "BUY" <=> orders[o].side = "buy"
        /\ trades[r].action = "BUY" => trades[r].at = orders[o].placed
        /\ trades[r].at >= orders[o].placed
        /\ trades[r].by = "agent" => orders[o].side # "stop"
    BY StateFacts DEF RowsFit
  <2>4. trades'[r].at <= now'
    BY <2>1, <2>2, <2>3
  <2>5. /\ trades'[r].status = "FILLED" => orders'[o].status = "filled"
        /\ trades'[r].status \in {"UNFILLED", "FAILED"} =>
               orders'[o].status \in {"canceled", "lost"}
    BY RowsPersist
  <2> QED
    BY <2>1, <2>2, <2>3, <2>4, <2>5
<1>2. \A r, q \in RowIds :
          r < q /\ trades'[r].order = trades'[q].order => Unseen(trades'[r].by, trades'[q].by)
  <2>1. \A r \in RowIds : trades'[r].order = trades[r].order /\ trades'[r].by = trades[r].by
    BY RowsPersist
  <2>2. \A r, q \in RowIds :
            r < q /\ trades[r].order = trades[q].order => Unseen(trades[r].by, trades[q].by)
    BY DEF ExitsJournaledOnce, Unseen, RowIds
  <2> QED
    BY <2>1, <2>2
<1>3. CASE RowIds' = RowIds
  BY <1>1, <1>2, <1>3 DEF RowsFit, VerdictsAreTheBrokers, ExitsJournaledOnce, Unseen, RowIds
<1>4. CASE RowAppended
  <2>1. PICK row \in Rows :
            /\ trades' = Append(trades, row)
            /\ row.order \in OrderIds'
            /\ \A q \in RowIds :
                   trades[q].order = row.order => Unseen(trades[q].by, row.by)
            /\ row.by = "agent" => orders'[row.order].side # "stop"
            /\ row.by # "agent" \/ row.pnl => row.action = "SELL" /\ row.status = "FILLED"
            /\ row.ticker = orders'[row.order].ticker
            /\ orders'[row.order].placed <= row.at /\ row.at <= now'
            /\ \/ /\ row.action = "BUY" /\ row.status = "none"
                  /\ orders'[row.order].side = "buy"
                  /\ row.at = orders'[row.order].placed
               \/ /\ row.action = "SELL" /\ orders'[row.order].side # "buy"
                  /\ \/ row.status = "PENDING_FILL"
                     \/ row.status = "FILLED" /\ orders'[row.order].status = "filled"
    BY <1>4 DEF RowAppended
  <2> DEFINE n == Len(trades) + 1
  <2>2. /\ \A r \in RowIds' : r \in RowIds \/ r = n
        /\ trades'[n] = row
        /\ \A r \in RowIds : trades'[r] = trades[r] /\ r < n
    BY <2>1, NewRowId, StateFacts
  <2>3. row.at \in Nat /\ orders'[row.order].placed \in Nat
    <3>1. orders'[row.order] \in Orders
      BY <2>1, OrdersPersist, LenProperties, ElementOfSeq DEF OrderIds
    <3> QED
      BY <3>1 DEF Rows, Orders
  <2>4. Fits(n)
    BY <2>1, <2>2, <2>3
  <2>5. \A r \in RowIds :
            /\ trades'[r].order = trades'[n].order => Unseen(trades'[r].by, trades'[n].by)
            /\ ~(n < r)
    BY <2>1, <2>2, StateFacts
  <2>n. ~(n < n)
    BY StateFacts
  <2> HIDE DEF n, Fits
  <2>6. \A r \in RowIds' : Fits(r)
    BY <1>1, <2>2, <2>4
  <2>7. \A r, q \in RowIds' :
            r < q /\ trades'[r].order = trades'[q].order => Unseen(trades'[r].by, trades'[q].by)
    BY <1>2, <2>2, <2>5, <2>n
  <2> QED
    BY <2>6, <2>7
       DEF Fits, RowsFit, VerdictsAreTheBrokers, ExitsJournaledOnce, Unseen, ByHand, RowIds
<1> QED
  BY <1>3, <1>4, RowsPersist

LEMMA LiveEntryStep ==
    ASSUME Inv, [Next]_vars
    PROVE  LiveEntryLatest'
<1> USE DEF Inv
<1> DEFINE Young(r) == \A s \in OrderIds' :
        orders'[s].ticker = trades'[r].ticker /\ orders'[s].side # "buy"
            => orders'[s].placed < trades'[r].at
\* What is the entry of a live position now was it before.
<1>1. ASSUME NEW r \in RowIds, trades'[r].action = "BUY", NEW o \in OrderIds,
             trades[r].order = o, Live(o)', Young(r)
      PROVE  \A q \in RowIds : trades[q].ticker = trades[r].ticker => trades[q].at <= trades[r].at
  <2>1. /\ trades'[r].ticker = trades[r].ticker /\ trades'[r].at = trades[r].at
        /\ trades[r].action = "BUY"
    BY <1>1, RowsPersist
  <2>2. Live(o)
    BY <1>1, OverStaysOver
  <2>3. ASSUME NEW s \in Sells(trades[r].ticker) PROVE orders[s].placed < trades[r].at
    <3>1. s \in OrderIds /\ orders[s].ticker = trades[r].ticker /\ orders[s].side # "buy"
      BY DEF Sells, OrdersOf, OrderIds
    <3>2. /\ s \in OrderIds' /\ orders'[s].ticker = trades[r].ticker
          /\ orders'[s].side # "buy" /\ orders'[s].placed = orders[s].placed
      BY <3>1, OrdersPersist
    <3> QED
      BY <1>1, <2>1, <3>2
  <2> QED
    BY <1>1, <2>1, <2>2, <2>3 DEF LiveEntryLatest, Latest, RowIds
<1>2. SUFFICES ASSUME NEW r \in RowIds', trades'[r].action = "BUY",
                      NEW o, o = trades'[r].order, Live(o)', Young(r),
                      NEW q \in RowIds', trades'[q].ticker = trades'[r].ticker
               PROVE  trades'[q].at <= trades'[r].at
  BY DEF LiveEntryLatest, Latest, RowIds, Sells, OrdersOf, OrderIds
<1>3. CASE r \in RowIds /\ q \in RowIds
  BY <1>1, <1>2, <1>3, RowsPersist, StateFacts
<1>4. CASE r \notin RowIds \/ q \notin RowIds
  <2>1. PICK row \in Rows :
            /\ trades' = Append(trades, row)
            /\ row.action = "BUY" => row.at = now + 1
            /\ \A p \in RowIds, e \in OrderIds :
                   /\ trades[p].ticker = row.ticker /\ trades[p].action = "BUY"
                   /\ trades[p].order = e /\ Live(e)'
                   /\ \A s \in OrderIds' :
                          orders'[s].ticker = row.ticker /\ orders'[s].side # "buy"
                              => orders'[s].placed < trades[p].at
                   => row.at <= trades[p].at
    BY <1>2, <1>4, RowsPersist DEF RowAppended, Sells, OrdersOf, OrderIds
  <2> DEFINE n == Len(trades) + 1
  <2>2. /\ \A p \in RowIds' : p \in RowIds \/ p = n
        /\ trades'[n] = row
        /\ \A p \in RowIds : trades'[p] = trades[p]
    BY <2>1, NewRowId
  <2> HIDE DEF n
  <2>3. CASE r = n
    <3>1. trades'[r].at = now + 1
      BY <1>2, <2>1, <2>2, <2>3
    <3>2. trades'[q].at <= now + 1
      <4>1. CASE q = n
        BY <3>1, <2>3, <4>1, StateFacts
      <4>2. CASE q \in RowIds
        BY <2>2, <4>2, StateFacts DEF RowsFit
      <4> QED
        BY <2>2, <4>1, <4>2
    <3> QED
      BY <3>1, <3>2
  <2>4. CASE r \in RowIds /\ q = n
    <3>1. trades'[r] = trades[r] /\ trades'[q] = row /\ o \in OrderIds
      BY <1>2, <2>2, <2>4, StateFacts
    <3> QED
      BY <1>2, <2>1, <2>4, <3>1
  <2> QED
    BY <1>2, <1>4, <2>2, <2>3, <2>4
<1> QED
  BY <1>3, <1>4

\* A pass begins with the rows its views show it, and only with those.
LEMMA EnterFits ==
    ASSUME Inv, NEW pass \in (Passes \cup {"idle"}) \ {"broker_exits"}, Enter(pass),
           UNCHANGED trades
    PROVE  TodoFits' /\ todo' \subseteq RowIds' /\ pc' \in Passes \cup {"idle"}
<1>1. pc' = pass /\ todo' = Selection(pass)
  BY DEF Enter
<1>2. Selection(pass) \subseteq RowIds
  BY DEF Selection, PendingBuys, PendingSells, FillsNeedingDecomposition, RowIds
<1>3. CASE pass = "entries"
  BY <1>1, <1>2, <1>3 DEF TodoFits, Selection, PendingBuys, RowIds
<1>4. CASE pass = "exits"
  BY <1>1, <1>2, <1>4 DEF TodoFits, Selection, PendingSells, RowIds
<1>5. CASE pass \notin {"entries", "exits", "broker_exits"}
  BY <1>1, <1>2, <1>5 DEF TodoFits, RowIds
<1> QED
  BY <1>3, <1>4, <1>5

LEMMA ListFits ==
    ASSUME Inv, ListBrokerExits
    PROVE  TodoFits' /\ todo' \subseteq RowIds' /\ pc' \in Passes \cup {"idle"}
<1>1. /\ pc' = "broker_exits" /\ trades' = trades /\ orders' = orders
      /\ todo' = {r \in UnclosedEntries(trades) : ~Holding(trades[r].ticker)}
  BY DEF ListBrokerExits
<1>2. UnclosedEntries(trades) \subseteq RowIds /\ UnclosedEntries(trades)' = UnclosedEntries(trades)
  BY <1>1 DEF UnclosedEntries, Latest, RowIds
<1>3. ASSUME NEW r \in todo' PROVE ~Held(trades[r].order)'
  <2>1. r \in RowIds /\ ~Holding(trades[r].ticker)
    BY <1>1, <1>2
  <2>2. ~Held(trades[r].order)
    BY <2>1, StateFacts DEF Inv, RowsFit, Holding, OrdersOf, OrderIds
  <2> QED
    BY <1>1, <2>2 DEF Held, Traded, Sells, OrdersOf
<1> QED
  BY <1>1, <1>2, <1>3 DEF TodoFits, StillOpen, UnclosedEntries, Latest, Passes, RowIds

\* While a pass is under way nobody else touches the rows it has still to do;
\* what an operator adds to them while pass 3 is under way is known for that.
LEMMA TodoKept ==
    ASSUME Inv, [Next]_vars, pc' = pc, todo' \subseteq todo,
           \A q \in todo' : trades'[q] = trades[q],
           \/ UNCHANGED trades
           \/ pc # "broker_exits"
           \/ \E o \in OrderIds : Repair(o)
           \/ \E r \in todo : ReconcileBrokerExit(r)
    PROVE  TodoFits' /\ todo' \subseteq RowIds' /\ pc' \in Passes \cup {"idle"}
<1> USE DEF Inv
<1>1. todo' \subseteq RowIds' /\ pc' \in Passes \cup {"idle"} /\ todo \subseteq RowIds
  BY RowsPersist DEF TypeOK, RowIds
<1>2. CASE pc # "broker_exits"
  BY <1>1, <1>2 DEF TodoFits
<1>3. CASE pc = "broker_exits"
  <2>1. ASSUME NEW q \in todo'
        PROVE  /\ StillOpen(q) /\ trades'[q] = trades[q]
               /\ ~Held(trades[q].order)'
    <3>1. PICK o \in OrderIds : StillOpen(q) /\ trades[q].order = o /\ ~Held(o)
      BY <1>1, <1>3, StateFacts DEF TodoFits
    <3>2. ~Live(o)
      BY <1>1, <3>1 DEF StillOpen, VerdictsAreTheBrokers, Live, AtWork, RowIds
    <3>3. trades'[q].order = o
      BY <3>1
    <3>4. ~Held(o)'
      BY <3>2, OverStaysOver DEF Live
    <3>5. ~Held(trades[q].order)'
      BY <3>3, <3>4 DEF Held, Traded, Sells, OrdersOf
    <3> QED
      BY <3>1, <3>5
  <2>2. CASE UNCHANGED trades
    <3>1. \A q : StillOpen(q)' = StillOpen(q)
      BY <2>2 DEF StillOpen, RowIds
    <3> QED
      BY <1>1, <1>3, <2>1, <3>1 DEF TodoFits
  <2>3. ASSUME NEW row \in Rows, trades' = Append(trades, row),
               \A q \in todo' : row.by = "barged" \/ row.ticker # trades[q].ticker
        PROVE  TodoFits'
    <3> DEFINE n == Len(trades) + 1
    <3>1. /\ \A p \in RowIds' : p \in RowIds \/ p = n
          /\ trades'[n] = row
          /\ \A p \in RowIds : trades'[p] = trades[p]
      BY <2>3, NewRowId
    <3> HIDE DEF n
    <3>2. ASSUME NEW q \in todo' PROVE StillOpen(q)'
      <4>1. StillOpen(q) /\ trades'[q] = trades[q] /\ q \in RowIds
        BY <1>1, <2>1, <3>2
      <4>2. row.by = "barged" \/ row.ticker # trades[q].ticker
        BY <2>3, <3>2
      <4>3. ASSUME NEW p \in RowIds', trades'[p].ticker = trades'[q].ticker
            PROVE  trades'[p].at <= trades'[q].at \/ trades'[p].by = "barged"
        <5>1. CASE p \in RowIds
          BY <3>1, <4>1, <4>3, <5>1 DEF StillOpen
        <5>2. CASE p = n
          BY <3>1, <4>1, <4>2, <4>3, <5>2
        <5> QED
          BY <3>1, <5>1, <5>2
      <4> QED
        BY <4>1, <4>3 DEF StillOpen
    <3> QED
      BY <1>3, <2>1, <3>2 DEF TodoFits
  <2>4. CASE \E o \in OrderIds : Repair(o)
    <3>1. PICK o \in OrderIds :
              trades' = Append(trades, TradeRow(orders[o].ticker, "SELL", orders[o].done, o,
                                                "FILLED", "barged"))
      BY <1>3, <2>4 DEF Repair, ByHand
    <3> DEFINE row == TradeRow(orders[o].ticker, "SELL", orders[o].done, o, "FILLED", "barged")
    <3>2. row \in Rows
      BY StateFacts, NewRow
    <3>3. row.by = "barged"
      BY DEF TradeRow
    <3>4. trades' = Append(trades, row)
      BY <3>1
    <3> HIDE DEF row
    <3> QED
      BY <1>1, <2>3, <3>2, <3>3, <3>4
  <2>5. CASE \E r \in todo : ReconcileBrokerExit(r)
    <3>0. PICK r \in todo : ReconcileBrokerExit(r)
      BY <2>5
    <3>1. PICK s \in RecentFilledSells(trades[r].ticker, trades[r].at) :
              trades' = Append(trades, TradeRow(trades[r].ticker, "SELL", now + 1, s,
                                                "FILLED", "pass"))
      BY <3>0 DEF ReconcileBrokerExit
    <3> DEFINE row == TradeRow(trades[r].ticker, "SELL", now + 1, s, "FILLED", "pass")
    <3>2. row.ticker = trades[r].ticker /\ todo' = todo \ {r}
      BY <3>0 DEF TradeRow, ReconcileBrokerExit, Done
    <3>3. row \in Rows
      <4>1. s \in Nat /\ trades[r].ticker \in Tickers
        BY <1>1, StateFacts DEF RecentFilledSells, Sells, OrdersOf, OrderIds, Rows
      <4> QED
        BY <4>1, StateFacts, NewRow
    <3> HIDE DEF row
    \* Two entries of a ticker that pass 3 has listed are the same row.
    <3>4. ASSUME NEW q \in todo' PROVE trades[q].ticker # trades[r].ticker
      <4> SUFFICES ASSUME trades[q].ticker = trades[r].ticker PROVE FALSE
        OBVIOUS
      <4>1. /\ q \in todo /\ q # r /\ q \in RowIds /\ r \in RowIds
            /\ StillOpen(q) /\ StillOpen(r)
        BY <1>1, <1>3, <2>1, <3>0, <3>2 DEF TodoFits
      <4>2. trades[q].by = "agent" /\ trades[r].by = "agent"
        BY <4>1 DEF StillOpen, RowsFit
      <4>3. trades[q].at = trades[r].at
        BY <4>1, <4>2, StateFacts DEF StillOpen
      <4> DEFINE e == trades[q].order
                 f == trades[r].order
      <4>4. /\ e \in OrderIds /\ f \in OrderIds
            /\ orders[e].placed = orders[f].placed
        BY <4>1, <4>3, StateFacts DEF StillOpen, RowsFit
      <4>5. e # f
        <5>1. q < r \/ r < q
          BY <4>1, StateFacts
        <5> QED
          BY <4>1, <4>2, <5>1 DEF ExitsJournaledOnce, RowIds
      <4> HIDE DEF e, f
      <4>6. /\ e \in Int /\ f \in Int /\ orders[e].placed \in Int /\ orders[f].placed \in Int
            /\ ~(e < f) /\ ~(f < e)
        BY <4>4, StateFacts DEF OrderTimes
      <4> QED
        BY <4>5, <4>6
    <3>5. trades' = Append(trades, row)
      BY <3>1 DEF row
    <3> QED
      BY <1>1, <2>3, <3>2, <3>3, <3>4, <3>5
  <2> QED
    BY <1>1, <1>3, <2>2, <2>4, <2>5
<1> QED
  BY <1>2, <1>3

LEMMA TodoStep ==
    ASSUME Inv, [Next]_vars
    PROVE  TodoFits' /\ todo' \subseteq RowIds' /\ pc' \in Passes \cup {"idle"}
<1> USE DEF Inv
<1>1. CASE RunAll \/ PassEnds \/ PassRaises \/ Crash
  <2>1. After(pc) \subseteq (Passes \cup {"idle"}) \ {"broker_exits"} \/ pc = "idle"
    BY DEF TypeOK, Passes, After
  <2>2. \E pass \in (Passes \cup {"idle"}) \ {"broker_exits"} : Enter(pass)
    BY <1>1, <2>1 DEF RunAll, PassEnds, PassRaises, Crash, Passes
  <2>3. UNCHANGED trades
    BY <1>1 DEF RunAll, PassEnds, PassRaises, Crash
  <2> QED
    BY <2>2, <2>3, EnterFits
<1>2. CASE ListBrokerExits
  BY <1>2, ListFits
<1>3. CASE BrokerStep \/ (\E w \in Windows : Age(w)) \/ UNCHANGED vars
  <2>1. UNCHANGED <<trades, pc, todo>>
    BY <1>3 DEF BrokerStep, Fill, PartlyFill, Die, StopFills, Age, vars
  <2> QED
    BY <2>1, TodoKept
<1>4. CASE \E t \in Tickers : Buy(t) \/ Exit(t)
  <2>1. pc = "idle" /\ pc' = pc /\ todo' = todo
    BY <1>4 DEF Buy, Exit
  <2>2. todo' \subseteq RowIds'
    BY <2>1, RowsPersist DEF TypeOK, RowIds
  <2> QED
    BY <2>1, <2>2 DEF TodoFits
<1>6. CASE \E o \in OrderIds : Repair(o)
  <2>1. pc' = pc /\ todo' = todo
    BY <1>6 DEF Repair
  <2>2. PICK row : row \in Rows /\ trades' = Append(trades, row)
    BY <1>6, RepairJournals DEF RowAppended
  <2>3. \A q \in RowIds : trades'[q] = trades[q]
    BY <2>2, NewRowId
  <2> QED
    BY <1>6, <2>1, <2>3, TodoKept DEF TypeOK, RowIds
<1>5. CASE \E r \in RowIds : RowStep(r) \/ Unanswered(r)
  <2>1. PICK r \in RowIds : RowStep(r) \/ Unanswered(r)
    BY <1>5
  <2>2. pc' = pc /\ r \in todo /\ todo' = todo \ {r}
    BY <2>1 DEF RowStep, Unanswered, SettleEntryFill, SettlePendingExit, ReconcileBrokerExit,
                DecomposeFill, Done
  <2>3. CASE ReconcileBrokerExit(r)
    <3>1. PICK row : row \in Rows /\ trades' = Append(trades, row)
      BY <2>3, BrokerExitJournals DEF RowAppended
    <3>2. \A q \in RowIds : trades'[q] = trades[q]
      BY <3>1, NewRowId
    <3> QED
      BY <2>2, <2>3, <3>2, TodoKept DEF TypeOK, RowIds
  <2>4. CASE Unanswered(r)
    BY <2>2, <2>4, TodoKept DEF Unanswered
  <2>5. CASE RowStep(r) /\ ~ReconcileBrokerExit(r)
    <3>1. pc # "broker_exits"
      BY <2>5 DEF RowStep, SettleEntryFill, SettlePendingExit, DecomposeFill
    <3>2. PICK row \in Rows : trades' = [trades EXCEPT ![r] = row]
      BY <2>2, <2>5, <3>1, RowChanges DEF RowRewritten, RowIds
    <3>3. \A q \in RowIds : q # r => trades'[q] = trades[q]
      BY <3>2, StateFacts DEF RowIds
    <3> QED
      BY <2>2, <3>1, <3>3, TodoKept DEF TypeOK, RowIds
  <2> QED
    BY <2>1, <2>3, <2>4, <2>5
<1> QED
  BY <1>1, <1>2, <1>3, <1>4, <1>5, <1>6 DEF Next, OutsideStep, RunStep, RowIds, OrderIds

LEMMA TypeStep ==
    ASSUME Inv, [Next]_vars
    PROVE  TypeOK'
<1> USE DEF Inv
<1>1. now' \in Nat /\ orders' \in Seq(Orders)
  BY OrdersPersist
<1>2. trades' \in Seq(Rows)
  BY RowsPersist
<1>3. \A r \in RowIds' : <<trades'[r].action, trades'[r].status>> \in Verdicts
  <2>1. CASE RowAppended
    <3>1. PICK row \in Rows :
              /\ trades' = Append(trades, row)
              /\ \/ row.action = "BUY" /\ row.status = "none"
                 \/ row.action = "SELL" /\ row.status \in {"PENDING_FILL", "FILLED"}
      BY <2>1 DEF RowAppended
    <3>2. \A r \in RowIds' : r \in RowIds \/ trades'[r] = row
      BY <3>1, NewRowId
    <3>3. \A r \in RowIds : <<trades'[r].action, trades'[r].status>> \in Verdicts
      BY RowsPersist
    <3>4. <<row.action, row.status>> \in Verdicts
      BY <3>1 DEF Verdicts
    <3> QED
      BY <3>2, <3>3, <3>4
  <2> QED
    BY <2>1, RowsPersist
<1>4. cutoff' \in [Windows -> Nat]
  <2>1. CASE \E w \in Windows : Age(w)
    <3>1. PICK w \in Windows, r \in RowIds : cutoff' = [cutoff EXCEPT ![w] = trades[r].at + 1]
      BY <2>1 DEF Age, RowIds
    <3> QED
      BY <3>1, StateFacts DEF TypeOK
  <2>2. CASE ~\E w \in Windows : Age(w)
    <3>1. UNCHANGED cutoff
      BY <2>2
         DEF Next, BrokerStep, OutsideStep, RunStep, RowStep, Fill, PartlyFill, Die, StopFills,
             Buy, Exit, Repair, RunAll, PassEnds, ListBrokerExits, SettleEntryFill,
             SettlePendingExit, ReconcileBrokerExit, DecomposeFill, Unanswered, PassRaises,
             Crash, vars
    <3> QED
      BY <3>1 DEF TypeOK
  <2> QED
    BY <2>1, <2>2
<1> QED
  BY <1>1, <1>2, <1>3, <1>4, TodoStep DEF TypeOK, RowIds

----------------------------------------------------------------------------
LEMMA InitInv ==
    ASSUME Init
    PROVE  Inv
<1>1. OrderIds = {} /\ RowIds = {} /\ todo = {}
  BY EmptySeq, LenProperties DEF Init, OrderIds, RowIds
<1>2. TypeOK
  BY <1>1, EmptySeq DEF Init, TypeOK, RowIds
<1> QED
  BY <1>1, <1>2
     DEF Inv, OrderTimes, OnePosition, RowsFit, TodoFits, VerdictsAreTheBrokers,
         ExitsJournaledOnce, LiveEntryLatest, RowIds

LEMMA Invariance == Spec => []Inv
<1>1. Inv /\ [Next]_vars => Inv'
  BY TypeStep, OrderTimesStep, OnePositionStep, RowsFitStep, LiveEntryStep, TodoStep DEF Inv
<1> QED
  BY <1>1, InitInv, PTL DEF Spec

\* Every state of an account and its journal has the shapes declared for it.
THEOREM TypeCorrect == Spec => []TypeOK
<1>1. Inv => TypeOK
  BY DEF Inv
<1> QED
  BY <1>1, Invariance, PTL

\* No failed lookup, no order still working, no lost race between the broker and
\* a pass ever leaves a verdict in the journal the broker did not give
\* (settle_entry_fills, settle_pending_exits, reconcile_broker_exits).
THEOREM VerdictsReal == Spec => []VerdictsAreTheBrokers
<1>1. Inv => VerdictsAreTheBrokers
  BY DEF Inv
<1> QED
  BY <1>1, Invariance, PTL

\* However runs are cut off, repeated and mixed with repairs by hand at any
\* moment, a sell gets a second row only from pass 3 and an operator who wrote
\* without seeing each other's row: the agent's orders and what pass 3 writes
\* have one, and an exit backfilled before pass 3 lists the open entries is not
\* journaled again (reconcile_broker_exits).
THEOREM JournaledOnce == Spec => []ExitsJournaledOnce
<1>1. Inv => ExitsJournaledOnce
  BY DEF Inv
<1> QED
  BY <1>1, Invariance, PTL

\* The entry of a protected position stays in pass 3's view, whatever is
\* backfilled beside it (get_unclosed_entries).
THEOREM LiveEntriesVisible == Spec => []OpenEntryVisible
<1>1. Inv => OpenEntryVisible
  <2> SUFFICES ASSUME Inv, NEW r \in RowIds, Watched(r)
               PROVE  r \in UnclosedEntries(trades)
    BY DEF OpenEntryVisible, RowIds
  <2>1. trades[r].action = "BUY" => trades[r].at = orders[trades[r].order].placed
    BY DEF Inv, RowsFit
  <2> QED
    BY <2>1 DEF Inv, Watched, LiveEntryLatest, Live, UnclosedEntries, RowIds
<1> QED
  BY <1>1, Invariance, PTL

----------------------------------------------------------------------------
(***************************************************************************)
(* The account and its journal implement OrderLedger.  An order of the     *)
(* agent's has one row (ExitsJournaledOnce), so what is entered of it is   *)
(* what that row says, and a second row about a stop says what the first   *)
(* does; and a row is rewritten only while it awaits its verdict           *)
(* (TodoFits), to the answer the broker has given (RowChanges).            *)
(***************************************************************************)

EnteredIn(table, o) ==
    {Says(table[r].status) : r \in {q \in DOMAIN table : table[q].order = o}}

\* The ledger's two variables, read off the orders and the table.
LEMMA LedgerIs ==
    /\ DOMAIN Outcomes = OrderIds /\ DOMAIN Entries = OrderIds
    /\ \A o \in OrderIds : Outcomes[o] = Reported(o) /\ Entries[o] = EnteredIn(trades, o)
BY DEF Outcomes, Entries, EnteredIn, OrderIds

\* An order with a single row has entered what the row says.
LEMMA SingleEntry ==
    ASSUME NEW table, NEW r \in DOMAIN table, NEW o, table[r].order = o,
           \A q \in DOMAIN table : table[q].order = o => q = r
    PROVE  EnteredIn(table, o) = {Says(table[r].status)}
BY DEF EnteredIn

\* An order without a row is not entered.
LEMMA NoEntry ==
    ASSUME NEW table, NEW o, \A q \in DOMAIN table : table[q].order # o
    PROVE  EnteredIn(table, o) = {}
BY DEF EnteredIn

\* Rows about other orders do not change what is entered of this one.
LEMMA SameEntry ==
    ASSUME NEW old, NEW new, NEW o, DOMAIN old \subseteq DOMAIN new,
           \A q \in DOMAIN new : q \notin DOMAIN old => new[q].order # o,
           \A q \in DOMAIN old :
               /\ new[q].order = old[q].order
               /\ old[q].order = o => Says(new[q].status) = Says(old[q].status)
    PROVE  EnteredIn(new, o) = EnteredIn(old, o)
<1>1. \A q \in DOMAIN new : new[q].order = o <=> q \in DOMAIN old /\ old[q].order = o
  OBVIOUS
<1>2. {q \in DOMAIN new : new[q].order = o} = {q \in DOMAIN old : old[q].order = o}
  BY <1>1
<1> QED
  BY <1>2 DEF EnteredIn

\* A step that changes no order and no answer of a row is a stutter.
LEMMA LedgerStands ==
    ASSUME UNCHANGED orders, \A o \in OrderIds : EnteredIn(trades', o) = EnteredIn(trades, o)
    PROVE  UNCHANGED Ledger!vars
<1>1. Outcomes' = Outcomes
  BY DEF Outcomes, Reported
<1>2. Entries' = [o \in OrderIds |-> EnteredIn(trades', o)]
  BY DEF Entries, EnteredIn, OrderIds
<1>3. Entries = [o \in OrderIds |-> EnteredIn(trades, o)]
  BY DEF Entries, EnteredIn, OrderIds
<1>4. Entries' = Entries
  BY <1>2, <1>3
<1> QED
  BY <1>1, <1>4 DEF Ledger!vars

\* One order's answer is entered, and nothing else.
LEMMA LedgerLearns ==
    ASSUME UNCHANGED orders, NEW o \in OrderIds, Reported(o) # "working",
           EnteredIn(trades, o) \in {{}, {"pending"}},
           EnteredIn(trades', o) = {Reported(o)},
           \A p \in OrderIds : p # o => EnteredIn(trades', p) = EnteredIn(trades, p)
    PROVE  Ledger!Next
<1>1. Outcomes' = Outcomes
  BY DEF Outcomes, Reported
<1>2. Entries' = [p \in OrderIds |-> EnteredIn(trades', p)]
  BY DEF Entries, EnteredIn, OrderIds
<1>3. Entries = [p \in OrderIds |-> EnteredIn(trades, p)]
  BY DEF Entries, EnteredIn, OrderIds
<1>4. Entries' = [Entries EXCEPT ![o] = {Outcomes[o]}]
  BY <1>2, <1>3, LedgerIs
<1> QED
  BY <1>1, <1>4, LedgerIs DEF Ledger!Next, Ledger!Learn

\* A function over one number more is the shorter one with an element appended.
LEMMA GrowsByOne ==
    ASSUME NEW S, NEW n \in Nat, NEW f \in [1..n -> S], NEW g \in [1..(n + 1) -> S],
           \A i \in 1..n : g[i] = f[i]
    PROVE  g = Append(f, g[n + 1])
<1>1. f \in Seq(S) /\ Len(f) = n /\ DOMAIN f = 1..n /\ g[n + 1] \in S
  BY SeqDef, LenProperties
<1>2. /\ Append(f, g[n + 1]) \in Seq(S)
      /\ DOMAIN Append(f, g[n + 1]) = 1..(n + 1)
      /\ \A i \in 1..n : Append(f, g[n + 1])[i] = f[i]
      /\ Append(f, g[n + 1])[n + 1] = g[n + 1]
  BY <1>1, AppendFacts
<1>3. \A i \in 1..(n + 1) : i \in 1..n \/ i = n + 1
  OBVIOUS
<1>4. Append(f, g[n + 1]) \in [1..(n + 1) -> S]
  BY <1>2, LenProperties
<1>5. \A i \in 1..(n + 1) : Append(f, g[n + 1])[i] = g[i]
  BY <1>2, <1>3
<1> QED
  BY <1>4, <1>5

\* A new order and its row, if it has one, are a new order of the ledger.
LEMMA LedgerGrows ==
    ASSUME Inv, [Next]_vars, NEW new \in Orders, orders' = Append(orders, new),
           NEW n, n = Len(orders) + 1
    PROVE  /\ n \in OrderIds' /\ n \notin OrderIds
           /\ orders'[n] = new
           /\ Outcomes' = Append(Outcomes, Reported(n)')
           /\ (\A o \in OrderIds : EnteredIn(trades', o) = EnteredIn(trades, o)) =>
                  Entries' = Append(Entries, EnteredIn(trades', n))
<1> USE DEF Inv
<1> DEFINE Answers == {"working", "filled", "dead"}
           Said == SUBSET {"pending", "filled", "dead"}
<1>1. PICK m \in Nat :
          /\ n = m + 1 /\ OrderIds = 1..m /\ OrderIds' = 1..n
          /\ orders'[n] = new
          /\ \A o \in OrderIds : orders'[o] = orders[o]
  <2>1. /\ Len(orders) \in Nat /\ OrderIds = 1..Len(orders) /\ orders \in Seq(Orders)
    BY StateFacts
  <2>2. /\ OrderIds' = 1..(Len(orders) + 1) /\ orders'[Len(orders) + 1] = new
        /\ \A o \in OrderIds : orders'[o] = orders[o]
    BY <2>1, AppendFacts DEF OrderIds
  <2> QED
    BY <2>1, <2>2
<1>2. Outcomes = [o \in 1..m |-> Reported(o)] /\ Outcomes' = [o \in 1..n |-> Reported(o)']
  BY <1>1 DEF Outcomes, OrderIds
<1>3. \A o : Reported(o) \in Answers /\ Reported(o)' \in Answers
  BY DEF Reported
<1>4. \A o \in 1..m : Reported(o)' = Reported(o)
  BY <1>1 DEF Reported
<1>5. Outcomes' = Append(Outcomes, Outcomes'[n])
  <2>1. Outcomes \in [1..m -> Answers] /\ Outcomes' \in [1..(m + 1) -> Answers]
    BY <1>1, <1>2, <1>3
  <2>2. \A o \in 1..m : Outcomes'[o] = Outcomes[o]
    BY <1>1, <1>2, <1>4
  <2> HIDE DEF Answers
  <2>3. Outcomes' = Append(Outcomes, Outcomes'[m + 1])
    BY <2>1, <2>2, GrowsByOne
  <2> QED
    BY <1>1, <2>3
<1>6. Entries = [o \in 1..m |-> EnteredIn(trades, o)]
  BY <1>1 DEF Entries, EnteredIn, OrderIds
<1>7. Entries' = [o \in 1..n |-> EnteredIn(trades', o)]
  BY <1>1 DEF Entries, EnteredIn, OrderIds
<1>8. \A table, o : EnteredIn(table, o) \in Said
  BY DEF EnteredIn, Says
<1>9. ASSUME \A o \in OrderIds : EnteredIn(trades', o) = EnteredIn(trades, o)
      PROVE  Entries' = Append(Entries, Entries'[n])
  <2>1. Entries \in [1..m -> Said] /\ Entries' \in [1..(m + 1) -> Said]
    BY <1>1, <1>6, <1>7, <1>8
  <2>2. \A o \in 1..m : Entries'[o] = Entries[o]
    BY <1>1, <1>6, <1>7, <1>9
  <2> HIDE DEF Said
  <2>3. Entries' = Append(Entries, Entries'[m + 1])
    BY <2>1, <2>2, GrowsByOne
  <2> QED
    BY <1>1, <2>3
<1>10. n \in 1..n /\ n \notin 1..m
  BY <1>1
<1>11. Outcomes'[n] = Reported(n)' /\ Entries'[n] = EnteredIn(trades', n)
  BY <1>2, <1>7, <1>10
<1> QED
  BY <1>1, <1>5, <1>9, <1>10, <1>11

\* An appended row is entered of its order, and leaves the others' entries alone.
LEMMA AppendEnters ==
    ASSUME Inv, [Next]_vars, NEW row \in Rows, trades' = Append(trades, row),
           NEW o, row.order = o
    PROVE  /\ EnteredIn(trades', o) = EnteredIn(trades, o) \cup {Says(row.status)}
           /\ \A p : p # o => EnteredIn(trades', p) = EnteredIn(trades, p)
<1>1. PICK m :
          /\ \A r \in DOMAIN trades' : r \in DOMAIN trades \/ r = m
          /\ m \in DOMAIN trades' /\ m \notin DOMAIN trades
          /\ trades'[m] = row
          /\ \A r \in DOMAIN trades : r \in DOMAIN trades' /\ trades'[r] = trades[r]
  <2>1. PICK m : m = Len(trades) + 1
    OBVIOUS
  <2>2. /\ \A r \in RowIds' : r \in RowIds \/ r = m
        /\ m \in RowIds' /\ m \notin RowIds /\ trades'[m] = row
        /\ \A r \in RowIds : trades'[r] = trades[r]
    BY <2>1, NewRowId
  <2>3. \A r \in RowIds : r \in RowIds'
    BY RowsPersist
  <2> QED
    BY <2>2, <2>3 DEF RowIds
<1>2. {q \in DOMAIN trades' : trades'[q].order = o} =
      {q \in DOMAIN trades : trades[q].order = o} \cup {m}
  BY <1>1
<1>3. EnteredIn(trades', o) = EnteredIn(trades, o) \cup {Says(row.status)}
  BY <1>1, <1>2 DEF EnteredIn
<1>4. ASSUME NEW p, p # o
      PROVE  EnteredIn(trades', p) = EnteredIn(trades, p)
  <2>1. /\ DOMAIN trades \subseteq DOMAIN trades'
        /\ \A q \in DOMAIN trades' : q \notin DOMAIN trades => trades'[q].order # p
        /\ \A q \in DOMAIN trades :
               /\ trades'[q].order = trades[q].order
               /\ trades[q].order = p => Says(trades'[q].status) = Says(trades[q].status)
    BY <1>1, <1>4
  <2> QED
    BY <2>1, SameEntry
<1> QED
  BY <1>3, <1>4

\* The broker gives an order its final answer, or fills a part of it.
LEMMA LedgerFinishes ==
    ASSUME TypeOK, OrderRewritten, UNCHANGED trades
    PROVE  Ledger!Next \/ UNCHANGED Ledger!vars
<1>1. PICK o \in OrderIds, new \in Orders :
          /\ AtWork(o)
          /\ orders' = [orders EXCEPT ![o] = new]
          /\ new.status \in {"filled", "partial", "canceled", "lost"}
  BY DEF OrderRewritten, OrderIds
<1>2. /\ OrderIds' = OrderIds /\ orders'[o] = new
      /\ \A p \in OrderIds : p # o => orders'[p] = orders[p]
  BY <1>1, ExceptFacts DEF TypeOK, OrderIds
<1>3. Entries' = Entries
  BY <1>2 DEF Entries, OrderIds
<1>4. Outcomes' = [p \in OrderIds |-> Reported(p)'] /\ Outcomes = [p \in OrderIds |-> Reported(p)]
  BY <1>2 DEF Outcomes, OrderIds
<1>5. \A p \in OrderIds : p # o => Reported(p)' = Reported(p)
  BY <1>2 DEF Reported
<1>6. Reported(o) = "working" /\ Reported(o)' \in {"working", "filled", "dead"}
  BY <1>1 DEF Reported, AtWork
<1>7. Outcomes' = [Outcomes EXCEPT ![o] = Reported(o)']
  BY <1>4, <1>5
<1>8. CASE Reported(o)' = "working"
  <2>1. Outcomes' = Outcomes
    BY <1>4, <1>5, <1>6, <1>8
  <2> QED
    BY <1>3, <2>1 DEF Ledger!vars
<1>9. CASE Reported(o)' \in {"filled", "dead"}
  BY <1>3, <1>4, <1>6, <1>7, <1>9, LedgerIs DEF Ledger!Next, Ledger!Finish
<1> QED
  BY <1>6, <1>8, <1>9

\* An order the agent places is entered with no answer (Buy, Exit).
LEMMA LedgerSubmits ==
    ASSUME Inv, NEW t \in Tickers, Buy(t) \/ Exit(t)
    PROVE  Ledger!Next
<1> USE DEF Inv
<1>0. PICK n : n = Len(orders) + 1
  OBVIOUS
<1>1. PICK new \in Orders, row \in Rows :
          /\ orders' = Append(orders, new) /\ new.status = "new"
          /\ trades' = Append(trades, row) /\ row.order = n
          /\ row.status \in {"none", "PENDING_FILL"}
  <2>1. now \in Nat /\ n \in Nat /\ 0 \in Nat /\ "new" \in Statuses
    BY <1>0, StateFacts DEF Statuses
  <2>2. CASE Buy(t)
    <3> DEFINE new == [ticker |-> t, side |-> "buy", status |-> "new",
                       placed |-> now + 1, done |-> 0]
               row == TradeRow(t, "BUY", now + 1, n, "none", "agent")
    <3>1. new \in Orders /\ row \in Rows
      BY <2>1, NewOrder, NewRow
    <3>2. orders' = Append(orders, new) /\ trades' = Append(trades, row)
      BY <1>0, <2>2 DEF Buy, Place
    <3>3. new.status = "new" /\ row.order = n /\ row.status = "none"
      BY DEF TradeRow
    <3> QED
      BY <3>1, <3>2, <3>3
  <2>3. CASE Exit(t)
    <3> DEFINE new == [ticker |-> t, side |-> "sell", status |-> "new",
                       placed |-> now + 1, done |-> 0]
               row == TradeRow(t, "SELL", now + 1, n, "PENDING_FILL", "agent")
    <3>1. new \in Orders /\ row \in Rows
      BY <2>1, NewOrder, NewRow
    <3>2. orders' = Append(orders, new) /\ trades' = Append(trades, row)
      BY <1>0, <2>3 DEF Exit, Place
    <3>3. new.status = "new" /\ row.order = n /\ row.status = "PENDING_FILL"
      BY DEF TradeRow
    <3> QED
      BY <3>1, <3>2, <3>3
  <2> QED
    BY <2>2, <2>3
<1>2. [Next]_vars
  BY DEF Next, OutsideStep
<1>3. n \notin OrderIds /\ orders'[n] = new
  BY <1>0, <1>1, <1>2, LedgerGrows
<1>4. \A q \in RowIds : trades[q].order # n
  BY <1>3, StateFacts
<1>5. /\ EnteredIn(trades', n) = {Says(row.status)}
      /\ \A o \in OrderIds : EnteredIn(trades', o) = EnteredIn(trades, o)
  <2>1. EnteredIn(trades, n) = {}
    BY <1>4, NoEntry DEF RowIds
  <2> QED
    BY <1>1, <1>2, <1>3, <2>1, AppendEnters
<1>6. Says(row.status) = "pending"
  BY <1>1 DEF Says
<1>7. Reported(n)' = "working"
  BY <1>1, <1>3 DEF Reported
<1> QED
  BY <1>0, <1>1, <1>2, <1>5, <1>6, <1>7, LedgerGrows DEF Ledger!Next, Ledger!Submit

\* A stop fires unseen.
LEMMA LedgerTriggers ==
    ASSUME Inv, NEW t \in Tickers, StopFills(t)
    PROVE  Ledger!Next
<1> USE DEF Inv
<1>0. PICK n : n = Len(orders) + 1
  OBVIOUS
<1> DEFINE new == [ticker |-> t, side |-> "stop", status |-> "filled",
                   placed |-> now + 1, done |-> now + 1]
<1>1. orders' = Append(orders, new) /\ trades' = trades /\ new \in Orders
  BY StateFacts, NewOrder DEF StopFills, Statuses
<1>2. [Next]_vars
  BY DEF Next, BrokerStep
<1>3. n \notin OrderIds /\ orders'[n] = new
  BY <1>0, <1>1, <1>2, LedgerGrows
<1>4. Reported(n)' = "filled"
  BY <1>3 DEF Reported
<1> HIDE DEF new
<1>5. EnteredIn(trades', n) = {}
  BY <1>1, <1>3, StateFacts, NoEntry DEF RowIds
<1> QED
  BY <1>0, <1>1, <1>2, <1>4, <1>5, LedgerGrows DEF Ledger!Next, Ledger!Trigger

\* The row of a filled order that the agent has no row about enters the answer
\* the broker has given, or enters it again (Repair, ReconcileBrokerExit).
LEMMA LedgerBackfilled ==
    ASSUME Inv, [Next]_vars, UNCHANGED orders, NEW row \in Rows, trades' = Append(trades, row),
           NEW o \in OrderIds, row.order = o, row.status = "FILLED",
           orders[o].status = "filled",
           \A q \in RowIds : trades[q].order = o => trades[q].by # "agent"
    PROVE  Ledger!Next \/ UNCHANGED Ledger!vars
<1>1. Reported(o) = "filled" /\ Says(row.status) = "filled"
  BY DEF Reported, Says
<1>2. \A q \in RowIds : trades[q].order = o => Says(trades[q].status) = "filled"
  BY DEF Inv, RowsFit, Says
<1>3. EnteredIn(trades, o) \in {{}, {"filled"}}
  BY <1>2 DEF EnteredIn, RowIds
<1>4. /\ EnteredIn(trades', o) = {"filled"}
      /\ \A p \in OrderIds : p # o => EnteredIn(trades', p) = EnteredIn(trades, p)
  <2>1. EnteredIn(trades', o) = EnteredIn(trades, o) \cup {"filled"}
    BY <1>1, AppendEnters
  <2>2. \A p \in OrderIds : p # o => EnteredIn(trades', p) = EnteredIn(trades, p)
    BY AppendEnters
  <2> QED
    BY <1>3, <2>1, <2>2
<1>5. CASE EnteredIn(trades, o) = {}
  BY <1>1, <1>4, <1>5, LedgerLearns
<1>6. CASE EnteredIn(trades, o) = {"filled"}
  BY <1>4, <1>6, LedgerStands
<1> QED
  BY <1>3, <1>5, <1>6

\* A pass that rewrites a row enters the broker's answer, or changes nothing the
\* ledger knows of (SettleEntryFill, SettlePendingExit, DecomposeFill).
LEMMA LedgerSettles ==
    ASSUME Inv, NEW r \in todo, RowRewritten(r), UNCHANGED orders
    PROVE  Ledger!Next \/ UNCHANGED Ledger!vars
<1> USE DEF Inv
<1>1. r \in RowIds
  BY DEF TypeOK, RowIds
<1> DEFINE o == trades[r].order
<1>2. PICK row \in Rows :
          /\ trades' = [trades EXCEPT ![r] = row]
          /\ row.order = o
          /\ \/ Says(row.status) = Says(trades[r].status)
             \/ /\ trades[r].status \in {"none", "PENDING_FILL"}
                /\ Reported(o) # "working" /\ Says(row.status) = Reported(o)
  <2>1. PICK row \in Rows :
            /\ trades' = [trades EXCEPT ![r] = row]
            /\ row.order = o
            /\ \/ pc = "entries" /\ row.status = EntryVerdict(r)
               \/ /\ pc = "exits"
                  /\ \/ Reported(o) = "filled" /\ row.status = "FILLED"
                     \/ Reported(o) = "dead" /\ row.status = "FAILED"
               \/ row.status = trades[r].status
    BY DEF RowRewritten
  <2> HIDE DEF o
  <2>2. CASE pc = "entries" /\ row.status = EntryVerdict(r)
    <3>1. trades[r].status = "none"
      BY <2>2 DEF TodoFits
    <3>2. \/ row.status = "FILLED" /\ Reported(o) = "filled"
          \/ row.status = "UNFILLED" /\ Reported(o) = "dead"
          \/ row.status = trades[r].status
      BY <2>2 DEF EntryVerdict, o
    <3> QED
      BY <2>1, <3>1, <3>2 DEF Says
  <2>3. CASE /\ pc = "exits"
             /\ \/ Reported(o) = "filled" /\ row.status = "FILLED"
                \/ Reported(o) = "dead" /\ row.status = "FAILED"
    <3>1. trades[r].status = "PENDING_FILL"
      BY <2>3 DEF TodoFits
    <3> QED
      BY <2>1, <2>3, <3>1 DEF Says
  <2> QED
    BY <2>1, <2>2, <2>3
<1>3. /\ RowIds' = RowIds /\ trades'[r] = row
      /\ \A q \in RowIds : q # r => trades'[q] = trades[q]
  BY <1>1, <1>2, StateFacts, ExceptFacts DEF RowIds
<1>4. trades[r].by = "agent" => \A q \in RowIds : trades[q].order = o => q = r
  <2>1. \A q \in RowIds : q = r \/ q < r \/ r < q
    BY <1>1, StateFacts
  <2> QED
    BY <1>1, <2>1 DEF ExitsJournaledOnce, ByHand, RowIds
<1>5. o \in OrderIds
  BY <1>1, StateFacts
<1> HIDE DEF o
<1>6. \A q \in RowIds : trades'[q].order = trades[q].order
  BY <1>2, <1>3 DEF o
<1>7. ASSUME NEW p \in OrderIds, p # o \/ Says(row.status) = Says(trades[r].status)
      PROVE  EnteredIn(trades', p) = EnteredIn(trades, p)
  <2>1. \A q \in RowIds : trades[q].order = p => Says(trades'[q].status) = Says(trades[q].status)
    BY <1>3, <1>7 DEF o
  <2> QED
    BY <1>3, <1>6, <2>1, SameEntry DEF RowIds
<1>8. CASE Says(row.status) = Says(trades[r].status)
  BY <1>7, <1>8, LedgerStands
<1>9. CASE /\ trades[r].status \in {"none", "PENDING_FILL"}
           /\ Reported(o) # "working" /\ Says(row.status) = Reported(o)
  <2>0. \A q \in RowIds : trades[q].order = o => q = r
    BY <1>1, <1>4, <1>9 DEF RowsFit
  <2>1. EnteredIn(trades, o) = {Says(trades[r].status)}
    BY <1>1, <2>0, SingleEntry DEF RowIds, o
  <2>2. EnteredIn(trades', o) = {Says(row.status)}
    <3>1. trades'[r].order = o
      BY <1>1, <1>6 DEF o
    <3>2. \A q \in RowIds' : trades'[q].order = trades'[r].order => q = r
      BY <1>3, <2>0, <1>6, <3>1
    <3> QED
      BY <1>1, <1>3, <3>1, <3>2, SingleEntry DEF RowIds
  <2>3. Says(trades[r].status) = "pending"
    BY <1>9 DEF Says
  <2> QED
    BY <1>5, <1>7, <1>9, <2>1, <2>2, <2>3, LedgerLearns
<1> QED
  BY <1>2, <1>8, <1>9

\* However passes fail, are cut off and run again beside a broker that never
\* stops, the journal learns each order's answer once, after the broker gave it,
\* and keeps it (run_all).
THEOREM ImplementsLedger == Spec => LedgerSpec
<1>1. Init => Ledger!Init
  <2> SUFFICES ASSUME Init PROVE Outcomes = <<>> /\ Entries = <<>>
    BY DEF Ledger!Init
  <2>1. DOMAIN orders = {}
    BY EmptySeq, LenProperties DEF Init
  <2> QED
    BY <2>1 DEF Outcomes, Entries
<1>2. Inv /\ [Next]_vars => [Ledger!Next]_(Ledger!vars)
  <2> SUFFICES ASSUME Inv, [Next]_vars PROVE Ledger!Next \/ UNCHANGED Ledger!vars
    OBVIOUS
  <2>1. CASE \E o \in OrderIds : Fill(o) \/ PartlyFill(o) \/ Die(o)
    <3>1. OrderRewritten /\ UNCHANGED trades
      BY <2>1, OrderChanges DEF Inv, OrderIds, Fill, PartlyFill, Die
    <3> QED
      BY <3>1, LedgerFinishes DEF Inv
  <2>2. CASE \E t \in Tickers : StopFills(t) \/ Buy(t) \/ Exit(t)
    BY <2>2, LedgerTriggers, LedgerSubmits
  <2>3. CASE \E o \in OrderIds : Repair(o)
    <3>1. PICK o \in OrderIds : Repair(o)
      BY <2>3
    <3>b. PICK by \in ByHand :
              trades' = Append(trades, TradeRow(orders[o].ticker, "SELL", orders[o].done, o,
                                                "FILLED", by))
      BY <3>1 DEF Repair
    <3> DEFINE row == TradeRow(orders[o].ticker, "SELL", orders[o].done, o, "FILLED", by)
    <3>2. row \in Rows /\ row.order = o /\ row.status = "FILLED"
      <4>1. row \in Rows
        BY StateFacts, NewRow DEF Inv, ByHand
      <4> QED
        BY <4>1 DEF TradeRow
    <3>3. /\ trades' = Append(trades, row) /\ UNCHANGED orders /\ orders[o].side = "stop"
          /\ \A q \in RowIds : trades[q].order = o => trades[q].by # "agent"
      BY <3>1, <3>b DEF Repair, Inv, RowsFit
    <3>4. orders[o].status = "filled"
      BY <3>3 DEF Inv, OrderTimes
    <3> HIDE DEF row
    <3> QED
      BY <3>2, <3>3, <3>4, LedgerBackfilled
  <2>4. CASE \E r \in RowIds : RowStep(r)
    <3>1. PICK r \in RowIds : RowStep(r)
      BY <2>4
    <3>2. r \in todo /\ UNCHANGED orders
      BY <3>1 DEF RowStep, SettleEntryFill, SettlePendingExit, ReconcileBrokerExit, DecomposeFill
    <3>3. CASE ReconcileBrokerExit(r)
      <4>1. PICK row \in Rows :
                /\ trades' = Append(trades, row)
                /\ row.order \in OrderIds'
                /\ \A q \in RowIds : trades[q].order = row.order => trades[q].by # "agent"
                /\ \/ row.status = "FILLED" /\ orders'[row.order].status = "filled"
                   \/ row.status \in {"none", "PENDING_FILL"}
        BY <3>3, BrokerExitJournals DEF RowAppended, Unseen
      <4>2. row.status = "FILLED"
        <5>1. PICK s \in RecentFilledSells(trades[r].ticker, trades[r].at) :
                  trades' = Append(trades, TradeRow(trades[r].ticker, "SELL", now + 1, s, "FILLED", "pass"))
          BY <3>3 DEF ReconcileBrokerExit
        <5> DEFINE new == TradeRow(trades[r].ticker, "SELL", now + 1, s, "FILLED", "pass")
        <5>2. s \in Nat
          BY StateFacts DEF Inv, RecentFilledSells, Sells, OrdersOf, OrderIds
        <5>3. new \in Rows /\ new.status = "FILLED"
          BY <5>2, StateFacts, NewRow DEF Inv, Rows, TradeRow
        <5> HIDE DEF new
        <5>4. trades'[Len(trades) + 1] = new /\ trades'[Len(trades) + 1] = row
          BY <4>1, <5>1, <5>3, NewRowId DEF new
        <5> QED
          BY <5>3, <5>4
      <4> QED
        BY <3>2, <4>1, <4>2, LedgerBackfilled DEF OrderIds
    <3>4. CASE ~ReconcileBrokerExit(r)
      <4>1. pc # "broker_exits"
        BY <3>1, <3>4 DEF RowStep, SettleEntryFill, SettlePendingExit, DecomposeFill
      <4> QED
        BY <3>1, <3>2, <4>1, RowChanges, LedgerSettles DEF Inv, RowIds
    <3> QED
      BY <3>3, <3>4
  <2>5. CASE \/ \E w \in Windows : Age(w)
             \/ RunAll \/ PassEnds \/ ListBrokerExits \/ PassRaises \/ Crash \/ UNCHANGED vars
             \/ \E r \in RowIds : Unanswered(r)
    <3>1. UNCHANGED <<orders, trades>>
      BY <2>5 DEF Age, RunAll, PassEnds, ListBrokerExits, PassRaises, Crash, Unanswered, vars
    <3> QED
      BY <3>1, LedgerStands
  <2> QED
    BY <2>1, <2>2, <2>3, <2>4, <2>5
       DEF Next, BrokerStep, OutsideStep, RunStep, OrderIds, RowIds
<1> QED
  BY <1>1, <1>2, Invariance, PTL DEF Spec, LedgerSpec, Ledger!Spec
=============================================================================
