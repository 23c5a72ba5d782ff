--------------------------- MODULE Reconciliation ---------------------------
(***************************************************************************)
(* FillReconciler of tradeops/journal/reconciliation.py: its four passes   *)
(* over the trades table, row by row, against a broker whose orders fill   *)
(* and die on their own.  A scheduler calls run_all and the agent's        *)
(* trading loop in turn, so the loop is idle while a run is under way; the *)
(* broker never is, and operators are not.                                 *)
(*                                                                         *)
(* Alerts and position events are left out: nothing reads them back.       *)
(***************************************************************************)
EXTENDS TradeLedger

CONSTANTS
    MaxOrders,   \* bound: orders and stop fills in the life of the account
    Faults,      \* which of "lookup", "raise", "crash", "partial" may happen
    Habits       \* "reenter": the agent buys a ticker whose entry the journal
                 \*   calls open; "repair": operators backfill missing exits

ASSUME ReconciliationAssumption ==
    /\ MaxOrders \in Nat
    /\ Faults \subseteq {"lookup", "raise", "crash", "partial"}
    /\ Habits \subseteq {"reenter", "repair"}

VARIABLES
    orders,     \* the broker's order history; a stop appears when it fills
    trades,     \* the trades table
    now,        \* the time of the newest event
    cutoff,     \* the oldest time each retry window reaches
    pc,         \* the pass under way, or "idle"
    todo        \* ids of the rows the pass has selected and not yet done

vars == <<orders, trades, now, cutoff, pc, todo>>

\* "lost" is an order cancelled after a part of it filled.
Statuses == {"new", "partial", "filled", "canceled", "lost"}

Orders ==
    [ticker : Tickers, side : {"buy", "sell", "stop"}, status : Statuses,
     placed : Nat, done : Nat]

Windows == {"pending", "decomposition"}

Passes == {"entries", "exits", "positions", "broker_exits", "decomposition"}

TypeOK ==
    /\ orders \in Seq(Orders)
    /\ trades \in Seq(Rows)
    /\ \A r \in DOMAIN trades : <<trades[r].action, trades[r].status>> \in Verdicts
    /\ now \in Nat
    /\ cutoff \in [Windows -> Nat]
    /\ pc \in Passes \cup {"idle"}
    /\ todo \subseteq DOMAIN trades

Init ==
    /\ orders = <<>>
    /\ trades = <<>>
    /\ now = 0
    /\ cutoff = [w \in Windows |-> 0]
    /\ pc = "idle"
    /\ todo = {}

----------------------------------------------------------------------------
(* The broker *)

\* Shares changed hands.
Traded(o) == orders[o].status \in {"partial", "filled", "lost"}

OrdersOf(t) == {o \in DOMAIN orders : orders[o].ticker = t}

Sells(t) == {o \in OrdersOf(t) : orders[o].side # "buy"}

\* The shares entry o brought are in the account.
Held(o) ==
    /\ orders[o].side = "buy"
    /\ Traded(o)
    /\ ~\E s \in Sells(orders[o].ticker) : Traded(s) /\ orders[s].done > orders[o].done

Holding(t) == \E o \in OrdersOf(t) : Held(o)

Working(t) == \E o \in OrdersOf(t) : orders[o].status \in {"new", "partial"}

\* The stop of a position rests from its entry's fill until the agent cancels
\* it to sell.
StopRests(t) ==
    /\ ~Working(t)
    /\ \E o \in OrdersOf(t) :
           Held(o) /\ ~\E s \in Sells(t) : orders[s].placed > orders[o].placed

Stamp == now' = now + 1

Fill(o) ==
    /\ orders[o].status \in {"new", "partial"}
    /\ Stamp
    /\ orders' = [orders EXCEPT ![o].status = "filled",
                                ![o].done = IF @ = 0 THEN now + 1 ELSE @]
    /\ UNCHANGED <<trades, cutoff, pc, todo>>

PartlyFill(o) ==
    /\ "partial" \in Faults
    /\ orders[o].status = "new" /\ orders[o].side = "buy"
    /\ Stamp
    /\ orders' = [orders EXCEPT ![o].status = "partial", ![o].done = now + 1]
    /\ UNCHANGED <<trades, cutoff, pc, todo>>

\* Cancelled, expired or rejected.
Die(o) ==
    /\ \/ /\ orders[o].status = "new"
          /\ orders' = [orders EXCEPT ![o].status = "canceled"]
       \/ /\ orders[o].status = "partial"
          /\ orders' = [orders EXCEPT ![o].status = "lost"]
    /\ UNCHANGED <<trades, now, cutoff, pc, todo>>

StopFills(t) ==
    /\ Len(orders) < MaxOrders
    /\ StopRests(t)
    /\ Stamp
    /\ orders' = Append(orders, [ticker |-> t, side |-> "stop", status |-> "filled",
                                 placed |-> now + 1, done |-> now + 1])
    /\ UNCHANGED <<trades, cutoff, pc, todo>>

----------------------------------------------------------------------------
(* The trading loop and the operators *)

Place(t, side) ==
    /\ Len(orders) < MaxOrders
    /\ Stamp
    /\ orders' = Append(orders, [ticker |-> t, side |-> side, status |-> "new",
                                 placed |-> now + 1, done |-> 0])

\* The journal takes t's newest entry for open, or has no verdict on it yet.
CalledOpen(t) ==
    \E r \in UnclosedEntries(trades) \cup PendingBuys(trades, 0) : trades[r].ticker = t

Buy(t) ==
    /\ pc = "idle"
    /\ ~Holding(t) /\ ~Working(t)
    /\ "reenter" \in Habits \/ ~CalledOpen(t)
    /\ Place(t, "buy")
    /\ trades' = Append(trades, TradeRow(t, "BUY", now + 1, Len(orders) + 1,
                                        "none", "agent"))
    /\ UNCHANGED <<cutoff, pc, todo>>

\* The loop cancels the stop, places the exit and journals it ahead of its fill.
Exit(t) ==
    /\ pc = "idle"
    /\ StopRests(t)
    /\ Place(t, "sell")
    /\ trades' = Append(trades, TradeRow(t, "SELL", now + 1, Len(orders) + 1,
                                        "PENDING_FILL", "agent"))
    /\ UNCHANGED <<cutoff, pc, todo>>

Journaled(o) == \E r \in DOMAIN trades : trades[r].order = o

ByHand == {"hand", "barged"}

\* An operator backfills an exit, stamped with the time of its fill, whatever
\* pass is under way.  What he has seen missing he writes once, though the
\* journal may have got it since he looked.
Repair(o) ==
    /\ "repair" \in Habits
    /\ orders[o].side = "stop"
    /\ ~\E r \in DOMAIN trades : trades[r].order = o /\ trades[r].by \in ByHand
    /\ \E by \in ByHand :
           /\ by = "barged" <=> pc = "broker_exits"
           /\ trades' = Append(trades, TradeRow(orders[o].ticker, "SELL", orders[o].done,
                                                o, "FILLED", by))
    /\ UNCHANGED <<orders, now, cutoff, pc, todo>>

\* Time passes: a window leaves its oldest row behind, the shorter one first.
Age(w) ==
    /\ \E r \in DOMAIN trades :
           /\ trades[r].at >= cutoff[w]
           /\ \A q \in DOMAIN trades :
                  trades[q].at >= cutoff[w] => trades[q].at >= trades[r].at
           /\ w = "decomposition" => trades[r].at < cutoff["pending"]
           /\ cutoff' = [cutoff EXCEPT ![w] = trades[r].at + 1]
    /\ UNCHANGED <<orders, trades, now, pc, todo>>

----------------------------------------------------------------------------
(* run_all *)

\* Mutant of Selection: decomposition gives up with the shorter window.
SelectionInOneWindow(pass) ==
    CASE pass = "entries" -> PendingBuys(trades, cutoff["pending"])
      [] pass = "exits" -> PendingSells(trades, cutoff["pending"])
      [] pass = "decomposition" ->
             FillsNeedingDecomposition(trades, cutoff["pending"])
      [] OTHER -> {}

\* The rows a pass takes up, read when it begins.
Selection(pass) ==
    CASE pass = "entries" -> PendingBuys(trades, cutoff["pending"])
      [] pass = "exits" -> PendingSells(trades, cutoff["pending"])
      [] pass = "decomposition" ->
             FillsNeedingDecomposition(trades, cutoff["decomposition"])
      [] OTHER -> {}

Enter(pass) == pc' = pass /\ todo' = Selection(pass)

RunAll ==
    /\ pc = "idle"
    /\ Enter("entries")
    /\ UNCHANGED <<orders, trades, now, cutoff>>

\* What may follow a pass; the run after the open leaves decomposition out.
After(pass) ==
    CASE pass = "entries" -> {"exits"}
      [] pass = "exits" -> {"positions"}
      [] pass = "positions" -> {"decomposition", "idle"}
      [] pass = "broker_exits" -> {"decomposition", "idle"}
      [] pass = "decomposition" -> {"idle"}

PassEnds ==
    /\ pc \notin {"idle", "positions"}
    /\ todo = {}
    /\ \E next \in After(pc) : Enter(next)
    /\ UNCHANGED <<orders, trades, now, cutoff>>

\* Mutant of PassRaises: an exception ends the run.
PassRaisesEndsRun ==
    /\ "raise" \in Faults
    /\ pc # "idle"
    /\ Enter("idle")
    /\ UNCHANGED <<orders, trades, now, cutoff>>

\* An exception of the broker or of the journal ends its pass only.
PassRaises ==
    /\ "raise" \in Faults
    /\ pc # "idle"
    /\ \E next \in After(pc) : Enter(next)
    /\ UNCHANGED <<orders, trades, now, cutoff>>

Crash ==
    /\ "crash" \in Faults
    /\ pc # "idle"
    /\ Enter("idle")
    /\ UNCHANGED <<orders, trades, now, cutoff>>

Done(r) == todo' = todo \ {r}

\* What the broker says of an order; a partial fill shows in the shares only.
Reported(o) ==
    CASE orders[o].status = "filled" -> "filled"
      [] orders[o].status \in {"canceled", "lost"} -> "dead"
      [] OTHER -> "working"

\* Mutant of EntryVerdict: what has not filled by now is unfilled.
EntryVerdictAtOnce(r) ==
    IF Reported(trades[r].order) = "filled" THEN "FILLED" ELSE "UNFILLED"

\* The fill_status pass 1 leaves the row with.
EntryVerdict(r) ==
    CASE Reported(trades[r].order) = "filled" -> "FILLED"
      [] Reported(trades[r].order) = "dead" -> "UNFILLED"
      [] OTHER -> trades[r].status

SettleEntryFill(r) ==
    /\ pc = "entries"
    /\ r \in todo
    /\ Done(r)
    /\ trades' = SetBuyFill(trades, r, EntryVerdict(r))
    /\ UNCHANGED <<orders, now, cutoff, pc>>

\* Mutant of ExitSettled: an order that died is asked about again.
ExitSettledIfFilled(r) ==
    IF Reported(trades[r].order) = "filled" THEN SettleSellFill(trades, r) ELSE trades

\* The table as pass 2 leaves it.
ExitSettled(r) ==
    CASE Reported(trades[r].order) = "filled" -> SettleSellFill(trades, r)
      [] Reported(trades[r].order) = "dead" -> MarkSellFailed(trades, r)
      [] OTHER -> trades

SettlePendingExit(r) ==
    /\ pc = "exits"
    /\ r \in todo
    /\ Done(r)
    /\ trades' = ExitSettled(r)
    /\ UNCHANGED <<orders, now, cutoff, pc>>

\* Pass 3 lists the broker's positions, then the entries the journal calls open.
ListBrokerExits ==
    /\ pc = "positions"
    /\ pc' = "broker_exits"
    /\ todo' = {r \in UnclosedEntries(trades) : ~Holding(trades[r].ticker)}
    /\ UNCHANGED <<orders, trades, now, cutoff>>

\* get_recent_filled_sell: the newest filled sell of t submitted after `since'.
RecentFilledSells(t, since) ==
    {s \in Sells(t) :
        /\ orders[s].status = "filled" /\ orders[s].placed > since
        /\ \A q \in Sells(t) : orders[q].status = "filled" => orders[q].done <= orders[s].done}

\* Mutant of ReconcileBrokerExit: the row waits for a verdict like the agent's own.
ReconcileBrokerExitPending(r) ==
    /\ pc = "broker_exits"
    /\ r \in todo
    /\ Done(r)
    /\ \E s \in RecentFilledSells(trades[r].ticker, trades[r].at) :
           trades' = Append(trades,
                            TradeRow(trades[r].ticker, "SELL", now + 1, s,
                                     "PENDING_FILL", "pass"))
    /\ Stamp
    /\ UNCHANGED <<orders, cutoff, pc>>

\* Pass 3 journals the sell it has found, stamped with the present; it does not
\* look at the journal again, so a repair between its list, its lookup and its
\* insert goes unnoticed.
ReconcileBrokerExit(r) ==
    /\ pc = "broker_exits"
    /\ r \in todo
    /\ Done(r)
    /\ \E s \in RecentFilledSells(trades[r].ticker, trades[r].at) :
           trades' = Append(trades,
                            TradeRow(trades[r].ticker, "SELL", now + 1, s,
                                     "FILLED", "pass"))
    /\ Stamp
    /\ UNCHANGED <<orders, cutoff, pc>>

DecomposeFill(r) ==
    /\ pc = "decomposition"
    /\ r \in todo
    /\ Done(r)
    /\ trades' = SetFillDecomposition(trades, r)
    /\ UNCHANGED <<orders, now, cutoff, pc>>

\* The lookup of a row's order, sell or opening print fails, or the broker has
\* no sell to show: the row stays as it is (pass 3 pages).
Unanswered(r) ==
    /\ r \in todo
    /\ \/ "lookup" \in Faults
       \/ pc = "broker_exits" /\ RecentFilledSells(trades[r].ticker, trades[r].at) = {}
    /\ Done(r)
    /\ UNCHANGED <<orders, trades, now, cutoff, pc>>

----------------------------------------------------------------------------
BrokerStep ==
    \/ \E o \in DOMAIN orders : Fill(o) \/ PartlyFill(o) \/ Die(o)
    \/ \E t \in Tickers : StopFills(t)

OutsideStep ==
    \/ \E t \in Tickers : Buy(t) \/ Exit(t)
    \/ \E o \in DOMAIN orders : Repair(o)
    \/ \E w \in Windows : Age(w)

RowStep(r) ==
    \/ SettleEntryFill(r) \/ SettlePendingExit(r)
    \/ ReconcileBrokerExit(r) \/ DecomposeFill(r)

RunStep ==
    \/ RunAll \/ PassEnds \/ ListBrokerExits
    \/ \E r \in DOMAIN trades : RowStep(r) \/ Unanswered(r)

Next == BrokerStep \/ OutsideStep \/ RunStep \/ PassRaises \/ Crash

Spec == Init /\ [][Next]_vars

\* Bound: a row for each order, and a second one for a stop, which has its entry
\* before it.
MaxRows == MaxOrders + MaxOrders \div 2

\* The scheduler keeps calling run_all, now and then with decomposition, and a
\* run once begun goes on.  A lookup, or the list of positions, may fail any
\* number of times in a row, but not for ever.
DecompositionBegins == (PassEnds \/ PassRaises) /\ pc' = "decomposition"

Fairness ==
    /\ WF_vars(RunStep)
    /\ SF_vars(ListBrokerExits)
    /\ SF_vars(DecompositionBegins)
    /\ \A r \in 1..MaxRows : SF_vars(RowStep(r))

FairSpec == Spec /\ Fairness

----------------------------------------------------------------------------
(* Properties *)

\* A verdict in the journal is the broker's own, whatever was looked up when:
\* no lookup that failed, and no order still working, has been taken for one.
\* ("a failed lookup is not a verdict": settle_entry_fills, settle_pending_exits)
VerdictsAreTheBrokers ==
    \A r \in DOMAIN trades :
        LET o == trades[r].order
        IN  /\ trades[r].status = "FILLED" => orders[o].status = "filled"
            /\ trades[r].status \in {"UNFILLED", "FAILED"} =>
                   orders[o].status \in {"canceled", "lost"}

\* No order of the account is journaled twice, by the agent, by pass 3 or by an
\* operator, however often passes are cut off and run again.  Two rows for one
\* sell come about in two ways only, both of pass 3 and an operator who do not
\* see each other: he writes after pass 3 has listed the open entries, and pass
\* 3 writes after him; or pass 3 writes after he has looked.
\* (reconcile_broker_exits: "cannot be journaled twice")
ExitsJournaledOnce ==
    \A r, q \in DOMAIN trades :
        r < q /\ trades[r].order = trades[q].order =>
            \/ trades[r].by = "barged" /\ trades[q].by = "pass"
            \/ trades[r].by = "pass" /\ trades[q].by \in ByHand

\* A live position whose entry is settled and whose stop still rests is among
\* the entries pass 3 watches, also after an older exit has been backfilled.
\* (get_unclosed_entries: keyed on event time, not on insert order)
Watched(r) ==
    /\ trades[r].action = "BUY" /\ trades[r].status = "FILLED"
    /\ Held(trades[r].order)
    /\ \A s \in Sells(trades[r].ticker) : orders[s].placed < orders[trades[r].order].placed

OpenEntryVisible ==
    \A r \in DOMAIN trades : Watched(r) => r \in UnclosedEntries(trades)

\* Every realized exit is paired with the entry whose shares it sold, also when
\* it was backfilled after a re-entry, or found by pass 3 among orders that
\* died: an R-multiple is never taken from another trade's risk.
\* (get_closed_round_trips; settle_sell_fill: "pairing joins a SELL to the BUY
\* that precedes it in event time")
SoldBy(s) ==
    {o \in OrdersOf(orders[s].ticker) :
        /\ orders[o].side = "buy" /\ Traded(o) /\ orders[o].done < orders[s].done
        /\ \A p \in OrdersOf(orders[s].ticker) :
               orders[p].side = "buy" /\ Traded(p) /\ orders[p].done < orders[s].done
                   => orders[p].done <= orders[o].done}

TripsPairTheirEntry ==
    \A r \in ClosedExits(trades) :
        {trades[q].order : q \in EntryOf(trades, r)} = SoldBy(trades[r].order)

\* Row by row and pass by pass, however often passes fail and are run again, the
\* journal is what OrderLedger says: each order's answer is entered once, after
\* the broker has given it, and stands.
\* ("four passes, each independent and each safe to re-run": run_all)
Outcomes == [o \in DOMAIN orders |-> Reported(o)]

Says(status) ==
    CASE status = "FILLED" -> "filled"
      [] status \in {"UNFILLED", "FAILED"} -> "dead"
      [] OTHER -> "pending"

Entries ==
    [o \in DOMAIN orders |->
        {Says(trades[r].status) : r \in {q \in DOMAIN trades : trades[q].order = o}}]

Ledger == INSTANCE OrderLedger WITH outcome <- Outcomes, entered <- Entries

LedgerSpec == Ledger!Spec

AwaitsVerdict(r) == r \in DOMAIN trades /\ trades[r].status \in {"none", "PENDING_FILL"}

AgedOut(r, w) == r \in DOMAIN trades /\ trades[r].at < cutoff[w]

\* Once an order is terminal its row gets its verdict, or leaves the window.
\* ("stays pending and is retried on the next pass; rows age out")
SettlesOrAges ==
    \A r \in 1..MaxRows :
        (AwaitsVerdict(r) /\ Reported(trades[r].order) # "working")
            ~> (~AwaitsVerdict(r) \/ AgedOut(r, "pending"))

\* A stop that filled on its own reaches the journal, provided the agent does
\* not re-enter meanwhile, unless its entry aged out without a verdict.
\* (reconcile_broker_exits: "Journal exits the agent never made")
Unjournaled(o) == o \in DOMAIN orders /\ orders[o].side = "stop" /\ ~Journaled(o)

ExitsReachJournal ==
    \A o \in 1..MaxOrders :
        Unjournaled(o) ~>
            \/ ~Unjournaled(o)
            \/ \E r \in DOMAIN trades : /\ trades[r].ticker = orders[o].ticker
                                        /\ AwaitsVerdict(r) /\ AgedOut(r, "pending")

\* Until it is journaled, a stop that filled on its own is before pass 3's eyes:
\* the entry it closed is the newest row of its ticker, settled or awaiting its
\* verdict, and the one sell the broker has filled since is that stop, provided
\* that the agent does not re-enter meanwhile and that entries fill whole.
\* (get_unclosed_entries, get_recent_filled_sell: reconcile_broker_exits)
ExitsStayInView ==
    \A o \in DOMAIN orders :
        Unjournaled(o) =>
            \E r \in UnclosedEntries(trades) \cup PendingBuys(trades, 0) :
                /\ trades[r].ticker = orders[o].ticker
                /\ Latest(trades, r)
                /\ RecentFilledSells(trades[r].ticker, trades[r].at) = {o}

\* A filled entry has its slippage split, or leaves the longer window.
\* (decompose_fills: "leaves the fill for the next pass")
FillsDecomposed ==
    \A r \in 1..MaxRows :
        (r \in DOMAIN trades /\ trades[r].action = "BUY" /\ trades[r].status = "FILLED")
            ~> \/ r \in DOMAIN trades /\ trades[r].split
               \/ AgedOut(r, "decomposition")

\* "a reconstructed row must carry the time of the event it describes"
\* (sqlite_journal.py:187)
EventTimeKept ==
    \A r \in DOMAIN trades :
        LET o == trades[r].order IN orders[o].side = "stop" => trades[r].at = orders[o].done

\* "entry order {status} - no position opened" (reconciliation.py:96)
UnfilledMeansFlat ==
    \A r \in DOMAIN trades : trades[r].status = "UNFILLED" => ~Traded(trades[r].order)
============================================================================
