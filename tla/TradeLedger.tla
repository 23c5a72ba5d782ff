---------------------------- MODULE TradeLedger -----------------------------
(***************************************************************************)
(* The trades table of tradeops/journal/sqlite_journal.py as far as fill   *)
(* reconciliation reads and writes it: the views that find rows awaiting a *)
(* verdict, and the updates that record one.  A table is a sequence of     *)
(* rows, a row's id its place in it; `at' is the event time the row is     *)
(* stamped with.  Prices, percentages and texts are left out: nothing here *)
(* is decided on them, but on whether a percentage is there.               *)
(***************************************************************************)
EXTENDS Integers, Sequences

CONSTANT Tickers

\* fill_status by action; "none" is NULL, an entry without a verdict.
Verdicts ==
    {<<"BUY", "none">>, <<"BUY", "FILLED">>, <<"BUY", "UNFILLED">>,
     <<"SELL", "PENDING_FILL">>, <<"SELL", "FILLED">>, <<"SELL_FAILED", "FAILED">>}

\* `order' is the order id; `pnl' and `split' say that pnl_pct and
\* exec_slippage_pct are set; `by' is history, no column: whose row it is, the
\* agent's, pass 3's or an operator's, "barged" when it came in between pass 3's
\* list of open entries and the end of that pass.
Rows ==
    [ticker : Tickers, action : {"BUY", "SELL", "SELL_FAILED"}, at : Nat,
     order : Nat, status : {"none", "FILLED", "UNFILLED", "PENDING_FILL", "FAILED"},
     pnl : BOOLEAN, split : BOOLEAN, by : {"agent", "pass", "hand", "barged"}]

\* log_trade appends; the caller names the time, or it is the present.  Of the
\* rows written here those of a fill have their result.
TradeRow(ticker, action, at, order, status, by) ==
    [ticker |-> ticker, action |-> action, at |-> at, order |-> order,
     status |-> status, pnl |-> status = "FILLED", split |-> FALSE, by |-> by]

\* get_pending_buy_fills: recent entries without a verdict.
PendingBuys(trades, cutoff) ==
    {r \in DOMAIN trades : /\ trades[r].action = "BUY"
                           /\ trades[r].status = "none"
                           /\ trades[r].at >= cutoff}

\* get_pending_sell_fills: recent exits journaled before their fill.
PendingSells(trades, cutoff) ==
    {r \in DOMAIN trades : /\ trades[r].action = "SELL"
                           /\ trades[r].status = "PENDING_FILL"
                           /\ trades[r].at >= cutoff}

\* Mutant of Latest: the newest row is the one inserted last.
LatestInserted(trades, r) ==
    \A q \in DOMAIN trades : trades[q].ticker = trades[r].ticker => q <= r

\* The newest row of its ticker in event time, whatever its action.
Latest(trades, r) ==
    \A q \in DOMAIN trades :
        trades[q].ticker = trades[r].ticker => trades[q].at <= trades[r].at

\* Mutant of UnclosedEntries: an exit counts once it has filled.
UnclosedUntilFilled(trades) ==
    {r \in DOMAIN trades :
        /\ trades[r].action = "BUY"
        /\ trades[r].status = "FILLED"
        /\ \A q \in DOMAIN trades :
               trades[q].ticker = trades[r].ticker /\ trades[q].status = "FILLED"
                   => trades[q].at <= trades[r].at}

\* get_unclosed_entries: filled entries that are the newest row of their ticker.
UnclosedEntries(trades) ==
    {r \in DOMAIN trades : /\ trades[r].action = "BUY"
                           /\ trades[r].status = "FILLED"
                           /\ Latest(trades, r)}

\* get_fills_needing_decomposition: recent fills not yet split.
FillsNeedingDecomposition(trades, cutoff) ==
    {r \in DOMAIN trades : /\ trades[r].action = "BUY"
                           /\ trades[r].status = "FILLED"
                           /\ ~trades[r].split
                           /\ trades[r].at >= cutoff}

\* get_closed_round_trips: the exits with a realized result.
ClosedExits(trades) ==
    {r \in DOMAIN trades : trades[r].action = "SELL" /\ trades[r].pnl}

\* Mutant of EntriesBefore: what was inserted before the exit.
EntriesInsertedBefore(trades, r) ==
    {q \in 1 .. r - 1 :
        trades[q].action = "BUY" /\ trades[q].ticker = trades[r].ticker}

\* The entries an exit may close: those of its ticker with an earlier time.
EntriesBefore(trades, r) ==
    {q \in DOMAIN trades : /\ trades[q].action = "BUY"
                           /\ trades[q].ticker = trades[r].ticker
                           /\ trades[q].at < trades[r].at}

\* The entry get_closed_round_trips pairs with exit r, or none: the newest.
EntryOf(trades, r) ==
    {q \in EntriesBefore(trades, r) :
        \A p \in EntriesBefore(trades, r) : trades[p].at <= trades[q].at}

SetBuyFill(trades, r, status) == [trades EXCEPT ![r].status = status]

SettleSellFill(trades, r) ==
    [trades EXCEPT ![r].status = "FILLED", ![r].pnl = TRUE]

\* Mutant of MarkSellFailed: the row stays a SELL.
MarkSellFailedInPlace(trades, r) == [trades EXCEPT ![r].status = "FAILED"]

\* The failed exit is renamed out of SELL.
MarkSellFailed(trades, r) ==
    [trades EXCEPT ![r].action = "SELL_FAILED", ![r].status = "FAILED"]

SetFillDecomposition(trades, r) == [trades EXCEPT ![r].split = TRUE]
============================================================================
