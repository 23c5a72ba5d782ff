------------------------------ MODULE Flatten -------------------------------
(***************************************************************************)
(* CircuitBreaker.flatten_all of tradeops/safety/circuit_breaker.py: cancel *)
(* every open order, wait for the cancels to settle, close every position, *)
(* journal a SELL row for each, report what failed.  The broker it drives  *)
(* is not part of the repository: it is modelled from the Broker port of   *)
(* tradeops/interfaces.py and acts on its own between the calls, so orders *)
(* fill while they are being cancelled and positions change after they     *)
(* have been listed.                                                       *)
(***************************************************************************)
EXTENDS Integers

CONSTANTS
    Tickers,     \* instruments
    Orders,      \* orders that may rest at the broker when the call begins
    TickerOf,    \* TickerOf[o]: the instrument of order o
    SideOf,      \* SideOf[o]: "buy", or "sell" for a stop or a limit exit
    Faults       \* the calls that may raise

Calls == {"orders", "cancel", "wait", "positions", "close", "journal"}

ASSUME FlattenAssumption ==
    /\ TickerOf \in [Orders -> Tickers]
    /\ SideOf \in [Orders -> {"buy", "sell"}]
    /\ Faults \subseteq Calls

VARIABLES
    \* the broker
    order,          \* order[o]: "open", "cancelling", or "done" (terminal)
    held,           \* tickers with shares that no accepted close covers
    closing,        \* tickers with a market close that has not filled yet
    accepted,       \* history: tickers the broker took a close for
    \* the call
    pc,             \* the step flatten_all does next; "over" long after it
    toCancel,       \* fetched orders not yet cancelled
    cancelled,      \* cancelled_ids
    toWait,         \* cancelled orders not yet waited for
    toClose,        \* fetched positions not yet closed
    pos,            \* the position whose SELL row comes next
    fetchFailed,    \* results["failed"], the entries of the two fetches,
    cancelFailed,   \*   those of cancel_order, by ticker,
    closeFailed,    \*   those of close_position and log_trade, by ticker
    rows            \* tickers with a SELL row

brokerVars == <<order, held, closing, accepted>>
reportVars == <<fetchFailed, cancelFailed, closeFailed, rows>>
vars == <<order, held, closing, accepted, pc, toCancel, cancelled, toWait,
          toClose, pos, fetchFailed, cancelFailed, closeFailed, rows>>

Live == {o \in Orders : order[o] # "done"}

\* Shares of t are reserved by a resting sell: the broker rejects a close.
Reserved(t) == \E o \in Live : TickerOf[o] = t /\ SideOf[o] = "sell"

TypeOK ==
    /\ order \in [Orders -> {"open", "cancelling", "done"}]
    /\ held \subseteq Tickers
    /\ closing \subseteq Tickers
    /\ accepted \subseteq Tickers
    /\ pc \in {"orders", "cancel", "wait", "positions", "close", "row",
               "done", "raised", "over"}
    /\ toCancel \subseteq Orders
    /\ cancelled \subseteq Orders
    /\ toWait \subseteq Orders
    /\ toClose \subseteq Tickers
    /\ pos \in Tickers
    /\ fetchFailed \subseteq {"orders", "positions"}
    /\ cancelFailed \subseteq Tickers
    /\ closeFailed \subseteq Tickers
    /\ rows \subseteq Tickers

\* Any orders may rest and any positions be held; a resting sell has shares.
Init ==
    /\ order \in [Orders -> {"open", "done"}]
    /\ held \in SUBSET Tickers
    /\ \A o \in Live : SideOf[o] = "sell" => TickerOf[o] \in held
    /\ closing = {}
    /\ accepted = {}
    /\ pc = "orders"
    /\ toCancel = {}
    /\ cancelled = {}
    /\ toWait = {}
    /\ toClose = {}
    /\ pos \in Tickers
    /\ fetchFailed = {}
    /\ cancelFailed = {}
    /\ closeFailed = {}
    /\ rows = {}

----------------------------------------------------------------------------
(* The broker, on its own *)

\* A resting order fills, also while its cancel is under way.
OrderFills(o) ==
    /\ order[o] # "done"
    /\ SideOf[o] = "sell" => TickerOf[o] \in held
    /\ order' = [order EXCEPT ![o] = "done"]
    /\ held' = IF SideOf[o] = "sell" THEN held \ {TickerOf[o]}
                                     ELSE held \cup {TickerOf[o]}
    /\ UNCHANGED <<closing, accepted, pc, toCancel, cancelled, toWait, toClose,
                   pos, reportVars>>

CancelSettles(o) ==
    /\ order[o] = "cancelling"
    /\ order' = [order EXCEPT ![o] = "done"]
    /\ UNCHANGED <<held, closing, accepted, pc, toCancel, cancelled, toWait,
                   toClose, pos, reportVars>>

CloseFills(t) ==
    /\ t \in closing
    /\ closing' = closing \ {t}
    /\ UNCHANGED <<order, held, accepted, pc, toCancel, cancelled, toWait,
                   toClose, pos, reportVars>>

\* A cancel takes effect on an order that is still open.
TakeCancel(o) == order' = [order EXCEPT ![o] = "cancelling"]

\* A close takes effect when there are shares and no resting sell reserves them.
Closable(t) == t \in held /\ ~Reserved(t)

TakeClose(t) ==
    /\ held' = held \ {t}
    /\ closing' = closing \cup {t}
    /\ accepted' = accepted \cup {t}

----------------------------------------------------------------------------
(* flatten_all *)

FetchOrders ==
    /\ pc = "orders"
    /\ \/ /\ toCancel' = Live
          /\ UNCHANGED fetchFailed
       \/ /\ "orders" \in Faults
          /\ fetchFailed' = fetchFailed \cup {"orders"}
          /\ UNCHANGED toCancel
    /\ pc' = "cancel"
    /\ UNCHANGED <<brokerVars, cancelled, toWait, toClose, pos, cancelFailed,
                   closeFailed, rows>>

\* Mutant of CancelAccepted: a cancelled order is not waited for.
CancelAcceptedUnawaited(o) ==
    /\ pc = "cancel"
    /\ o \in toCancel
    /\ order[o] = "open"
    /\ TakeCancel(o)
    /\ toCancel' = toCancel \ {o}
    /\ cancelled' = cancelled \cup {o}
    /\ UNCHANGED <<held, closing, accepted, pc, toWait, toClose, pos, reportVars>>

CancelAccepted(o) ==
    /\ pc = "cancel"
    /\ o \in toCancel
    /\ order[o] = "open"
    /\ TakeCancel(o)
    /\ toCancel' = toCancel \ {o}
    /\ cancelled' = cancelled \cup {o}
    /\ toWait' = toWait \cup {o}
    /\ UNCHANGED <<held, closing, accepted, pc, toClose, pos, reportVars>>

\* cancel_order raises: the order is terminal by now, or the call failed, in
\* which case the broker may have taken it or not.
CancelRefused(o) ==
    \/ order[o] = "done" /\ UNCHANGED order
    \/ "cancel" \in Faults /\ UNCHANGED order
    \/ "cancel" \in Faults /\ order[o] = "open" /\ TakeCancel(o)

\* Mutant of ReportName: the report names orders by their id.
ReportNameById(o) == o

\* A failed cancel is reported by its instrument.
ReportName(o) == TickerOf[o]

\* Mutant of CancelRaises: an order whose cancel raised is waited for as well.
CancelRaisesButAwaited(o) ==
    /\ pc = "cancel"
    /\ o \in toCancel
    /\ CancelRefused(o)
    /\ toCancel' = toCancel \ {o}
    /\ toWait' = toWait \cup {o}
    /\ cancelFailed' = cancelFailed \cup {ReportName(o)}
    /\ UNCHANGED <<held, closing, accepted, pc, cancelled, toClose, pos,
                   fetchFailed, closeFailed, rows>>

CancelRaises(o) ==
    /\ pc = "cancel"
    /\ o \in toCancel
    /\ CancelRefused(o)
    /\ toCancel' = toCancel \ {o}
    /\ cancelFailed' = cancelFailed \cup {ReportName(o)}
    /\ UNCHANGED <<held, closing, accepted, pc, cancelled, toWait, toClose, pos,
                   fetchFailed, closeFailed, rows>>

CancelsSent ==
    /\ pc = "cancel"
    /\ toCancel = {}
    /\ pc' = "wait"
    /\ UNCHANGED <<brokerVars, toCancel, cancelled, toWait, toClose, pos, reportVars>>

\* wait_order_terminal returns once the order is terminal.
Wait(o) ==
    /\ pc = "wait"
    /\ o \in toWait
    /\ order[o] = "done"
    /\ toWait' = toWait \ {o}
    /\ UNCHANGED <<brokerVars, pc, toCancel, cancelled, toClose, pos, reportVars>>

\* The one broker call outside a try: its exception ends flatten_all.
WaitRaises ==
    /\ pc = "wait"
    /\ "wait" \in Faults
    /\ toWait # {}
    /\ pc' = "raised"
    /\ UNCHANGED <<brokerVars, toCancel, cancelled, toWait, toClose, pos, reportVars>>

CancelsSettled ==
    /\ pc = "wait"
    /\ toWait = {}
    /\ pc' = "positions"
    /\ UNCHANGED <<brokerVars, toCancel, cancelled, toWait, toClose, pos, reportVars>>

FetchPositions ==
    /\ pc = "positions"
    /\ \/ /\ toClose' = held
          /\ UNCHANGED fetchFailed
       \/ /\ "positions" \in Faults
          /\ fetchFailed' = fetchFailed \cup {"positions"}
          /\ UNCHANGED toClose
    /\ pc' = "close"
    /\ UNCHANGED <<brokerVars, toCancel, cancelled, toWait, pos, cancelFailed,
                   closeFailed, rows>>

CloseAccepted(t) ==
    /\ pc = "close"
    /\ t \in toClose
    /\ Closable(t)
    /\ TakeClose(t)
    /\ toClose' = toClose \ {t}
    /\ pos' = t
    /\ pc' = "row"
    /\ UNCHANGED <<order, toCancel, cancelled, toWait, reportVars>>

\* close_position raises: the broker rejects it, or the call failed, in which
\* case the broker may have taken it or not.
CloseRefused(t) ==
    \/ ~Closable(t) /\ UNCHANGED <<held, closing, accepted>>
    \/ "close" \in Faults /\ UNCHANGED <<held, closing, accepted>>
    \/ "close" \in Faults /\ Closable(t) /\ TakeClose(t)

\* Mutant of CloseRaises: a close that raised is skipped without a word.
CloseRaisesUnreported(t) ==
    /\ pc = "close"
    /\ t \in toClose
    /\ CloseRefused(t)
    /\ toClose' = toClose \ {t}
    /\ UNCHANGED <<order, pc, toCancel, cancelled, toWait, pos, reportVars>>

CloseRaises(t) ==
    /\ pc = "close"
    /\ t \in toClose
    /\ CloseRefused(t)
    /\ toClose' = toClose \ {t}
    /\ closeFailed' = closeFailed \cup {t}
    /\ UNCHANGED <<order, pc, toCancel, cancelled, toWait, pos, fetchFailed,
                   cancelFailed, rows>>

\* Mutant of LogTrade: an exception of the journal goes unnoticed.
LogTradeQuietly ==
    /\ pc = "row"
    /\ \/ rows' = rows \cup {pos}
       \/ "journal" \in Faults /\ UNCHANGED rows
    /\ pc' = "close"
    /\ UNCHANGED <<brokerVars, toCancel, cancelled, toWait, toClose, pos,
                   fetchFailed, cancelFailed, closeFailed>>

\* log_trade shares the try of the close: when it raises, the close it follows
\* is reported as failed.
LogTrade ==
    /\ pc = "row"
    /\ \/ rows' = rows \cup {pos} /\ UNCHANGED closeFailed
       \/ /\ "journal" \in Faults
          /\ closeFailed' = closeFailed \cup {pos}
          /\ UNCHANGED rows
    /\ pc' = "close"
    /\ UNCHANGED <<brokerVars, toCancel, cancelled, toWait, toClose, pos,
                   fetchFailed, cancelFailed>>

Report ==
    /\ pc = "close"
    /\ toClose = {}
    /\ pc' = "done"
    /\ UNCHANGED <<brokerVars, toCancel, cancelled, toWait, toClose, pos, reportVars>>

----------------------------------------------------------------------------
FlattenStep ==
    \/ FetchOrders \/ CancelsSent \/ CancelsSettled
    \/ FetchPositions \/ LogTrade \/ Report
    \/ \E o \in Orders : CancelAccepted(o) \/ CancelRaises(o) \/ Wait(o)
    \/ \E t \in Tickers : CloseAccepted(t) \/ CloseRaises(t)

BrokerStep ==
    \/ \E o \in Orders : OrderFills(o) \/ CancelSettles(o)
    \/ \E t \in Tickers : CloseFills(t)

Next == FlattenStep \/ WaitRaises \/ BrokerStep

Spec == Init /\ [][Next]_vars

\* The call runs on, and the broker settles a cancel it has taken and fills a
\* market close; it need never fill a resting order, and a wait need not raise.
Fairness ==
    /\ WF_vars(FlattenStep)
    /\ \A o \in Orders : WF_vars(CancelSettles(o))
    /\ \A t \in Tickers : WF_vars(CloseFills(t))

FairSpec == Spec /\ Fairness

----------------------------------------------------------------------------
(* Properties *)

\* Whatever is left when flatten_all returns is in its report: an instrument
\* with shares no close covers is named, or a fetch failed; an order still
\* live is of a named instrument, or the order fetch failed.
\* ("reports per-ticker results": every except clause of flatten_all)
NothingLeftUnsaid ==
    pc = "done" =>
        /\ \A t \in held : fetchFailed # {} \/ t \in closeFailed \cup cancelFailed
        /\ \A o \in Live : "orders" \in fetchFailed \/ TickerOf[o] \in cancelFailed

\* When positions are closed no cancel of this call is still under way, so no
\* close is rejected for an order the call has cancelled.
\* ("cancel every open order first ... closes are rejected otherwise")
CancelsSettleFirst ==
    pc \in {"positions", "close", "row", "done"} => \A o \in cancelled : order[o] = "done"

\* A SELL row stands for a close the broker took, and a close it took has its
\* row or is reported as failed.
\* (close_position and log_trade in one try)
ClosesAccounted ==
    /\ rows \subseteq accepted
    /\ pc = "done" => accepted \subseteq rows \cup closeFailed

\* flatten_all returns although the broker may never fill an order.
\* (wait_order_terminal is called for accepted cancels only)
FlattenReturns == <>(pc \in {"done", "raised"})

\* A call that reports no failure leaves the account flat once the closes it
\* sent have filled.
\* ("3 flatten: close everything, cancel orders")
CleanReport == pc = "done" /\ fetchFailed = {} /\ cancelFailed = {} /\ closeFailed = {}

CleanReportMeansFlat == CleanReport ~> (held = {} /\ closing = {} /\ Live = {})

\* "Never raises; reports per-ticker results." (circuit_breaker.py:211)
NeverRaises == pc # "raised"
============================================================================
