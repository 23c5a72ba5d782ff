---------------------------- MODULE HealthCheck -----------------------------
(***************************************************************************)
(* DailyHealthCheck.run of tradeops/health/checks.py on the account that   *)
(* flatten_all left: the mornings after it, again and again.  The run      *)
(* probes the model and the broker, sees to it that every position has a   *)
(* stop resting at the broker, consults the breaker and logs its row.      *)
(* Between its calls the broker goes on: orders fill, stops expire, closes *)
(* go through.  Every call may fail.                                       *)
(*                                                                         *)
(* What the breaker answers is EquityWatch's concern; here its answer may  *)
(* block entries or not.  Alerts go through the chain of Alerting.         *)
(***************************************************************************)
EXTENDS Flatten, Alerting

CONSTANT Stops    \* the orders, sells and buys, whose type reads as a stop

ASSUME StopsAssumption == Stops \subseteq Orders

VARIABLES
    emergency,    \* tickers with an emergency stop resting
    stage,        \* what the run does next, or "idle"
    todo,         \* fetched positions that still need a stop
    at,           \* the position being dealt with
    apiOk,        \* api_ok
    stopsOk,      \* stops_ok
    skip,         \* result["skip_entries"]
    found,        \* tickers with a detection row of this run
    fixed,        \* tickers with a remediation row of this run
    placed,       \* history: tickers the broker took a stop for in this run
    paged,        \* history: tickers an alert of this run that landed names
    outage,       \* history: an alert of this run that landed says that the
                  \* broker's positions or orders could not be had
    moved         \* history: tickers that traded, or lost an order, since listed

runVars == <<todo, at, apiOk, stopsOk, skip, found, fixed, placed, paged, outage, moved>>
healthVars == <<emergency, stage, runVars>>
allVars == <<vars, healthVars>>

HealthTypeOK ==
    /\ emergency \subseteq Tickers
    /\ stage \in {"idle", "positions", "orders", "detect", "place", "log",
                  "breaker", "row"}
    /\ todo \subseteq Tickers
    /\ at \in Tickers
    /\ {apiOk, stopsOk, skip} \subseteq BOOLEAN
    /\ found \subseteq Tickers
    /\ fixed \subseteq Tickers
    /\ placed \subseteq Tickers
    /\ paged \subseteq Tickers
    /\ outage \in BOOLEAN
    /\ moved \subseteq Tickers
    /\ stage \in {"place", "log"} => at \in found

HealthInit ==
    /\ Init
    /\ emergency = {}
    /\ stage = "idle"
    /\ todo = {}
    /\ at = pos
    /\ apiOk = TRUE
    /\ stopsOk = TRUE
    /\ skip = FALSE
    /\ found = {}
    /\ fixed = {}
    /\ placed = {}
    /\ paged = {}
    /\ outage = FALSE
    /\ moved = {}

FlattenOver == pc \in {"done", "raised", "over"}

\* Shares that no resting sell, emergency stop or market close holds.
Free(t) == t \in held /\ ~Reserved(t) /\ t \notin emergency

Protected(t) == t \in emergency \/ Reserved(t)

\* Someone, somewhere, can read the message: what its transports may make of
\* it, in the production wiring.
MayLand == {Lands(fate) : fate \in Fates(Chain(FromEnv, TRUE))}

\* An alert that names an instrument.
Alert(t) ==
    /\ \E landed \in MayLand : paged' = IF landed THEN paged \cup {t} ELSE paged
    /\ UNCHANGED outage

\* An alert that the broker did not answer, naming none.
OutageAlert ==
    /\ \E landed \in MayLand : outage' = (outage \/ landed)
    /\ UNCHANGED paged

----------------------------------------------------------------------------
(* run *)

\* By the next morning nothing is left of the call but what it did to the account.
ForgetFlatten ==
    /\ pc' = "over"
    /\ toCancel' = {}
    /\ cancelled' = {}
    /\ toWait' = {}
    /\ toClose' = {}
    /\ fetchFailed' = {}
    /\ cancelFailed' = {}
    /\ closeFailed' = {}
    /\ rows' = {}
    /\ accepted' = {}

\* A run begins; the decision model answers or is paged about.
BeginRun ==
    /\ FlattenOver
    /\ stage = "idle"
    /\ ForgetFlatten
    /\ apiOk' \in BOOLEAN
    /\ skip' = ~apiOk'
    /\ stage' = "positions"
    /\ UNCHANGED <<order, held, closing, pos, emergency, todo, at, stopsOk, found,
                   fixed, placed, paged, outage, moved>>

\* With qty_available the positions that are reserved altogether pass at once;
\* a broker that does not report it has every position looked at.
ListPositions ==
    /\ stage = "positions"
    /\ todo' \in {held \cup closing, {t \in held : Free(t)}}
    /\ stage' = IF held \cup closing = {} THEN "breaker" ELSE "orders"
    /\ moved' = {}
    /\ UNCHANGED <<vars, emergency, at, apiOk, stopsOk, skip, found, fixed,
                   placed, paged, outage>>

\* get_portfolio or get_positions raises: no position is looked at.
BrokerDown ==
    /\ stage = "positions"
    /\ OutageAlert
    /\ apiOk' = FALSE
    /\ skip' = TRUE
    /\ stage' = "breaker"
    /\ UNCHANGED <<vars, emergency, todo, at, stopsOk, found, fixed, placed, moved>>

\* Mutant of StopTickers: any resting order counts.
OrderTickers == {TickerOf[o] : o \in Live} \cup emergency

\* An order counts by its type; its side and its size are not looked at.
StopTickers == {TickerOf[o] : o \in Live \cap Stops} \cup emergency

ListOrders ==
    /\ stage = "orders"
    /\ todo' = todo \ StopTickers
    /\ stage' = "detect"
    /\ UNCHANGED <<vars, emergency, at, apiOk, stopsOk, skip, found, fixed,
                   placed, paged, outage, moved>>

\* get_open_orders raises: coverage is unverifiable, which blocks nothing.
OrdersUnknown ==
    /\ stage = "orders"
    /\ OutageAlert
    /\ stopsOk' = FALSE
    /\ todo' = {}
    /\ stage' = "breaker"
    /\ UNCHANGED <<vars, emergency, at, apiOk, skip, found, fixed, placed, moved>>

\* Mutant of Detect: the row waits until the stop is placed.
DetectUnlogged(t) ==
    /\ stage = "detect"
    /\ t \in todo
    /\ todo' = todo \ {t}
    /\ at' = t
    /\ Alert(t)
    /\ stage' = "place"
    /\ UNCHANGED <<vars, emergency, apiOk, stopsOk, skip, found, fixed, placed, moved>>

\* The detection has its row before it is paged about, and both before the stop.
Detect(t) ==
    /\ stage = "detect"
    /\ t \in todo
    /\ todo' = todo \ {t}
    /\ at' = t
    /\ found' = found \cup {t}
    /\ Alert(t)
    /\ stage' = "place"
    /\ UNCHANGED <<vars, emergency, apiOk, stopsOk, skip, fixed, placed, moved>>

TakeStop(t) ==
    /\ Free(t)
    /\ emergency' = emergency \cup {t}
    /\ placed' = placed \cup {t}

StopAccepted ==
    /\ stage = "place"
    /\ TakeStop(at)
    /\ stage' = "log"
    /\ UNCHANGED <<vars, todo, at, apiOk, stopsOk, skip, found, fixed, paged, outage, moved>>

\* Mutant of Failed: the failure is not paged and does not count.
FailedQuietly == UNCHANGED <<stopsOk, paged, outage>>

\* The except clause around the stop and its row.
Failed == stopsOk' = FALSE /\ Alert(at)

\* place_stop_order raises: the broker rejects it, or the call failed, in
\* which case the broker may have taken it or not.
StopRaises ==
    /\ stage = "place"
    /\ TakeStop(at) \/ UNCHANGED <<emergency, placed>>
    /\ Failed
    /\ stage' = "detect"
    /\ UNCHANGED <<vars, todo, at, apiOk, skip, found, fixed, moved>>

\* The remediation row shares the try of the stop.
LogFix ==
    /\ stage = "log"
    /\ \/ fixed' = fixed \cup {at} /\ UNCHANGED <<stopsOk, paged, outage>>
       \/ Failed /\ UNCHANGED fixed
    /\ stage' = "detect"
    /\ UNCHANGED <<vars, emergency, todo, at, apiOk, skip, found, placed, moved>>

CoverageDone ==
    /\ stage = "detect"
    /\ todo = {}
    /\ stage' = "breaker"
    /\ UNCHANGED <<vars, emergency, runVars>>

\* The breaker and the composition's probes may block entries.
ConsultBreaker ==
    /\ stage = "breaker"
    /\ skip' \in {skip, TRUE}
    /\ stage' = "row"
    /\ UNCHANGED <<vars, emergency, todo, at, apiOk, stopsOk, found, fixed,
                   placed, paged, outage, moved>>

\* The run is over and its locals are gone.
EndRun ==
    /\ stage' = "idle"
    /\ todo' = {}
    /\ at' = pos
    /\ apiOk' = TRUE
    /\ stopsOk' = TRUE
    /\ skip' = FALSE
    /\ found' = {}
    /\ fixed' = {}
    /\ placed' = {}
    /\ paged' = {}
    /\ outage' = FALSE
    /\ moved' = {}
    /\ UNCHANGED <<vars, emergency>>

LogHealth == stage = "row" /\ EndRun

\* The journal raises outside any try: at the row of a detection, whereupon the
\* breaker is not consulted, or at the run's own.
JournalRaises ==
    /\ \/ stage = "detect" /\ todo # {}
       \/ stage = "row"
    /\ EndRun

----------------------------------------------------------------------------
(* The broker, on its own *)

Moves(t) == moved' = IF stage = "idle" THEN moved ELSE moved \cup {t}

\* What Flatten's broker does goes on.
BrokerMoves(t) ==
    /\ \/ \E o \in Orders : TickerOf[o] = t /\ (OrderFills(o) \/ CancelSettles(o))
       \/ CloseFills(t)
    /\ Moves(t)
    /\ UNCHANGED <<emergency, stage, todo, at, apiOk, stopsOk, skip, found,
                   fixed, placed, paged, outage>>

\* A resting order is gone for reasons that have nothing to do with the price.
OrderExpires(o) ==
    /\ FlattenOver
    /\ order[o] # "done"
    /\ order' = [order EXCEPT ![o] = "done"]
    /\ Moves(TickerOf[o])
    /\ UNCHANGED <<held, closing, accepted, pc, toCancel, cancelled, toWait, toClose,
                   pos, reportVars, emergency, stage, todo, at, apiOk, stopsOk,
                   skip, found, fixed, placed, paged, outage>>

\* An emergency stop fills or expires.
EmergencyEnds(t) ==
    /\ t \in emergency
    /\ emergency' = emergency \ {t}
    /\ held' \in {held, held \ {t}}
    /\ Moves(t)
    /\ UNCHANGED <<order, closing, accepted, pc, toCancel, cancelled, toWait,
                   toClose, pos, reportVars, stage, todo, at, apiOk, stopsOk,
                   skip, found, fixed, placed, paged, outage>>

----------------------------------------------------------------------------
RunStep ==
    \/ ListPositions \/ BrokerDown \/ ListOrders \/ OrdersUnknown
    \/ StopAccepted \/ StopRaises \/ LogFix \/ CoverageDone
    \/ ConsultBreaker \/ LogHealth
    \/ \E t \in Tickers : Detect(t)

AccountStep ==
    \/ \E t \in Tickers : BrokerMoves(t) \/ EmergencyEnds(t)
    \/ \E o \in Orders : OrderExpires(o)

CallStep == (FlattenStep \/ WaitRaises) /\ UNCHANGED healthVars

HealthNext == CallStep \/ BeginRun \/ RunStep \/ JournalRaises \/ AccountStep

HealthSpec == HealthInit /\ [][HealthNext]_allVars

\* The scheduler runs the check every morning and a run goes on; the journal
\* does not fail at the detection of one position for ever.
HealthFairness ==
    /\ WF_allVars(BeginRun)
    /\ WF_allVars(RunStep)
    /\ \A t \in Tickers : SF_allVars(Detect(t))

FairHealthSpec == HealthSpec /\ Fairness /\ HealthFairness

----------------------------------------------------------------------------
(* Properties *)

\* A buy of stop type rests on t, which the run takes for a protective stop.
BuyStop(t) == \E o \in Live \cap Stops : TickerOf[o] = t /\ SideOf[o] = "buy"

\* A run that finds the API and the stops in order means it, but for one case:
\* every position that nothing happened to since it was listed has a sell
\* resting against it, or a buy of stop type passed for one.
\* (_verify_stop_coverage: its three ways to pass a position)
CleanRunMeansCovered ==
    stage = "row" /\ apiOk /\ stopsOk =>
        \A t \in held \ moved : Protected(t) \/ BuyStop(t)

\* Detection and remediation are both in the journal: no stop is placed before
\* its position was found without one, none is recorded that was not placed,
\* and a run with one that is not recorded does not count its stops as in order.
\* (log_vulnerability: `"fixed it" has to be as auditable as "found it"')
RemediationAudited ==
    /\ fixed \subseteq placed
    /\ placed \subseteq found
    /\ stage = "row" /\ stopsOk => placed \subseteq fixed

\* A position without a stop does not stay so unnoticed: it gets one, it is
\* gone, an alert that names it has landed, or one that says the broker could
\* not be asked; unless a buy of stop type comes to hide it.
\* ("any stop can be missing for any reason"; "every message lands somewhere")
NakedIsAnswered ==
    \A t \in Tickers :
        (FlattenOver /\ Free(t)) ~> (~Free(t) \/ t \in paged \/ outage \/ BuyStop(t))
============================================================================
