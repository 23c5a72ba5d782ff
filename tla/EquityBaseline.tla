--------------------------- MODULE EquityBaseline ---------------------------
(***************************************************************************)
(* What the circuit breaker concludes from the equity table: the views of  *)
(* journal/sqlite_journal.py (one close per day, the high-water mark, both *)
(* since the last epoch marker) and CircuitBreaker.evaluate, the pure      *)
(* function from an equity and those views to a level.                     *)
(*                                                                         *)
(* A snapshot is [date, equity, manual]; the table is a sequence, the row  *)
(* of id i at index i.  Equity is a natural number, 0 an account without   *)
(* positive value; NoEquity is a broker that did not answer.  Percentages  *)
(* are in hundredths of a percent, the precision evaluate rounds to; a tie *)
(* rounds up.                                                              *)
(***************************************************************************)
EXTENDS Integers, Sequences, FiniteSetsExt, SequencesExt

CONSTANTS
    L1Loss,           \* l1_daily_loss_pct
    L2Drawdown,       \* l2_drawdown_pct
    L3Drawdown,       \* l3_drawdown_pct
    StreakMinLoss,    \* streak_min_loss_pct
    LosingDaysHalt    \* losing_days_halt

ASSUME ThresholdAssumption ==
    /\ {L1Loss, L2Drawdown, L3Drawdown, StreakMinLoss, LosingDaysHalt} \subseteq Nat \ {0}
    /\ L2Drawdown < L3Drawdown

NoEquity == 0 - 1

Snapshots == [date : Nat \ {0}, equity : Nat, manual : BOOLEAN]

----------------------------------------------------------------------------
(* The views of the journal *)

\* _epoch_id: the newest marker; without one every row counts.
EpochId(s) ==
    LET marks == {i \in DOMAIN s : s[i].manual} IN IF marks = {} THEN 1 ELSE Max(marks)

\* get_equity_history: the ids of the last row of each date since the marker.
LastOfDays(s) ==
    LET rows == EpochId(s) .. Len(s)
    IN  {i \in rows : \A j \in rows : s[j].date = s[i].date => j <= i}

\* Those ids by date, newest first.
NewestFirst(s) ==
    CHOOSE q \in [1 .. Cardinality(LastOfDays(s)) -> LastOfDays(s)] :
        \A a, b \in DOMAIN q : a < b => s[q[a]].date > s[q[b]].date

\* get_equity_history: the closes of the days, no more than `days' of them.
EquityHistory(s, days) ==
    [k \in 1 .. Min({days, Cardinality(LastOfDays(s))}) |-> s[NewestFirst(s)[k]]]

\* Mutant of HighWaterMark: only the closes of the days count.
HighWaterMarkOfCloses(s) ==
    LET closes == EquityHistory(s, Len(s))
    IN  Max({0} \cup {closes[k].equity : k \in DOMAIN closes})

\* get_high_water_mark; 0 is None, which evaluate treats alike.
HighWaterMark(s) == Max({0} \cup {s[i].equity : i \in EpochId(s) .. Len(s)})

----------------------------------------------------------------------------
(* evaluate *)

\* round(loss / base * 100, 2) of a fall from `base' to `now'.
LossPct(base, now) == (20000 * (base - now) + base) \div (2 * base)

\* A down day worth counting; a base of 0 never makes one.
Material(base, now) ==
    base > 0 /\ now < base /\ 10000 * (base - now) >= StreakMinLoss * base

\* Mutant of LosingDays: every down day of the series counts, in a row or not.
LosingDaysAnywhere(series) ==
    Cardinality({k \in 1 .. Len(series) - 1 : Material(series[k + 1], series[k])})

\* The material losses in a row at the new end of the series.
LosingDays(series) ==
    Max({0} \cup {n \in 1 .. Len(series) - 1 :
                     \A k \in 1 .. n : Material(series[k + 1], series[k])})

\* The closes of the days before today: newest first, they are those from the
\* first of them on.
Earlier(history, today) ==
    LET before == {k \in DOMAIN history : history[k].date < today}
    IN  IF before = {} THEN <<>> ELSE SubSeq(history, Min(before), Len(history))

\* The level of an equity that is there, from the history and the mark.
LevelOf(equity, history, hwm, today) ==
    LET closes   == [k \in DOMAIN Earlier(history, today) |->
                        Earlier(history, today)[k].equity]
        drawdown == IF hwm > 0 THEN LossPct(hwm, equity) ELSE 0
        dayLoss  == IF closes # <<>> /\ closes[1] > 0
                    THEN LossPct(closes[1], equity) ELSE 0
    IN  IF drawdown >= L3Drawdown THEN 3
        ELSE IF drawdown >= L2Drawdown THEN 2
        ELSE IF \/ dayLoss >= L1Loss
                \/ LosingDays(<<equity>> \o closes) >= LosingDaysHalt THEN 1
        ELSE 0

\* Mutant of Verdict: only an equity that is missing fails closed.
VerdictOfZero(equity, history, hwm, today) ==
    IF equity = NoEquity THEN [level |-> 1, fail_closed |-> TRUE]
    ELSE [level |-> LevelOf(equity, history, hwm, today), fail_closed |-> FALSE]

\* evaluate: without a positive equity it fails closed, at level 1.
Verdict(equity, history, hwm, today) ==
    IF equity <= 0 THEN [level |-> 1, fail_closed |-> TRUE]
    ELSE [level |-> LevelOf(equity, history, hwm, today), fail_closed |-> FALSE]

----------------------------------------------------------------------------
(***************************************************************************)
(* The same judgement by book-keeping, for comparison: the rows are posted *)
(* one by one, a marker opens a new book, and a day is closed when a row   *)
(* of a later day, or the judgement itself, comes.                         *)
(***************************************************************************)
Books == [peak : Nat, day : Nat, close : Nat, prior : Nat, streak : Nat]

Blank == [peak |-> 0, day |-> 0, close |-> 0, prior |-> 0, streak |-> 0]

\* The book at the start of `day'.
Turn(book, day) ==
    IF book.day \in {0, day} THEN book
    ELSE [book EXCEPT !.day = day, !.prior = book.close,
                      !.streak = IF Material(book.prior, book.close)
                                 THEN book.streak + 1 ELSE 0]

Post(book, row) ==
    LET open == IF row.manual THEN Blank ELSE Turn(book, row.date)
    IN  [open EXCEPT !.day = row.date, !.close = row.equity,
                     !.peak = Max({open.peak, row.equity})]

\* Fallen(base, now, pct): a loss of at least pct hundredths of a percent,
\* to the rounding of evaluate.
Fallen(base, now, pct) == base > 0 /\ 20000 * (base - now) + base >= 2 * pct * base

\* The level an account at `equity' deserves on `today', by the book.
Deserved(book, equity, today) ==
    LET current == Turn(book, today)
        streak  == IF Material(current.prior, equity) THEN current.streak + 1 ELSE 0
    IN  IF Fallen(book.peak, equity, L3Drawdown) THEN 3
        ELSE IF Fallen(book.peak, equity, L2Drawdown) THEN 2
        ELSE IF Fallen(current.prior, equity, L1Loss) \/ streak >= LosingDaysHalt THEN 1
        ELSE 0
============================================================================
