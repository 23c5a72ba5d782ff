---------------------------- MODULE EquityWatch -----------------------------
(***************************************************************************)
(* The circuit breaker over the days, driven by what it measures: a check  *)
(* takes a snapshot, judges it by the equity table and moves the halt      *)
(* state, while days pass, the broker fails or reports nothing, and an     *)
(* operator marks epochs and resets.  It composes EquityBaseline, which    *)
(* says what the table yields, with HaltState, which says what a level     *)
(* does to the file.                                                       *)
(*                                                                         *)
(* CircuitBreaker takes the accesses to the file apart, for any evaluation *)
(* at all; here they are one step, and the evaluation is the real one.     *)
(***************************************************************************)
EXTENDS EquityBaseline, HaltState

CONSTANTS
    Equities,       \* the totals the broker may report
    Marks,          \* those an operator may mark an epoch with
    MaxDay,         \* bound: the last day
    MaxSnapshots    \* bound: rows of equity_snapshots

ASSUME WatchAssumption ==
    /\ Equities \subseteq Nat
    /\ Marks \subseteq Nat \ {0}
    /\ MaxDay \in Nat \ {0}
    /\ MaxSnapshots \in Nat

VARIABLES
    file,         \* the halt-state file
    today,        \* the date
    snapshots,    \* equity_snapshots, oldest row first
    book,         \* history: the rows posted one by one as they come
    stage,        \* what the check does next, or "idle"
    equity,       \* check_and_update's equity
    history,      \* evaluate's history
    ev,           \* what evaluate returned
    deep,         \* history: the drawdown judged reaches the hard-halt threshold
    drawn         \* history: a check ended with such a drawdown, not reset since

checkVars == <<stage, equity, history, ev, deep>>
table == <<snapshots, book>>
vars == <<file, today, table, checkVars, drawn>>

NoVerdict == [level |-> 0, fail_closed |-> FALSE]

TypeOK ==
    /\ file \in Files
    /\ today \in Nat \ {0}
    /\ snapshots \in Seq(Snapshots)
    /\ book \in Books
    /\ stage \in {"idle", "history", "judge", "update"}
    /\ equity \in Nat \cup {NoEquity}
    /\ history \in Seq(Snapshots)
    /\ ev \in Evaluations
    /\ deep \in BOOLEAN
    /\ drawn \in BOOLEAN

Init ==
    /\ file = Missing
    /\ today = 1
    /\ snapshots = <<>>
    /\ book = Blank
    /\ stage = "idle"
    /\ equity = NoEquity
    /\ history = <<>>
    /\ ev = NoVerdict
    /\ deep = FALSE
    /\ drawn = FALSE

----------------------------------------------------------------------------
(* check_and_update *)

Record(row) ==
    /\ Len(snapshots) < MaxSnapshots
    /\ snapshots' = Append(snapshots, row)
    /\ book' = Post(book, row)

\* record_equity_snapshot: a broker that does not answer leaves no row, and
\* evaluate reads no table without a positive equity.
Snapshot ==
    /\ stage = "idle"
    /\ \/ \E e \in Equities :
              /\ Record([date |-> today, equity |-> e, manual |-> FALSE])
              /\ equity' = e
       \/ equity' = NoEquity /\ UNCHANGED table
    /\ stage' = IF equity' <= 0 THEN "judge" ELSE "history"
    /\ UNCHANGED <<file, today, history, ev, deep, drawn>>

ReadHistory ==
    /\ stage = "history"
    /\ history' = EquityHistory(snapshots, LosingDaysHalt + 2)
    /\ stage' = "judge"
    /\ UNCHANGED <<file, today, table, equity, ev, deep, drawn>>

\* evaluate reads the high-water mark and the date after the history.
Judge ==
    /\ stage = "judge"
    /\ ev' = Verdict(equity, history, HighWaterMark(snapshots), today)
    /\ deep' = (equity > 0 /\ Fallen(book.peak, equity, L2Drawdown))
    /\ stage' = "update"
    /\ UNCHANGED <<file, today, table, equity, history, drawn>>

\* The call is over: its locals are gone.
Return ==
    /\ stage' = "idle"
    /\ equity' = NoEquity
    /\ history' = <<>>
    /\ ev' = NoVerdict
    /\ deep' = FALSE

\* What the call returns: the level of the file, or, with the file unreadable,
\* the evaluation's own, failing closed.
Answer ==
    IF file = Unreadable THEN [ev EXCEPT !.fail_closed = TRUE]
    ELSE [level |-> UpdatedState(ReadHaltState(file), ev, today).level,
          fail_closed |-> ev.fail_closed]

\* An unreadable file is left alone; flatten_all, which the step to level 3
\* calls, leaves the file and the table alone.
Update ==
    /\ stage = "update"
    /\ file' = IF file = Unreadable THEN file
               ELSE UpdatedState(ReadHaltState(file), ev, today)
    /\ drawn' = (drawn \/ deep)
    /\ Return
    /\ UNCHANGED <<today, table>>

\* An exception of the journal leaves the call before it has written.
Raise ==
    /\ stage # "idle"
    /\ Return
    /\ UNCHANGED <<file, today, table, drawn>>

----------------------------------------------------------------------------
(* The operator and the environment *)

\* manual_reset, which leaves the equity table as it is.
ManualReset ==
    /\ file' = DefaultState
    /\ drawn' = FALSE
    /\ UNCHANGED <<today, table, checkVars>>

\* A snapshot with source 'manual': an epoch begins.
MarkEpoch ==
    /\ \E e \in Marks : Record([date |-> today, equity |-> e, manual |-> TRUE])
    /\ UNCHANGED <<file, today, checkVars, drawn>>

Tick ==
    /\ today < MaxDay
    /\ today' = today + 1
    /\ UNCHANGED <<file, table, checkVars, drawn>>

\* The file is damaged: read as undecodable from here on.
Corrupt ==
    /\ file # Missing
    /\ file' = Unreadable
    /\ UNCHANGED <<today, table, checkVars, drawn>>

Next ==
    \/ Snapshot \/ ReadHistory \/ Judge \/ Update \/ Raise
    \/ ManualReset \/ MarkEpoch \/ Tick \/ Corrupt

Spec == Init /\ [][Next]_vars

----------------------------------------------------------------------------
(* DailyHealthCheck.run, on what check_and_update returns *)

\* Mutant of BlocksEntries: the level alone blocks entries.
BlocksByLevel(answer) == answer.level >= 1

BlocksEntries(answer) == answer.level >= 1 \/ answer.fail_closed

----------------------------------------------------------------------------
(* Properties *)

\* The level a check brings to the halt state is the one the rows deserve when
\* they are posted one by one: the closes are those of the days before, the
\* marker cuts off exactly what lies before it, the streak is one of material
\* days in a row, and no drawdown hides between closes.  Only a row the
\* operator adds between the snapshot and the judgement excuses it.
\* (evaluate with get_equity_history and get_high_water_mark)
VerdictIsTheLosses ==
    [][Judge /\ equity > 0 /\ ~Last(snapshots).manual
           => ev'.level = Deserved(book, equity, today)]_vars

\* Positions are liquidated only on a real drawdown: the broker reported a
\* positive total, and some recorded equity lies that far above it.  An
\* outage, or an account that reads empty, never flattens.
\* (evaluate: `if equity is None or equity <= 0'; check_and_update's last call)
Flattens ==
    stage = "update" /\ file # Unreadable /\ ReadHaltState(file).level < 3 /\ Answer.level = 3

FlattenHasItsDrawdown ==
    Flattens =>
        /\ equity > 0
        /\ \E i \in DOMAIN snapshots : Fallen(snapshots[i].equity, equity, L3Drawdown)

\* Once a check has ended on a drawdown of a hard halt, the gate is closed
\* until an operator resets it: through recoveries, new epochs, midnights,
\* checks that raise and a file that turns unreadable.
\* (evaluate, check_and_update, entries_allowed)
DrawdownClosesGate == drawn => ~EntriesAllowed(file, today)

\* An answer the morning's health run lets pass leaves an open gate: no state
\* the gate fails closed on reads like a clean answer.
\* (DailyHealthCheck.run: "a breaker that cannot be evaluated fails CLOSED")
AnswerAgreesWithGate ==
    [][Update /\ ~BlocksEntries(Answer) => EntriesAllowed(file, today)']_vars
============================================================================
