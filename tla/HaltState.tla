----------------------------- MODULE HaltState -----------------------------
(***************************************************************************)
(* The persisted halt state of tradeops/safety/circuit_breaker.py and the  *)
(* pure decisions taken on it: what a read of the file yields, which level *)
(* an evaluation leads to, what is written back, and whether a new entry   *)
(* may be placed.                                                          *)
(*                                                                         *)
(* Fields that only reports read (daily_loss_pct, high_water_mark,         *)
(* reset_by, last_eval ...) are left out.  `reason' is kept as far as it   *)
(* tells a drill from a breach.  A date is a natural number; 0 is None.    *)
(***************************************************************************)
EXTENDS Integers

CONSTANTS
    Missing,      \* state_path does not exist
    Unreadable    \* state_path exists and cannot be decoded (read as None)

Levels == 0..3
NoDate == 0
Reasons == {"none", "breach", "drill"}

HaltStates ==
    [level : Levels, reason : Reasons, trigger_date : Nat,
     requires_manual_reset : BOOLEAN, fail_closed : BOOLEAN]

Files == HaltStates \cup {Missing, Unreadable}

ASSUME SentinelAssumption ==
    /\ Missing # Unreadable
    /\ Missing \notin HaltStates
    /\ Unreadable \notin HaltStates

DefaultState ==
    [level |-> 0, reason |-> "none", trigger_date |-> NoDate,
     requires_manual_reset |-> FALSE, fail_closed |-> FALSE]

\* What run_drill writes while it probes the gate.
DrillState(today) ==
    [level |-> 2, reason |-> "drill", trigger_date |-> today,
     requires_manual_reset |-> TRUE, fail_closed |-> FALSE]

\* Mutant of ReadHaltState: a file that cannot be decoded counts as fresh.
ReadCorruptAsFresh(file) == IF file \in {Missing, Unreadable} THEN DefaultState ELSE file

\* A missing file is a fresh default; Unreadable is handed on as it is.
ReadHaltState(file) == IF file = Missing THEN DefaultState ELSE file

\* manual_reset and run_drill: `self._read_halt_state() or self._default_state()'
ReadOrDefault(file) == IF file = Unreadable THEN DefaultState ELSE ReadHaltState(file)

----------------------------------------------------------------------------
(***************************************************************************)
(* What evaluate can conclude, as far as the halt state depends on it: a   *)
(* level from drawdown, daily loss or streak, or, with the equity missing, *)
(* level 1 failing closed.  How the level follows from the equity history  *)
(* is no concern of this module.                                           *)
(***************************************************************************)
Evaluations ==
    {ev \in [level : Levels, fail_closed : BOOLEAN] : ev.fail_closed => ev.level = 1}

Higher(a, b) == IF a >= b THEN a ELSE b

\* Mutant of EffectiveLevel: the latch is not consulted.
EffectiveWithoutLatch(state, ev, today) ==
    IF state.level = 1 /\ state.trigger_date = today
    THEN Higher(1, ev.level)
    ELSE ev.level

\* Mutant of EffectiveLevel: a soft halt lifts with the first clean evaluation.
EffectiveWithoutDay(state, ev, today) ==
    IF state.requires_manual_reset THEN Higher(state.level, ev.level) ELSE ev.level

\* Mutant of EffectiveLevel: a breach that persists deepens the latch.
EffectiveEscalating(state, ev, today) ==
    IF state.requires_manual_reset /\ ev.level >= state.level THEN state.level + 1
    ELSE Higher(state.level, ev.level)

\* check_and_update: a latch never clears itself, a soft halt lasts its day out.
EffectiveLevel(state, ev, today) ==
    IF state.requires_manual_reset THEN Higher(state.level, ev.level)
    ELSE IF state.level = 1 /\ state.trigger_date = today THEN Higher(1, ev.level)
    ELSE ev.level

\* Mutant of UpdatedState: fail_closed is refreshed only when the level moves.
UpdatedWithStaleFailClosed(state, ev, today) ==
    LET effective == EffectiveLevel(state, ev, today) IN
    IF effective = state.level THEN state
    ELSE [level |-> effective,
          reason |-> IF effective = 0 THEN "none" ELSE "breach",
          trigger_date |-> IF effective > state.level THEN today ELSE state.trigger_date,
          requires_manual_reset |->
              effective >= 2 \/ (state.requires_manual_reset /\ effective > 0),
          fail_closed |-> ev.fail_closed]

\* Mutant of UpdatedState: only the flatten level asks for a manual reset.
UpdatedLatchingL3Only(state, ev, today) ==
    LET effective == EffectiveLevel(state, ev, today) IN
    IF effective = state.level THEN [state EXCEPT !.fail_closed = ev.fail_closed]
    ELSE [level |-> effective,
          reason |-> IF effective = 0 THEN "none" ELSE "breach",
          trigger_date |-> IF effective > state.level THEN today ELSE state.trigger_date,
          requires_manual_reset |-> effective >= 3,
          fail_closed |-> ev.fail_closed]

\* The dictionary check_and_update writes back.  With the level unchanged only
\* fail_closed moves: trigger_date keeps the day the level was first reached.
UpdatedState(state, ev, today) ==
    LET effective == EffectiveLevel(state, ev, today) IN
    IF effective = state.level THEN [state EXCEPT !.fail_closed = ev.fail_closed]
    ELSE [level |-> effective,
          reason |-> IF effective = 0 THEN "none" ELSE "breach",
          trigger_date |-> IF effective > state.level THEN today ELSE state.trigger_date,
          requires_manual_reset |->
              effective >= 2 \/ (state.requires_manual_reset /\ effective > 0),
          fail_closed |-> ev.fail_closed]

----------------------------------------------------------------------------
\* entries_allowed: the last-line gate, on the file and the date alone.
EntriesAllowed(file, today) ==
    LET state == ReadHaltState(file) IN
    /\ state # Unreadable
    /\ ~state.fail_closed
    /\ state.level < 2
    /\ ~(state.level = 1 /\ state.trigger_date = today)
============================================================================
