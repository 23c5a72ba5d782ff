--------------------------- MODULE CircuitBreaker ---------------------------
(***************************************************************************)
(* tradeops/safety/circuit_breaker.py as its callers run it: the agent's   *)
(* own loop (check_and_update, run_drill, the gate before an entry) and an *)
(* operator's console (manual_reset, run_drill), separate processes that   *)
(* share one halt-state file, and the temporary file every write of it     *)
(* goes through, and take no lock.  Every access to a file or to the       *)
(* journal is a step of its own; what lies between two of them is local to *)
(* the call.                                                               *)
(*                                                                         *)
(* flatten_all is one step here; Flatten takes it apart.                   *)
(***************************************************************************)
EXTENDS HaltState

CONSTANTS
    Procs,     \* processes that use the breaker
    Ops,       \* Ops[p]: the operations process p calls
    Cuts,      \* the operations that may be cut off anywhere
    Faults,    \* which of "corrupt" may happen
    MaxDay     \* bound: the last day of the model

Operations == {"check", "drill", "reset", "enter"}

ASSUME ParameterAssumption ==
    /\ Ops \in [Procs -> SUBSET Operations]
    /\ Cuts \subseteq Operations
    /\ Faults \subseteq {"corrupt"}
    /\ MaxDay \in Nat \ {0}

VARIABLES
    file,      \* the halt-state file
    tmp,       \* the one temporary file beside it that every write goes through
    fd,        \* fd[p]: where the bytes of p's open handle would go
    today,     \* the date every process sees
    pc,        \* pc[p]: the access process p does next, or "idle"
    call,      \* call[p]: the locals of the call p is in
    events,    \* events[e]: the date of the newest journal row of kind e
    exposed,   \* positions may be open
    tripped,   \* history: a hard halt was persisted and not reset since
    verdict    \* history: what the last check_and_update to land returned,
               \* or NoVerdict when a reset has landed since

vars == <<file, tmp, fd, today, pc, call, events, exposed, tripped, verdict>>

TripKind == <<"TRIP_L1", "TRIP_L2", "TRIP_L3">>

EventKinds ==
    {"TRIP_L1", "TRIP_L2", "TRIP_L3", "FAIL_CLOSED", "MANUAL_RESET", "DRILL"}

Steps ==
    {"idle", "read", "trip", "fail_closed", "open", "flush", "replace", "flatten",
     "drill_row", "reset_row", "enter"}

\* What a call is about; a drill is forcing its halt or restoring what it found.
Purposes == {"none", "check", "force", "restore", "reset", "enter"}

\* `state' is what the call is about to write, `before' what a drill found.
Calls ==
    [op : Purposes, ev : Evaluations, state : HaltStates, before : HaltStates,
     old : Levels, day : Nat]

NoCall ==
    [op |-> "none", ev |-> [level |-> 0, fail_closed |-> FALSE],
     state |-> DefaultState, before |-> DefaultState, old |-> 0, day |-> NoDate]

\* The temporary file: absent, truncated, a mixture of two texts, or the whole
\* text of one call.
Drafts == [text : {"none", "empty", "torn", "whole"}, op : Purposes, state : HaltStates]

Scrap(text) == [text |-> text, op |-> "none", state |-> DefaultState]

DraftOf(p) == [text |-> "whole", op |-> call[p].op, state |-> call[p].state]

\* A handle stays with the file it opened wherever os.replace moves that file.
Handles == {"none", "tmp", "file", "gone"}

Verdicts == [level : Levels, fail_closed : BOOLEAN, day : Nat]

NoVerdict == [level |-> 0, fail_closed |-> FALSE, day |-> NoDate]

TypeOK ==
    /\ file \in Files
    /\ tmp \in Drafts
    /\ fd \in [Procs -> Handles]
    /\ today \in Nat \ {0}
    /\ pc \in [Procs -> Steps]
    /\ call \in [Procs -> Calls]
    /\ events \in [EventKinds -> Nat]
    /\ exposed \in BOOLEAN
    /\ tripped \in BOOLEAN
    /\ verdict \in Verdicts

Init ==
    /\ file = Missing
    /\ tmp = Scrap("none")
    /\ fd = [p \in Procs |-> "none"]
    /\ today = 1
    /\ pc = [p \in Procs |-> "idle"]
    /\ call = [p \in Procs |-> NoCall]
    /\ events = [e \in EventKinds |-> NoDate]
    /\ exposed \in BOOLEAN
    /\ tripped = FALSE
    /\ verdict = NoVerdict

Goto(p, step) == pc' = [pc EXCEPT ![p] = step]

Return(p) ==
    /\ Goto(p, "idle")
    /\ call' = [call EXCEPT ![p] = NoCall]

LogRow(e) == events' = [events EXCEPT ![e] = today]

Begins(p, op) == pc[p] = "idle" /\ op \in Ops[p]

----------------------------------------------------------------------------
(***************************************************************************)
(* _write_halt_state, shared by check_and_update, run_drill and            *)
(* manual_reset: open the temporary file, write the text when it closes,   *)
(* os.replace it over the halt-state file.  All calls use one temporary    *)
(* name, so another process may come in between any two of the three.      *)
(***************************************************************************)

\* What a check, or a reset, changes in the histories when its text lands.
LandCheck(p) ==
    /\ tripped' = (tripped \/ call[p].state.level >= 2)
    /\ verdict' = [level |-> call[p].state.level, fail_closed |-> call[p].ev.fail_closed,
                   day |-> call[p].day]

LandReset ==
    /\ tripped' = FALSE
    /\ verdict' = NoVerdict

Land(p) ==
    CASE call[p].op = "check" -> LandCheck(p)
      [] call[p].op = "reset" -> LandReset
      [] OTHER -> UNCHANGED <<tripped, verdict>>

\* open(tmp, "w") empties the file, also under the handle of another process.
Open(p) ==
    /\ pc[p] = "open"
    /\ tmp' = Scrap("empty")
    /\ fd' = [fd EXCEPT ![p] = "tmp"]
    /\ Goto(p, "flush")
    /\ UNCHANGED <<file, today, call, events, exposed, tripped, verdict>>

\* The text is short: it is buffered and goes out when the file closes.
Closes(p) ==
    /\ pc[p] = "flush"
    /\ fd' = [fd EXCEPT ![p] = "none"]
    /\ Goto(p, "replace")
    /\ UNCHANGED <<today, call, events, exposed>>

\* Over the text of another process the shorter of the two leaves a rest.
FlushToTmp(p) ==
    /\ fd[p] = "tmp"
    /\ \/ tmp' = DraftOf(p)
       \/ tmp.text # "empty" /\ tmp' = Scrap("torn")
    /\ Closes(p)
    /\ UNCHANGED <<file, tripped, verdict>>

\* Another process has moved the file p writes to over the halt state.
FlushToFile(p) ==
    /\ fd[p] = "file"
    /\ \/ file' = call[p].state /\ Land(p)
       \/ file' = Unreadable /\ UNCHANGED <<tripped, verdict>>
    /\ Closes(p)
    /\ UNCHANGED tmp

\* Another process still has since replaced that file.
FlushToNowhere(p) ==
    /\ fd[p] = "gone"
    /\ Closes(p)
    /\ UNCHANGED <<file, tmp, tripped, verdict>>

\* os.replace moves whatever the temporary name holds, and the handles with
\* it.  The draft of a reset is a reset whoever moves it, and the move of a
\* reset is one whatever it moves.
Publish(p) ==
    /\ pc[p] = "replace"
    /\ tmp.text # "none"
    /\ file' = IF tmp.text = "whole" THEN tmp.state ELSE Unreadable
    /\ tmp' = Scrap("none")
    /\ fd' = [q \in Procs |-> CASE fd[q] = "tmp" -> "file"
                                [] fd[q] = "file" -> "gone"
                                [] OTHER -> fd[q]]
    /\ IF tmp.op = "reset" THEN LandReset ELSE Land(p)
    /\ UNCHANGED <<today, events, exposed>>

\* Another process has moved the temporary file away: FileNotFoundError leaves
\* the call, and what the call would have done next is not done.
ReplaceRaises(p) ==
    /\ pc[p] = "replace"
    /\ tmp.text = "none"
    /\ Return(p)
    /\ UNCHANGED <<file, tmp, fd, today, events, exposed, tripped, verdict>>

----------------------------------------------------------------------------
(* check_and_update *)

\* Snapshot and evaluation: nothing of the halt state is touched yet.
Evaluate(p) ==
    /\ Begins(p, "check")
    /\ \E ev \in Evaluations :
           call' = [call EXCEPT ![p] = [NoCall EXCEPT !.op = "check", !.ev = ev]]
    /\ Goto(p, "read")
    /\ UNCHANGED <<file, tmp, fd, today, events, exposed, tripped, verdict>>

\* An unreadable file ends the call: no row, no write, no flatten.
ReadUnreadable(p) ==
    /\ pc[p] = "read"
    /\ file = Unreadable
    /\ verdict' = [level |-> call[p].ev.level, fail_closed |-> TRUE, day |-> today]
    /\ Return(p)
    /\ UNCHANGED <<file, tmp, fd, today, events, exposed, tripped>>

\* Mutant of AfterRead: a trip is logged only when it leaves the normal level.
AfterReadLoggingFirstTrip(old, state) ==
    IF state.level > old /\ old = 0 THEN "trip"
    ELSE IF state.fail_closed THEN "fail_closed" ELSE "open"

\* A raised level is logged first, then failing closed, then the file written.
AfterRead(old, state) ==
    IF state.level > old THEN "trip"
    ELSE IF state.fail_closed THEN "fail_closed" ELSE "open"

\* Everything the call will write is decided from this one read.
ReadForCheck(p) ==
    /\ pc[p] = "read"
    /\ file # Unreadable
    /\ LET before == ReadHaltState(file)
           state  == UpdatedState(before, call[p].ev, today)
       IN  /\ call' = [call EXCEPT ![p].state = state,
                                   ![p].old = before.level,
                                   ![p].day = today]
           /\ Goto(p, AfterRead(before.level, state))
    /\ UNCHANGED <<file, tmp, fd, today, events, exposed, tripped, verdict>>

LogTrip(p) ==
    /\ pc[p] = "trip"
    /\ LogRow(TripKind[call[p].state.level])
    /\ Goto(p, IF call[p].state.fail_closed THEN "fail_closed" ELSE "open")
    /\ UNCHANGED <<file, tmp, fd, today, call, exposed, tripped, verdict>>

LogFailClosed(p) ==
    /\ pc[p] = "fail_closed"
    /\ LogRow("FAIL_CLOSED")
    /\ Goto(p, "open")
    /\ UNCHANGED <<file, tmp, fd, today, call, exposed, tripped, verdict>>

\* Mutant of MustFlatten: a hard halt that deepens does not flatten.
FlattenFromNormal(old, state) == state.level = 3 /\ old < 2

\* Only the check that raises the level to 3 flattens.
MustFlatten(old, state) == state.level = 3 /\ old < 3

\* The call returns the evaluation's own fail_closed, with the level of the file.
WriteVerdict(p) ==
    /\ call[p].op = "check"
    /\ Publish(p)
    /\ IF MustFlatten(call[p].old, call[p].state)
       THEN Goto(p, "flatten") /\ UNCHANGED call
       ELSE Return(p)

FlattenAll(p) ==
    /\ pc[p] = "flatten"
    /\ exposed' = FALSE
    /\ Return(p)
    /\ UNCHANGED <<file, tmp, fd, today, events, tripped, verdict>>

----------------------------------------------------------------------------
(* run_drill *)

DrillRead(p) ==
    /\ Begins(p, "drill")
    /\ call' = [call EXCEPT ![p] = [NoCall EXCEPT !.op = "force",
                                                  !.state = DrillState(today),
                                                  !.before = ReadOrDefault(file)]]
    /\ Goto(p, "open")
    /\ UNCHANGED <<file, tmp, fd, today, events, exposed, tripped, verdict>>

\* Mutant of DrillForced: the drill ends by clearing the halt it forced.
DrillClears(p) ==
    /\ call[p].op = "force"
    /\ Publish(p)
    /\ call' = [call EXCEPT ![p].op = "restore", ![p].state = DefaultState]
    /\ Goto(p, "open")

\* The gate is asked next; its answer goes to the text of the DRILL row only.
DrillForced(p) ==
    /\ call[p].op = "force"
    /\ Publish(p)
    /\ call' = [call EXCEPT ![p].op = "restore", ![p].state = call[p].before]
    /\ Goto(p, "open")

DrillRestored(p) ==
    /\ call[p].op = "restore"
    /\ Publish(p)
    /\ Goto(p, "drill_row")
    /\ UNCHANGED call

DrillLog(p) ==
    /\ pc[p] = "drill_row"
    /\ LogRow("DRILL")
    /\ Return(p)
    /\ UNCHANGED <<file, tmp, fd, today, exposed, tripped, verdict>>

----------------------------------------------------------------------------
(* manual_reset *)

\* The level read first is only quoted in the row.
ResetBegin(p) ==
    /\ Begins(p, "reset")
    /\ call' = [call EXCEPT ![p] = [NoCall EXCEPT !.op = "reset"]]
    /\ Goto(p, "open")
    /\ UNCHANGED <<file, tmp, fd, today, events, exposed, tripped, verdict>>

ResetWritten(p) ==
    /\ call[p].op = "reset"
    /\ Publish(p)
    /\ Goto(p, "reset_row")
    /\ UNCHANGED call

ResetLog(p) ==
    /\ pc[p] = "reset_row"
    /\ LogRow("MANUAL_RESET")
    /\ Return(p)
    /\ UNCHANGED <<file, tmp, fd, today, exposed, tripped, verdict>>

----------------------------------------------------------------------------
(* The agent's entry path: it asks entries_allowed, then it buys. *)

AskGate(p) ==
    /\ Begins(p, "enter")
    /\ EntriesAllowed(file, today)
    /\ call' = [call EXCEPT ![p].op = "enter"]
    /\ Goto(p, "enter")
    /\ UNCHANGED <<file, tmp, fd, today, events, exposed, tripped, verdict>>

PlaceEntry(p) ==
    /\ pc[p] = "enter"
    /\ exposed' = TRUE
    /\ Return(p)
    /\ UNCHANGED <<file, tmp, fd, today, events, tripped, verdict>>

----------------------------------------------------------------------------
(* The environment *)

\* The bound MaxDay stops the calendar, not the processes.
Tick ==
    /\ today < MaxDay
    /\ today' = today + 1
    /\ UNCHANGED <<file, tmp, fd, pc, call, events, exposed, tripped, verdict>>

\* An existing file turns undecodable: a bad edit, a full disk, a lost block.
Corrupt ==
    /\ "corrupt" \in Faults
    /\ file # Missing
    /\ file' = Unreadable
    /\ UNCHANGED <<tmp, fd, today, pc, call, events, exposed, tripped, verdict>>

\* The process dies, or an exception of the journal or of the disk leaves the
\* call.  What it had buffered is lost, what it had written stays.
Crash(p) ==
    /\ \/ call[p].op \in Cuts
       \/ call[p].op \in {"force", "restore"} /\ "drill" \in Cuts
    /\ fd' = [fd EXCEPT ![p] = "none"]
    /\ Return(p)
    /\ UNCHANGED <<file, tmp, today, events, exposed, tripped, verdict>>

----------------------------------------------------------------------------
WriteStep(p) ==
    Open(p) \/ FlushToTmp(p) \/ FlushToFile(p) \/ FlushToNowhere(p) \/ ReplaceRaises(p)

CheckStep(p) ==
    \/ Evaluate(p) \/ ReadUnreadable(p) \/ ReadForCheck(p) \/ LogTrip(p)
    \/ LogFailClosed(p) \/ WriteVerdict(p) \/ FlattenAll(p)

DrillStep(p) ==
    DrillRead(p) \/ DrillForced(p) \/ DrillRestored(p) \/ DrillLog(p)

ResetStep(p) == ResetBegin(p) \/ ResetWritten(p) \/ ResetLog(p)

EntryStep(p) == AskGate(p) \/ PlaceEntry(p)

ProcStep(p) ==
    WriteStep(p) \/ CheckStep(p) \/ DrillStep(p) \/ ResetStep(p) \/ EntryStep(p)

Next ==
    \/ \E p \in Procs : ProcStep(p) \/ Crash(p)
    \/ Tick
    \/ Corrupt

Spec == Init /\ [][Next]_vars

\* A call once begun runs on; nobody has to begin one.
Fairness == \A p \in Procs : WF_vars(pc[p] # "idle" /\ ProcStep(p))

FairSpec == Spec /\ Fairness

----------------------------------------------------------------------------
(* Properties *)

Readable == file \notin {Missing, Unreadable}

\* A persisted hard halt keeps the gate closed until an operator resets it:
\* no later evaluation, drill, midnight, crash or half-written file opens it.
\* ("latched L2/L3 never auto-clears", check_and_update; entries_allowed)
TripHolds == tripped => ~EntriesAllowed(file, today)

\* From a check that fails closed until the next check or a reset the gate is
\* closed, also when the halt level did not change, and across a drill.
\* (check_and_update's fail_closed flag and its early return; entries_allowed)
FailClosedBlocks == verdict.fail_closed => ~EntriesAllowed(file, today)

\* A breach in the file has a TRIP row of its level not older than the day it
\* names, and a file that fails closed has a FAIL_CLOSED row, wherever the
\* call that wrote it was cut off and whoever moved its text into place.
\* (check_and_update logs before it writes; Journal: every safety action must
\* leave a row)
Audited(state) ==
    /\ state.level >= 1 /\ state.reason = "breach" =>
           events[TripKind[state.level]] >= state.trigger_date
    /\ state.fail_closed => events["FAIL_CLOSED"] # NoDate

AuditTrail == Readable => Audited(file)

\* While the flatten level is in force and positions may be open, flatten_all
\* is about to run, or the check that must call it is at its write: the level
\* is never in force without it.
\* (check_and_update: `if effective == 3 and old_level < 3'; "3 flatten -
\* drawdown breach; close everything, cancel orders, halt")
FlattenPending ==
    \E p \in Procs :
       \/ pc[p] = "flatten"
       \/ /\ pc[p] = "replace"
          /\ call[p].op = "check"
          /\ call[p].state.level = 3 /\ call[p].old < 3

AtFlattenLevel == Readable /\ file.level = 3

FlattenNotLost == AtFlattenLevel /\ exposed => FlattenPending


\* A soft halt of today that a check has put in force keeps the gate closed
\* for the rest of the day through everything but a manual reset.
\* (check_and_update: `old_level == 1 and trigger_date == today')
SoftHalted == Readable /\ file.level = 1 /\ file.trigger_date = today

InForce == verdict # NoVerdict

SoftHaltLastsTheDay ==
    [][SoftHalted /\ InForce /\ today' = today /\ InForce'
           => ~EntriesAllowed(file, today)']_vars

\* "1 soft halt ... no new entries TODAY" (circuit_breaker.py:10): once a check
\* has returned level 1 or more, no entry is allowed for the rest of that day.
SoftHaltToday == verdict.level >= 1 /\ verdict.day = today => ~EntriesAllowed(file, today)
============================================================================
