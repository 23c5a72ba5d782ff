------------------------ MODULE CircuitBreakerProofs ------------------------
(***************************************************************************)
(* Theorems about CircuitBreaker.  Type correctness and the audit trail    *)
(* hold for any processes, operations, cuts and faults.                    *)
(***************************************************************************)
EXTENDS CircuitBreaker, TLAPS

----------------------------------------------------------------------------
(* The decisions of HaltState *)

\* A level of 2 or more carries the flag that keeps it.
Latching(state) == state.level >= 2 => state.requires_manual_reset

\* What check_and_update decides to write: a halt state again, that latches,
\* that a latched level does not fall below, and that falls only to normal.
LEMMA UpdateFacts ==
    ASSUME NEW state \in HaltStates, NEW ev \in Evaluations, NEW day \in Nat,
           Latching(state)
    PROVE  LET after == UpdatedState(state, ev, day) IN
           /\ after \in HaltStates
           /\ Latching(after)
           /\ state.level >= 2 => after.level >= state.level
           /\ after.level < state.level => after.level = 0
           /\ after.level = state.level =>
                  after.reason = state.reason /\ after.trigger_date = state.trigger_date
           /\ after.level > state.level => after.trigger_date = day
           /\ after.trigger_date \in {state.trigger_date, day}
           /\ state.level = 1 /\ state.trigger_date = day => after.level >= 1
           /\ after.fail_closed = ev.fail_closed
<1> DEFINE effective == EffectiveLevel(state, ev, day)
<1>1. ev.level \in Levels /\ ev.fail_closed \in BOOLEAN
  BY DEF Evaluations, Levels
<1>2. /\ effective \in Levels
      /\ state.level >= 2 => effective >= state.level
      /\ effective < state.level => effective = 0
      /\ state.level = 1 /\ state.trigger_date = day => effective >= 1
  <2>1. state.level \in Levels /\ state.trigger_date \in Nat
    BY DEF HaltStates
  <2>2. CASE state.requires_manual_reset
    <3>1. effective = Higher(state.level, ev.level)
      BY <2>2 DEF EffectiveLevel
    <3> QED
      BY <3>1, <2>1, <1>1 DEF Higher, Levels
  <2>3. CASE ~state.requires_manual_reset
    <3>1. state.level < 2
      BY <2>1, <2>3 DEF Latching, Levels
    <3>2. effective = IF state.level = 1 /\ state.trigger_date = day
                      THEN Higher(1, ev.level) ELSE ev.level
      BY <2>3 DEF EffectiveLevel
    <3> QED
      BY <3>1, <3>2, <2>1, <1>1 DEF Higher, Levels
  <2> QED
    BY <2>2, <2>3
<1> HIDE DEF effective
<1>3. CASE effective = state.level
  <2>1. UpdatedState(state, ev, day) = [state EXCEPT !.fail_closed = ev.fail_closed]
    BY <1>3 DEF UpdatedState, effective
  <2> QED
    BY <2>1, <1>1, <1>2, <1>3 DEF HaltStates, Latching, Levels
<1>4. CASE effective # state.level
  <2> DEFINE latch == effective >= 2 \/ (state.requires_manual_reset /\ effective > 0)
  <2>0. latch \in BOOLEAN /\ (effective >= 2 => latch)
    OBVIOUS
  <2>1. UpdatedState(state, ev, day) =
          [level |-> effective,
           reason |-> IF effective = 0 THEN "none" ELSE "breach",
           trigger_date |-> IF effective > state.level THEN day ELSE state.trigger_date,
           requires_manual_reset |-> latch,
           fail_closed |-> ev.fail_closed]
    BY <1>4 DEF UpdatedState, effective
  <2> HIDE DEF latch
  <2> DEFINE after == UpdatedState(state, ev, day)
  <2>2. /\ after.level = effective
        /\ after.reason \in Reasons
        /\ after.trigger_date = IF effective > state.level THEN day ELSE state.trigger_date
        /\ after.fail_closed = ev.fail_closed
        /\ effective >= 2 => after.requires_manual_reset
    <3>1. /\ after.level = effective
          /\ after.reason = IF effective = 0 THEN "none" ELSE "breach"
          /\ after.trigger_date = IF effective > state.level THEN day ELSE state.trigger_date
          /\ after.fail_closed = ev.fail_closed
      BY <2>1
    <3>2. after.requires_manual_reset = latch
      BY <2>1
    <3> QED
      BY <2>0, <3>1, <3>2 DEF Reasons
  <2>3. after \in HaltStates
    BY <2>0, <2>1, <1>1, <1>2 DEF HaltStates, Reasons
  <2> HIDE DEF after
  <2>4. state.level \in Levels /\ state.trigger_date \in Nat
    BY DEF HaltStates
  <2> QED
    BY <2>2, <2>3, <2>4, <1>2, <1>4 DEF Latching, Levels, after
<1> QED
  BY <1>3, <1>4

LEMMA DefaultFacts == DefaultState \in HaltStates /\ Latching(DefaultState)
  BY DEF DefaultState, HaltStates, Levels, Reasons, NoDate, Latching

LEMMA DrillFacts ==
    ASSUME NEW day \in Nat
    PROVE  DrillState(day) \in HaltStates /\ Latching(DrillState(day))
  BY DEF DrillState, HaltStates, Levels, Reasons, Latching

\* Reading gives the state in the file, or the default state.
LEMMA ReadFacts ==
    ASSUME NEW f \in Files
    PROVE  /\ ReadOrDefault(f) \in HaltStates
           /\ f \in HaltStates => ReadHaltState(f) = f /\ ReadOrDefault(f) = f
           /\ f = Missing => ReadHaltState(f) = DefaultState /\ ReadOrDefault(f) = DefaultState
           /\ f = Unreadable => ReadOrDefault(f) = DefaultState
           /\ f # Unreadable => ReadHaltState(f) \in HaltStates
  BY SentinelAssumption, DefaultFacts DEF ReadHaltState, ReadOrDefault, Files

LEMMA TripKindFacts == \A l \in 1..3 : TripKind[l] \in EventKinds
<1> SUFFICES ASSUME NEW l \in 1..3 PROVE TripKind[l] \in EventKinds
  OBVIOUS
<1>1. l = 1 \/ l = 2 \/ l = 3
  OBVIOUS
<1> QED
  BY <1>1 DEF TripKind, EventKinds

----------------------------------------------------------------------------
(* Types *)

\* What a process holds in its hands is of its type, and a hard halt latched.
HandsFit(p) ==
    /\ Latching(call[p].state) /\ Latching(call[p].before)
    /\ pc[p] = "trip" => call[p].state.level >= 1

\* The types, and that a hard halt is latched wherever it is kept.
TypeInv ==
    /\ TypeOK
    /\ Readable => Latching(file)
    /\ Latching(tmp.state)
    /\ \A p \in Procs : HandsFit(p)

LEMMA NoCallFacts ==
    NoCall \in Calls /\ NoCall.state = DefaultState /\ NoCall.before = DefaultState
  BY DefaultFacts DEF NoCall, Calls, Purposes, Evaluations, Levels, NoDate

LEMMA NoVerdictFacts == NoVerdict \in Verdicts
  BY DEF NoVerdict, Verdicts, Levels, NoDate

LEMMA ScrapFacts ==
    \A text \in {"none", "empty", "torn"} :
        /\ Scrap(text) \in Drafts /\ Scrap(text).text = text
        /\ Scrap(text).op = "none" /\ Scrap(text).state = DefaultState
  BY DefaultFacts DEF Scrap, Drafts, Purposes

LEMMA TypeInvInit == Init => TypeInv
<1> SUFFICES ASSUME Init PROVE TypeInv
  OBVIOUS
<1>1. TypeOK
  <2>1. /\ file \in Files /\ today \in Nat \ {0} /\ pc \in [Procs -> Steps]
        /\ events \in [EventKinds -> Nat] /\ fd \in [Procs -> Handles]
    BY DEF Init, Files, Steps, NoDate, Handles
  <2>2. call \in [Procs -> Calls] /\ verdict = NoVerdict /\ tmp = Scrap("none")
    BY NoCallFacts DEF Init
  <2>3. exposed \in BOOLEAN /\ tripped \in BOOLEAN
    BY DEF Init
  <2> QED
    BY <2>1, <2>2, <2>3, NoVerdictFacts, ScrapFacts DEF TypeOK
<1>2. ~Readable
  BY DEF Init, Readable
<1>3. /\ \A p \in Procs : pc[p] = "idle" /\ call[p] = NoCall
      /\ tmp = Scrap("none")
  BY DEF Init
<1> QED
  BY <1>1, <1>2, <1>3, DefaultFacts, NoCallFacts, ScrapFacts DEF TypeInv, HandsFit

\* The histories keep their types when a text lands.
LEMMA LandTypes ==
    ASSUME TypeInv, NEW p \in Procs, Land(p) \/ LandReset
    PROVE  tripped' \in BOOLEAN /\ verdict' \in Verdicts
<1>1. /\ call[p].state.level \in Levels /\ call[p].ev.fail_closed \in BOOLEAN
      /\ call[p].day \in Nat /\ tripped \in BOOLEAN /\ verdict \in Verdicts
  BY DEF TypeInv, TypeOK, Calls, HaltStates, Evaluations
<1>2. CASE LandCheck(p)
  BY <1>1, <1>2 DEF LandCheck, Verdicts
<1>3. CASE LandReset
  BY <1>3, NoVerdictFacts DEF LandReset
<1>4. CASE UNCHANGED <<tripped, verdict>>
  BY <1>1, <1>4
<1> QED
  BY <1>2, <1>3, <1>4 DEF Land

\* What os.replace leaves, before the caller goes on.
LEMMA PublishTypes ==
    ASSUME TypeInv, NEW p \in Procs, Publish(p)
    PROVE  /\ file' \in Files /\ (Readable' => file' = tmp.state /\ Latching(file'))
           /\ tmp' = Scrap("none") /\ tmp' \in Drafts /\ Latching(tmp'.state)
           /\ fd' \in [Procs -> Handles]
           /\ tripped' \in BOOLEAN /\ verdict' \in Verdicts
           /\ UNCHANGED <<today, events, exposed>>
<1>1. tmp.state \in HaltStates /\ Latching(tmp.state)
  BY DEF TypeInv, TypeOK, Drafts
<1>2. file' \in Files /\ (Readable' => file' = tmp.state)
  BY <1>1 DEF Publish, Files, Readable
<1>3. fd' \in [Procs -> Handles]
  BY DEF Publish, TypeInv, TypeOK, Handles
<1>4. tmp' = Scrap("none") /\ tmp' \in Drafts /\ Latching(tmp'.state)
  BY ScrapFacts, DefaultFacts DEF Publish
<1>5. tripped' \in BOOLEAN /\ verdict' \in Verdicts
  BY LandTypes DEF Publish
<1> QED
  BY <1>1, <1>2, <1>3, <1>4, <1>5 DEF Publish

\* A process that begins, goes on or returns leaves the hands of the others.
LEMMA HandsKept ==
    ASSUME TypeInv, NEW p \in Procs, NEW c \in Calls, NEW step \in Steps,
           call' = [call EXCEPT ![p] = c], pc' = [pc EXCEPT ![p] = step],
           Latching(c.state), Latching(c.before),
           step = "trip" => c.state.level >= 1
    PROVE  /\ pc' \in [Procs -> Steps] /\ call' \in [Procs -> Calls]
           /\ \A q \in Procs : HandsFit(q)'
  BY DEF TypeInv, TypeOK, HandsFit

LEMMA TypeInvStep == TypeInv /\ [Next]_vars => TypeInv'
<1> SUFFICES ASSUME TypeInv, [Next]_vars PROVE TypeInv'
  OBVIOUS
<1>t. /\ TypeOK /\ pc \in [Procs -> Steps] /\ call \in [Procs -> Calls]
      /\ \A p \in Procs : /\ call[p] \in Calls /\ call[p].state \in HaltStates
                         /\ call[p].before \in HaltStates
                         /\ Latching(call[p].state) /\ Latching(call[p].before)
      /\ call = [p \in Procs |-> call[p]]
  BY DEF TypeInv, TypeOK, Calls, HandsFit
<1>r. ASSUME NEW p \in Procs, Return(p)
      PROVE  /\ pc' \in [Procs -> Steps] /\ call' \in [Procs -> Calls]
             /\ \A q \in Procs : HandsFit(q)'
  BY <1>r, HandsKept, NoCallFacts, DefaultFacts DEF Return, Goto, Steps
\* Steps that leave the call's locals.
<1>g. ASSUME NEW p \in Procs, NEW step \in Steps \ {"trip"}, Goto(p, step), UNCHANGED call
      PROVE  /\ pc' \in [Procs -> Steps] /\ call' \in [Procs -> Calls]
             /\ \A q \in Procs : HandsFit(q)'
  <2>1. call' = [call EXCEPT ![p] = call[p]]
    BY <1>g, <1>t
  <2> QED
    BY <1>g, <1>t, <2>1, HandsKept DEF Goto
\* Steps that leave the file, its draft and the handles.
<1>f. ASSUME UNCHANGED <<file, tmp, fd, today>>,
             events' \in [EventKinds -> Nat], exposed' \in BOOLEAN, tripped' \in BOOLEAN,
             verdict' \in Verdicts, pc' \in [Procs -> Steps], call' \in [Procs -> Calls],
             \A q \in Procs : HandsFit(q)'
      PROVE  TypeInv'
  BY <1>f DEF TypeInv, TypeOK, Readable
<1>1. ASSUME NEW p \in Procs, Evaluate(p) PROVE TypeInv'
  <2>0. PICK ev \in Evaluations : call' = [call EXCEPT ![p] = [NoCall EXCEPT !.op = "check", !.ev = ev]]
    BY <1>1 DEF Evaluate
  <2> DEFINE c == [NoCall EXCEPT !.op = "check", !.ev = ev]
  <2>1. c \in Calls /\ c.state = DefaultState /\ c.before = DefaultState
    BY NoCallFacts DEF Calls, Purposes, NoCall
  <2> HIDE DEF c
  <2>2. /\ pc' \in [Procs -> Steps] /\ call' \in [Procs -> Calls]
        /\ \A q \in Procs : HandsFit(q)'
    <3>1. call' = [call EXCEPT ![p] = c]
      BY <2>0 DEF c
    <3>2. pc' = [pc EXCEPT ![p] = "read"]
      BY <1>1 DEF Evaluate, Goto
    <3> QED
      BY <2>1, <3>1, <3>2, HandsKept, DefaultFacts DEF Steps
  <2> QED
    BY <1>1, <1>f, <2>2 DEF Evaluate, TypeInv, TypeOK
<1>4. ASSUME NEW p \in Procs, ReadUnreadable(p) PROVE TypeInv'
  <2>1. call[p].ev.level \in Levels /\ today \in Nat
    BY DEF TypeInv, TypeOK, Calls, Evaluations
  <2>2. verdict' \in Verdicts
    BY <1>4, <2>1 DEF ReadUnreadable, Verdicts
  <2> QED
    BY <1>r, <1>f, <1>4, <2>2 DEF ReadUnreadable, TypeInv, TypeOK
<1>5. ASSUME NEW p \in Procs, ReadForCheck(p) PROVE TypeInv'
  <2> DEFINE before == ReadHaltState(file)
             state == UpdatedState(before, call[p].ev, today)
             new == [call[p] EXCEPT !.state = state, !.old = before.level, !.day = today]
  <2>1. before \in HaltStates /\ Latching(before)
    BY <1>5, ReadFacts, DefaultFacts DEF ReadForCheck, Files, TypeInv, TypeOK, Readable
  <2>2. call[p].ev \in Evaluations /\ today \in Nat
    BY DEF Calls, TypeInv, TypeOK
  <2>3. state \in HaltStates /\ Latching(state)
    BY <2>1, <2>2, UpdateFacts
  <2> HIDE DEF before, state
  <2>4. call' = [call EXCEPT ![p] = new] /\ pc' = [pc EXCEPT ![p] = AfterRead(before.level, state)]
    BY <1>5 DEF ReadForCheck, Goto, before, state
  <2>5. /\ new \in Calls /\ new.state = state /\ new.before = call[p].before
        /\ before.level \in Levels /\ state.level \in Levels
    BY <1>t, <2>1, <2>2, <2>3 DEF Calls, HaltStates
  <2> HIDE DEF new
  <2>6. /\ AfterRead(before.level, state) \in Steps
        /\ AfterRead(before.level, state) = "trip" => state.level >= 1
    BY <2>5 DEF AfterRead, Steps, Levels
  <2>7. UNCHANGED <<file, tmp, fd, today, events, exposed, tripped, verdict>>
    BY <1>5 DEF ReadForCheck
  <2>8. /\ pc' \in [Procs -> Steps] /\ call' \in [Procs -> Calls]
        /\ \A q \in Procs : HandsFit(q)'
    BY <1>t, <2>3, <2>4, <2>5, <2>6, HandsKept
  <2> QED
    BY <1>f, <2>7, <2>8 DEF TypeInv, TypeOK
<1>6. ASSUME NEW p \in Procs, LogTrip(p) PROVE TypeInv'
  <2>1. call[p].state.level \in 1..3
    BY <1>6, <1>t DEF LogTrip, HaltStates, Levels, TypeInv, HandsFit
  <2>2. TripKind[call[p].state.level] \in EventKinds
    BY <2>1, TripKindFacts
  <2>3. events' \in [EventKinds -> Nat]
    BY <1>6, <2>2 DEF LogTrip, LogRow, TypeInv, TypeOK
  <2> QED
    BY <1>6, <1>g, <1>f, <2>3 DEF LogTrip, Steps, TypeInv, TypeOK
<1>7. ASSUME NEW p \in Procs, LogFailClosed(p) PROVE TypeInv'
  <2>1. events' \in [EventKinds -> Nat]
    BY <1>7 DEF LogFailClosed, LogRow, TypeInv, TypeOK
  <2> QED
    BY <1>7, <1>g, <1>f, <2>1 DEF LogFailClosed, Steps, TypeInv, TypeOK
\* The write
<1>8. ASSUME NEW p \in Procs, Open(p) PROVE TypeInv'
  <2>1. tmp' = Scrap("empty") /\ fd' \in [Procs -> Handles]
    BY <1>8 DEF Open, TypeInv, TypeOK, Handles
  <2> QED
    BY <1>8, <1>g, <2>1, ScrapFacts, DefaultFacts DEF Open, Steps, TypeInv, TypeOK, Readable
<1>9. ASSUME NEW p \in Procs, Closes(p)
      PROVE  /\ pc' \in [Procs -> Steps] /\ call' \in [Procs -> Calls]
             /\ \A q \in Procs : HandsFit(q)'
             /\ fd' \in [Procs -> Handles]
             /\ UNCHANGED <<today, events, exposed>>
  BY <1>9, <1>g DEF Closes, Steps, TypeInv, TypeOK, Handles
<1>10. ASSUME NEW p \in Procs, FlushToTmp(p) PROVE TypeInv'
  <2>1. DraftOf(p) \in Drafts /\ DraftOf(p).state = call[p].state
    BY <1>t DEF DraftOf, Drafts, Calls
  <2>2. tmp' \in Drafts /\ Latching(tmp'.state)
    BY <1>10, <1>t, <2>1, ScrapFacts, DefaultFacts DEF FlushToTmp
  <2> QED
    BY <1>9, <1>10, <2>2 DEF FlushToTmp, TypeInv, TypeOK, Readable
<1>11. ASSUME NEW p \in Procs, FlushToFile(p) PROVE TypeInv'
  <2>1. file' \in Files /\ (Readable' => Latching(file'))
    BY <1>11, <1>t DEF FlushToFile, Files, Readable
  <2>2. tripped' \in BOOLEAN /\ verdict' \in Verdicts
    BY <1>11, LandTypes DEF FlushToFile, TypeInv, TypeOK
  <2> QED
    BY <1>9, <1>11, <2>1, <2>2 DEF FlushToFile, TypeInv, TypeOK
<1>12. ASSUME NEW p \in Procs, FlushToNowhere(p) PROVE TypeInv'
  BY <1>9, <1>12 DEF FlushToNowhere, TypeInv, TypeOK, Readable
<1>13. ASSUME NEW p \in Procs, ReplaceRaises(p) PROVE TypeInv'
  BY <1>r, <1>f, <1>13 DEF ReplaceRaises, TypeInv, TypeOK
<1>p. ASSUME NEW p \in Procs, Publish(p),
             pc' \in [Procs -> Steps], call' \in [Procs -> Calls],
             \A q \in Procs : HandsFit(q)'
      PROVE  TypeInv'
  BY <1>p, PublishTypes DEF TypeInv, TypeOK
<1>14. ASSUME NEW p \in Procs, WriteVerdict(p) PROVE TypeInv'
  <2>1. \/ Return(p)
        \/ Goto(p, "flatten") /\ UNCHANGED call
    BY <1>14 DEF WriteVerdict
  <2> QED
    BY <1>14, <1>r, <1>g, <1>p, <2>1 DEF WriteVerdict, Steps
<1>15. ASSUME NEW p \in Procs, FlattenAll(p) PROVE TypeInv'
  BY <1>r, <1>f, <1>15 DEF FlattenAll, TypeInv, TypeOK
<1>16. ASSUME NEW p \in Procs, DrillRead(p) PROVE TypeInv'
  <2> DEFINE c == [NoCall EXCEPT !.op = "force", !.state = DrillState(today),
                                 !.before = ReadOrDefault(file)]
  <2>1. /\ ReadOrDefault(file) \in HaltStates /\ Latching(ReadOrDefault(file))
        /\ DrillState(today) \in HaltStates /\ Latching(DrillState(today))
    BY ReadFacts, DefaultFacts, DrillFacts DEF Files, TypeInv, TypeOK, Readable
  <2>2. c \in Calls /\ c.state = DrillState(today) /\ c.before = ReadOrDefault(file)
    BY <2>1, NoCallFacts DEF Calls, Purposes, NoCall
  <2>3. call' = [call EXCEPT ![p] = c] /\ pc' = [pc EXCEPT ![p] = "open"]
    BY <1>16 DEF DrillRead, Goto
  <2> HIDE DEF c
  <2>4. /\ pc' \in [Procs -> Steps] /\ call' \in [Procs -> Calls]
        /\ \A q \in Procs : HandsFit(q)'
    BY <2>1, <2>2, <2>3, HandsKept DEF Steps
  <2> QED
    BY <1>16, <1>f, <2>4 DEF DrillRead, TypeInv, TypeOK
<1>17. ASSUME NEW p \in Procs, DrillForced(p) PROVE TypeInv'
  <2> DEFINE c == [call[p] EXCEPT !.op = "restore", !.state = call[p].before]
  <2>1. c \in Calls /\ c.state = call[p].before /\ c.before = call[p].before
    BY <1>t DEF Calls, Purposes
  <2>2. call' = [call EXCEPT ![p] = c] /\ pc' = [pc EXCEPT ![p] = "open"]
    BY <1>17, <1>t DEF DrillForced, Goto
  <2> HIDE DEF c
  <2>3. /\ pc' \in [Procs -> Steps] /\ call' \in [Procs -> Calls]
        /\ \A q \in Procs : HandsFit(q)'
    BY <1>t, <2>1, <2>2, HandsKept DEF Steps
  <2> QED
    BY <1>17, <1>p, <2>3 DEF DrillForced
<1>18. ASSUME NEW p \in Procs, DrillRestored(p) PROVE TypeInv'
  BY <1>18, <1>g, <1>p DEF DrillRestored, Steps
<1>19. ASSUME NEW p \in Procs, DrillLog(p) PROVE TypeInv'
  <2>1. events' \in [EventKinds -> Nat]
    BY <1>19 DEF DrillLog, LogRow, TypeInv, TypeOK
  <2> QED
    BY <1>19, <1>r, <1>f, <2>1 DEF DrillLog, TypeInv, TypeOK
<1>20. ASSUME NEW p \in Procs, ResetBegin(p) PROVE TypeInv'
  <2> DEFINE c == [NoCall EXCEPT !.op = "reset"]
  <2>1. c \in Calls /\ c.state = DefaultState /\ c.before = DefaultState
    BY NoCallFacts DEF Calls, Purposes, NoCall
  <2>2. call' = [call EXCEPT ![p] = c] /\ pc' = [pc EXCEPT ![p] = "open"]
    BY <1>20 DEF ResetBegin, Goto
  <2> HIDE DEF c
  <2>3. /\ pc' \in [Procs -> Steps] /\ call' \in [Procs -> Calls]
        /\ \A q \in Procs : HandsFit(q)'
    BY <2>1, <2>2, DefaultFacts, HandsKept DEF Steps
  <2> QED
    BY <1>20, <1>f, <2>3 DEF ResetBegin, TypeInv, TypeOK
<1>21. ASSUME NEW p \in Procs, ResetWritten(p) PROVE TypeInv'
  BY <1>21, <1>g, <1>p DEF ResetWritten, Steps
<1>22. ASSUME NEW p \in Procs, ResetLog(p) PROVE TypeInv'
  <2>1. events' \in [EventKinds -> Nat]
    BY <1>22 DEF ResetLog, LogRow, TypeInv, TypeOK
  <2> QED
    BY <1>22, <1>r, <1>f, <2>1 DEF ResetLog, TypeInv, TypeOK
<1>23. ASSUME NEW p \in Procs, AskGate(p) PROVE TypeInv'
  <2> DEFINE c == [call[p] EXCEPT !.op = "enter"]
  <2>1. c \in Calls /\ c.state = call[p].state /\ c.before = call[p].before
    BY <1>t DEF Calls, Purposes
  <2>2. call' = [call EXCEPT ![p] = c] /\ pc' = [pc EXCEPT ![p] = "enter"]
    BY <1>23, <1>t DEF AskGate, Goto
  <2> HIDE DEF c
  <2>3. /\ pc' \in [Procs -> Steps] /\ call' \in [Procs -> Calls]
        /\ \A q \in Procs : HandsFit(q)'
    BY <1>t, <2>1, <2>2, HandsKept DEF Steps
  <2> QED
    BY <1>23, <1>f, <2>3 DEF AskGate, TypeInv, TypeOK
<1>24. ASSUME NEW p \in Procs, PlaceEntry(p) PROVE TypeInv'
  BY <1>r, <1>f, <1>24 DEF PlaceEntry, TypeInv, TypeOK
<1>25. CASE Tick
  BY <1>25 DEF Tick, TypeInv, TypeOK, Readable, HandsFit
<1>26. CASE Corrupt
  BY <1>26 DEF Corrupt, Files, TypeInv, TypeOK, Readable, HandsFit
<1>27. ASSUME NEW p \in Procs, Crash(p) PROVE TypeInv'
  <2>1. fd' \in [Procs -> Handles]
    BY <1>27 DEF Crash, TypeInv, TypeOK, Handles
  <2> QED
    BY <1>r, <1>27, <2>1 DEF Crash, TypeInv, TypeOK, Readable
<1>28. CASE UNCHANGED vars
  BY <1>28 DEF vars, TypeInv, TypeOK, Readable, HandsFit
<1> QED
  BY <1>1, <1>4, <1>5, <1>6, <1>7, <1>8, <1>10, <1>11, <1>12, <1>13, <1>14,
     <1>15, <1>16, <1>17, <1>18, <1>19, <1>20, <1>21, <1>22, <1>23, <1>24, <1>25,
     <1>26, <1>27, <1>28
     DEF Next, ProcStep, WriteStep, CheckStep, DrillStep, ResetStep, EntryStep

\* Every variable keeps its type, and a level of 2 or more is latched wherever
\* it is kept, for any processes, operations, cuts and faults.
THEOREM TypeCorrect == Spec => []TypeOK
<1>1. TypeInv => TypeOK
  BY DEF TypeInv
<1> QED
  BY <1>1, TypeInvInit, TypeInvStep, PTL DEF Spec

----------------------------------------------------------------------------
(* The audit trail *)

TripAudited(state, newest) ==
    state.level >= 1 /\ state.reason = "breach" =>
        newest[TripKind[state.level]] >= state.trigger_date

AuditedBy(state, newest) ==
    /\ TripAudited(state, newest)
    /\ state.fail_closed => newest["FAIL_CLOSED"] # NoDate

\* Rows of the journal are in place before the state they account for is
\* written: at each step of a call, the rows its remaining steps rely on.
CallAudited(p) ==
    /\ AuditedBy(call[p].before, events)
    /\ pc[p] \in {"open", "flush", "replace"} => AuditedBy(call[p].state, events)
    /\ pc[p] = "fail_closed" => TripAudited(call[p].state, events)
    /\ pc[p] = "trip" => call[p].state.trigger_date <= today

AuditInv ==
    /\ TypeInv
    /\ \A e \in EventKinds : events[e] <= today
    /\ Readable => AuditedBy(file, events)
    /\ AuditedBy(tmp.state, events)
    /\ \A p \in Procs : CallAudited(p)

\* A newer row never takes away an account.
LEMMA AuditMonotone ==
    ASSUME NEW state \in HaltStates,
           NEW old \in [EventKinds -> Nat], NEW new \in [EventKinds -> Nat],
           \A e \in EventKinds : old[e] <= new[e]
    PROVE  /\ TripAudited(state, old) => TripAudited(state, new)
           /\ AuditedBy(state, old) => AuditedBy(state, new)
<1>1. state.level \in Levels /\ state.trigger_date \in Nat
  BY DEF HaltStates
<1>2. ASSUME state.level >= 1
      PROVE  /\ old[TripKind[state.level]] \in Nat /\ new[TripKind[state.level]] \in Nat
             /\ old[TripKind[state.level]] <= new[TripKind[state.level]]
  <2>1. TripKind[state.level] \in EventKinds
    BY <1>1, <1>2, TripKindFacts DEF Levels
  <2> QED
    BY <2>1
<1>3. TripAudited(state, old) => TripAudited(state, new)
  BY <1>1, <1>2 DEF TripAudited
<1>4. old["FAIL_CLOSED"] # NoDate => new["FAIL_CLOSED"] # NoDate
  BY DEF EventKinds, NoDate
<1> QED
  BY <1>3, <1>4 DEF AuditedBy

LEMMA PlainAudited ==
    ASSUME NEW newest, NEW day \in Nat
    PROVE  AuditedBy(DefaultState, newest) /\ AuditedBy(DrillState(day), newest)
  BY DEF AuditedBy, TripAudited, DefaultState, DrillState

LEMMA AuditInvInit == Init => AuditInv
<1> SUFFICES ASSUME Init PROVE AuditInv
  OBVIOUS
<1>1. /\ \A e \in EventKinds : events[e] <= today
      /\ ~Readable /\ tmp = Scrap("none")
      /\ \A p \in Procs : pc[p] = "idle" /\ call[p] = NoCall
  BY DEF Init, Readable, NoDate
<1>2. AuditedBy(DefaultState, events)
  BY PlainAudited
<1> QED
  BY <1>1, <1>2, TypeInvInit, NoCallFacts, ScrapFacts DEF AuditInv, CallAudited

LEMMA AuditInvStep == AuditInv /\ [Next]_vars => AuditInv'
<1> SUFFICES ASSUME AuditInv, [Next]_vars, TypeInv' PROVE AuditInv'
  BY TypeInvStep DEF AuditInv
<1>t. /\ TypeInv /\ TypeInv' /\ today \in Nat /\ today' \in Nat
      /\ events \in [EventKinds -> Nat] /\ events' \in [EventKinds -> Nat]
      /\ pc \in [Procs -> Steps] /\ call \in [Procs -> Calls] /\ file \in Files
      /\ tmp.state \in HaltStates
      /\ \A p \in Procs : call[p].state \in HaltStates /\ call[p].before \in HaltStates
      /\ Readable => file \in HaltStates
  BY DEF AuditInv, TypeInv, TypeOK, Calls, Drafts, Readable, Files
<1>d. \A newest : AuditedBy(DefaultState, newest)
  BY PlainAudited DEF DefaultState
\* The journal grows, or stays as it is, under the same or the next date.
<1> DEFINE Grows == /\ \A e \in EventKinds : events[e] <= events'[e] /\ events'[e] <= today'
                    /\ today <= today'
<1>u. UNCHANGED events /\ today <= today' => Grows
  BY <1>t DEF AuditInv
<1>r. ASSUME NEW e \in EventKinds, LogRow(e), UNCHANGED today
      PROVE  Grows /\ events'[e] = today
  BY <1>t, <1>r DEF LogRow, AuditInv
<1> HIDE DEF Grows
\* What a growing journal leaves accounted for.
<1>k. ASSUME Grows
      PROVE  /\ Readable => AuditedBy(file, events')
             /\ AuditedBy(tmp.state, events')
             /\ \A q \in Procs :
                   /\ AuditedBy(call[q].before, events')
                   /\ AuditedBy(call[q].state, events) => AuditedBy(call[q].state, events')
                   /\ TripAudited(call[q].state, events) => TripAudited(call[q].state, events')
  BY <1>t, <1>k, AuditMonotone DEF Grows, AuditInv, CallAudited
\* It remains to look at the files that moved and the process that did.
<1>a. ASSUME NEW p \in Procs, Grows,
             Readable' => (file' = file /\ Readable) \/ AuditedBy(file', events'),
             tmp' = tmp \/ AuditedBy(tmp'.state, events'),
             \A q \in Procs \ {p} : pc'[q] = pc[q] /\ call'[q] = call[q],
             CallAudited(p)'
      PROVE  AuditInv'
  <2>1. \A e \in EventKinds : events'[e] <= today'
    BY <1>a DEF Grows
  <2>2. ASSUME NEW q \in Procs, q # p PROVE CallAudited(q)'
    <3>1. pc'[q] = pc[q] /\ call'[q] = call[q] /\ CallAudited(q)
      BY <1>a, <2>2 DEF AuditInv
    <3>2. call[q].state.trigger_date <= today => call[q].state.trigger_date <= today'
      BY <1>a, <1>t DEF Grows, HaltStates
    <3> QED
      BY <3>1, <3>2, <1>k, <1>a DEF CallAudited
  <2>3. AuditedBy(tmp'.state, events') /\ (Readable' => AuditedBy(file', events'))
    BY <1>a, <1>k
  <2> QED
    BY <1>a, <1>t, <2>1, <2>2, <2>3 DEF AuditInv
\* A process that returns.
<1>b. ASSUME NEW p \in Procs, Return(p)
      PROVE  CallAudited(p)' /\ \A q \in Procs \ {p} : pc'[q] = pc[q] /\ call'[q] = call[q]
  BY <1>b, <1>t, <1>d, NoCallFacts DEF Return, Goto, CallAudited
<1>c. ASSUME NEW p \in Procs, NEW step \in Steps, Goto(p, step), UNCHANGED call
      PROVE  /\ pc'[p] = step /\ call'[p] = call[p]
             /\ \A q \in Procs \ {p} : pc'[q] = pc[q] /\ call'[q] = call[q]
  BY <1>c, <1>t DEF Goto
<1>1. ASSUME NEW p \in Procs, Evaluate(p) PROVE AuditInv'
  <2>1. /\ pc'[p] = "read" /\ call'[p].before = DefaultState
        /\ \A q \in Procs \ {p} : pc'[q] = pc[q] /\ call'[q] = call[q]
        /\ UNCHANGED <<file, tmp, today, events>>
    BY <1>1, <1>t DEF Evaluate, Goto, NoCall
  <2> QED
    BY <1>a, <1>d, <1>t, <1>u, <2>1 DEF CallAudited, Readable
<1>2. ASSUME NEW p \in Procs, ReadUnreadable(p) PROVE AuditInv'
  BY <1>2, <1>a, <1>b, <1>t, <1>u DEF ReadUnreadable, Readable
<1>3. ASSUME NEW p \in Procs, ReadForCheck(p) PROVE AuditInv'
  <2> DEFINE before == ReadHaltState(file)
             state == UpdatedState(before, call[p].ev, today)
  <2>1. before \in HaltStates /\ Latching(before) /\ AuditedBy(before, events)
    BY <1>3, <1>t, <1>d, ReadFacts, DefaultFacts
       DEF ReadForCheck, Files, TypeInv, Readable, AuditInv
  <2>2. call[p].ev \in Evaluations
    BY <1>t DEF Calls
  <2>3. /\ state \in HaltStates
        /\ state.level < before.level => state.level = 0
        /\ state.level = before.level =>
               state.reason = before.reason /\ state.trigger_date = before.trigger_date
        /\ state.level > before.level => state.trigger_date = today
    BY <1>t, <2>1, <2>2, UpdateFacts
  <2>4. state.level \in Levels /\ before.level \in Levels /\ state.trigger_date \in Nat
    BY <2>1, <2>3 DEF HaltStates
  <2> HIDE DEF before, state
  <2>5. /\ call'[p].state = state /\ call'[p].before = call[p].before
        /\ pc'[p] = AfterRead(before.level, state)
        /\ \A q \in Procs \ {p} : pc'[q] = pc[q] /\ call'[q] = call[q]
        /\ UNCHANGED <<file, tmp, today, events>>
    BY <1>3, <1>t DEF ReadForCheck, Goto, before, state, Calls
  <2>6. state.level <= before.level => TripAudited(state, events)
    BY <2>1, <2>3, <2>4 DEF AuditedBy, TripAudited, Levels
  <2>7. /\ pc'[p] \in {"trip", "fail_closed", "open"}
        /\ pc'[p] = "trip" => state.trigger_date <= today
        /\ pc'[p] = "fail_closed" => TripAudited(state, events)
        /\ pc'[p] = "open" => AuditedBy(state, events)
    BY <2>3, <2>4, <2>5, <2>6, <1>t DEF AfterRead, AuditedBy, Levels
  <2>8. CallAudited(p)'
    BY <2>5, <2>7 DEF CallAudited, AuditInv
  <2> QED
    BY <1>a, <1>t, <1>u, <2>5, <2>8 DEF Readable
<1>4. ASSUME NEW p \in Procs, LogTrip(p) PROVE AuditInv'
  <2> DEFINE kind == TripKind[call[p].state.level]
             state == call[p].state
  <2>1. state \in HaltStates /\ state.level \in 1..3 /\ kind \in EventKinds
    BY <1>4, <1>t, TripKindFacts DEF LogTrip, TypeInv, HandsFit, HaltStates, Levels
  <2>2. Grows /\ events'[kind] = today
    BY <1>4, <1>r, <2>1 DEF LogTrip
  <2>3. TripAudited(state, events')
    BY <1>4, <2>1, <2>2 DEF LogTrip, TripAudited, CallAudited, AuditInv
  <2>4. /\ pc'[p] = IF state.fail_closed THEN "fail_closed" ELSE "open"
        /\ call'[p] = call[p]
        /\ \A q \in Procs \ {p} : pc'[q] = pc[q] /\ call'[q] = call[q]
        /\ UNCHANGED <<file, tmp, today>>
    BY <1>4, <1>t DEF LogTrip, Goto
  <2>5. CallAudited(p)'
    BY <1>k, <2>2, <2>3, <2>4 DEF CallAudited, AuditedBy
  <2> QED
    BY <1>a, <2>2, <2>4, <2>5 DEF Readable
<1>5. ASSUME NEW p \in Procs, LogFailClosed(p) PROVE AuditInv'
  <2>1. Grows /\ events'["FAIL_CLOSED"] = today
    BY <1>5, <1>r DEF LogFailClosed, EventKinds
  <2>2. /\ pc'[p] = "open" /\ pc[p] = "fail_closed" /\ call'[p] = call[p]
        /\ \A q \in Procs \ {p} : pc'[q] = pc[q] /\ call'[q] = call[q]
        /\ UNCHANGED <<file, tmp, today>>
    BY <1>5, <1>t DEF LogFailClosed, Goto
  <2>3. TripAudited(call[p].state, events')
    BY <1>k, <2>1, <2>2 DEF CallAudited, AuditInv
  <2>4. events'["FAIL_CLOSED"] # NoDate
    BY <2>1 DEF NoDate, TypeOK, TypeInv, AuditInv
  <2>5. CallAudited(p)'
    BY <1>k, <2>1, <2>2, <2>3, <2>4 DEF CallAudited, AuditedBy
  <2> QED
    BY <1>a, <2>1, <2>2, <2>5 DEF Readable
\* The write
<1>6. ASSUME NEW p \in Procs, Open(p) PROVE AuditInv'
  <2>1. tmp'.state = DefaultState
    BY <1>6, ScrapFacts DEF Open
  <2>2. /\ pc[p] = "open" /\ pc'[p] = "flush" /\ call'[p] = call[p]
        /\ \A q \in Procs \ {p} : pc'[q] = pc[q] /\ call'[q] = call[q]
        /\ UNCHANGED <<file, today, events>>
    BY <1>6, <1>t DEF Open, Goto
  <2>3. CallAudited(p)'
    BY <2>2 DEF CallAudited, AuditInv
  <2> QED
    BY <1>a, <1>d, <1>t, <1>u, <2>1, <2>2, <2>3 DEF Readable
<1>7. ASSUME NEW p \in Procs, Closes(p)
      PROVE  /\ AuditedBy(call[p].state, events)
             /\ CallAudited(p)'
             /\ \A q \in Procs \ {p} : pc'[q] = pc[q] /\ call'[q] = call[q]
             /\ UNCHANGED <<today, events>>
  <2>1. /\ pc[p] = "flush" /\ pc'[p] = "replace" /\ call'[p] = call[p]
        /\ \A q \in Procs \ {p} : pc'[q] = pc[q] /\ call'[q] = call[q]
        /\ UNCHANGED <<today, events>>
    BY <1>7, <1>t DEF Closes, Goto
  <2> QED
    BY <2>1 DEF CallAudited, AuditInv
<1>8. ASSUME NEW p \in Procs, FlushToTmp(p) PROVE AuditInv'
  <2>1. tmp'.state \in {call[p].state, DefaultState}
    BY <1>8, ScrapFacts DEF FlushToTmp, DraftOf
  <2>2. AuditedBy(tmp'.state, events)
    BY <1>7, <1>8, <1>d, <2>1 DEF FlushToTmp
  <2> QED
    BY <1>7, <1>8, <1>a, <1>t, <1>u, <2>2 DEF FlushToTmp, Readable
<1>9. ASSUME NEW p \in Procs, FlushToFile(p) PROVE AuditInv'
  <2>1. Readable' => file' = call[p].state
    BY <1>9 DEF FlushToFile, Readable
  <2> QED
    BY <1>7, <1>9, <1>a, <1>t, <1>u, <2>1 DEF FlushToFile
<1>10. ASSUME NEW p \in Procs, FlushToNowhere(p) PROVE AuditInv'
  BY <1>7, <1>10, <1>a, <1>t, <1>u DEF FlushToNowhere, Readable
<1>11. ASSUME NEW p \in Procs, ReplaceRaises(p) PROVE AuditInv'
  BY <1>11, <1>a, <1>b, <1>t, <1>u DEF ReplaceRaises, Readable
<1>p. ASSUME NEW p \in Procs, Publish(p), CallAudited(p)',
             \A q \in Procs \ {p} : pc'[q] = pc[q] /\ call'[q] = call[q]
      PROVE  AuditInv'
  <2>1. /\ Readable' => file' = tmp.state
        /\ tmp'.state = DefaultState
        /\ UNCHANGED <<today, events>>
    BY <1>p, <1>t, PublishTypes, ScrapFacts
  <2>2. AuditedBy(tmp.state, events)
    BY DEF AuditInv
  <2> QED
    BY <1>a, <1>d, <1>p, <1>t, <1>u, <2>1, <2>2
\* The state of a call is as it was when its text is moved.
<1>s. ASSUME NEW p \in Procs, Publish(p)
      PROVE  AuditedBy(call[p].before, events) /\ AuditedBy(call[p].state, events)
  BY <1>s DEF Publish, AuditInv, CallAudited
<1>12. ASSUME NEW p \in Procs, WriteVerdict(p) PROVE AuditInv'
  <2>1. CASE Return(p)
    BY <1>12, <1>b, <1>p, <2>1 DEF WriteVerdict
  <2>2. CASE Goto(p, "flatten") /\ UNCHANGED call
    <3>1. /\ pc'[p] = "flatten" /\ call'[p] = call[p] /\ events' = events
          /\ \A q \in Procs \ {p} : pc'[q] = pc[q] /\ call'[q] = call[q]
      BY <1>12, <1>c, <2>2 DEF WriteVerdict, Publish, Steps
    <3> QED
      BY <1>12, <1>p, <1>s, <3>1 DEF WriteVerdict, CallAudited
  <2> QED
    BY <1>12, <2>1, <2>2 DEF WriteVerdict
<1>13. ASSUME NEW p \in Procs, FlattenAll(p) PROVE AuditInv'
  BY <1>13, <1>a, <1>b, <1>t, <1>u DEF FlattenAll, Readable
<1>14. ASSUME NEW p \in Procs, DrillRead(p) PROVE AuditInv'
  <2>1. AuditedBy(ReadOrDefault(file), events)
    BY <1>t, <1>d, ReadFacts DEF Files, Readable, AuditInv
  <2>2. AuditedBy(DrillState(today), events)
    BY <1>t, PlainAudited
  <2>3. /\ pc'[p] = "open"
        /\ call'[p].state = DrillState(today) /\ call'[p].before = ReadOrDefault(file)
        /\ \A q \in Procs \ {p} : pc'[q] = pc[q] /\ call'[q] = call[q]
        /\ UNCHANGED <<file, tmp, today, events>>
    BY <1>14, <1>t DEF DrillRead, Goto, NoCall
  <2>4. CallAudited(p)'
    BY <2>1, <2>2, <2>3 DEF CallAudited
  <2> QED
    BY <1>a, <1>t, <1>u, <2>3, <2>4 DEF Readable
<1>15. ASSUME NEW p \in Procs, DrillForced(p) PROVE AuditInv'
  <2>1. /\ pc'[p] = "open" /\ events' = events
        /\ call'[p].state = call[p].before /\ call'[p].before = call[p].before
        /\ \A q \in Procs \ {p} : pc'[q] = pc[q] /\ call'[q] = call[q]
    BY <1>15, <1>t DEF DrillForced, Goto, Publish, Calls
  <2>2. CallAudited(p)'
    BY <1>15, <1>s, <2>1 DEF DrillForced, CallAudited
  <2> QED
    BY <1>15, <1>p, <2>1, <2>2 DEF DrillForced
<1>16. ASSUME NEW p \in Procs, DrillRestored(p) PROVE AuditInv'
  <2>1. /\ pc'[p] = "drill_row" /\ call'[p] = call[p] /\ events' = events
        /\ \A q \in Procs \ {p} : pc'[q] = pc[q] /\ call'[q] = call[q]
    BY <1>16, <1>c DEF DrillRestored, Publish, Steps
  <2> QED
    BY <1>16, <1>p, <1>s, <2>1 DEF DrillRestored, CallAudited
<1>17. ASSUME NEW p \in Procs, DrillLog(p) PROVE AuditInv'
  <2>1. Grows
    BY <1>17, <1>r DEF DrillLog, EventKinds
  <2> QED
    BY <1>a, <1>b, <1>17, <2>1 DEF DrillLog, Readable
<1>18. ASSUME NEW p \in Procs, ResetBegin(p) PROVE AuditInv'
  <2>1. /\ pc'[p] = "open" /\ events' = events
        /\ call'[p].state = DefaultState /\ call'[p].before = DefaultState
        /\ \A q \in Procs \ {p} : pc'[q] = pc[q] /\ call'[q] = call[q]
        /\ UNCHANGED <<file, tmp, today, events>>
    BY <1>18, <1>t DEF ResetBegin, Goto, NoCall
  <2>2. CallAudited(p)'
    BY <1>d, <2>1 DEF CallAudited
  <2> QED
    BY <1>a, <1>t, <1>u, <2>1, <2>2 DEF Readable
<1>19. ASSUME NEW p \in Procs, ResetWritten(p) PROVE AuditInv'
  <2>1. /\ pc'[p] = "reset_row" /\ call'[p] = call[p] /\ events' = events
        /\ \A q \in Procs \ {p} : pc'[q] = pc[q] /\ call'[q] = call[q]
    BY <1>19, <1>c DEF ResetWritten, Publish, Steps
  <2> QED
    BY <1>19, <1>p, <1>s, <2>1 DEF ResetWritten, CallAudited
<1>20. ASSUME NEW p \in Procs, ResetLog(p) PROVE AuditInv'
  <2>1. Grows
    BY <1>20, <1>r DEF ResetLog, EventKinds
  <2> QED
    BY <1>a, <1>b, <1>20, <2>1 DEF ResetLog, Readable
<1>21. ASSUME NEW p \in Procs, AskGate(p) PROVE AuditInv'
  <2>1. /\ pc'[p] = "enter" /\ call'[p].before = call[p].before
        /\ \A q \in Procs \ {p} : pc'[q] = pc[q] /\ call'[q] = call[q]
        /\ UNCHANGED <<file, tmp, today, events>>
    BY <1>21, <1>t DEF AskGate, Goto, Calls
  <2>2. CallAudited(p)'
    BY <2>1 DEF CallAudited, AuditInv
  <2> QED
    BY <1>a, <1>t, <1>u, <2>1, <2>2 DEF Readable
<1>22. ASSUME NEW p \in Procs, PlaceEntry(p) PROVE AuditInv'
  BY <1>22, <1>a, <1>b, <1>t, <1>u DEF PlaceEntry, Readable
<1>23. ASSUME NEW p \in Procs, Crash(p) PROVE AuditInv'
  BY <1>23, <1>a, <1>b, <1>t, <1>u DEF Crash, Readable
\* Steps of the environment leave the processes and the journal.
<1>24. ASSUME UNCHANGED <<pc, call, tmp, events>>, today <= today',
              Readable' => Readable /\ file' = file
       PROVE  AuditInv'
  <2>1. \A q \in Procs : CallAudited(q)'
    BY <1>24, <1>t DEF CallAudited, AuditInv, HaltStates
  <2>2. \A e \in EventKinds : events'[e] <= today'
    BY <1>24, <1>t DEF AuditInv
  <2> QED
    BY <1>24, <1>t, <2>1, <2>2 DEF AuditInv
<1>25. CASE Tick
  BY <1>24, <1>25, <1>t DEF Tick, Readable
<1>26. CASE Corrupt
  BY <1>24, <1>26, <1>t DEF Corrupt, Readable
<1>27. CASE UNCHANGED vars
  BY <1>24, <1>27, <1>t DEF vars, Readable
<1> QED
  BY <1>1, <1>2, <1>3, <1>4, <1>5, <1>6, <1>8, <1>9, <1>10, <1>11, <1>12, <1>13,
     <1>14, <1>15, <1>16, <1>17, <1>18, <1>19, <1>20, <1>21, <1>22, <1>23, <1>25,
     <1>26, <1>27
     DEF Next, ProcStep, WriteStep, CheckStep, DrillStep, ResetStep, EntryStep

\* Whatever breach or failing-closed flag the file holds is accounted for in
\* the journal, for any processes, operations, cuts and faults.
THEOREM Accounted == Spec => []AuditTrail
<1>1. AuditInv => AuditTrail
  BY DEF AuditInv, AuditTrail, Audited, AuditedBy, TripAudited
<1> QED
  BY <1>1, AuditInvInit, AuditInvStep, PTL DEF Spec
=============================================================================
