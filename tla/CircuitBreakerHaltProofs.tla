---------------------- MODULE CircuitBreakerHaltProofs ----------------------
(***************************************************************************)
(* Halts hold.  The theorems of this module assume what the code relies on *)
(* without enforcing it: one process w checks and drills, the others reset *)
(* and enter; and w drills only where nobody else resets and the file does *)
(* not turn unreadable.  Any number of operators may reset at any time, in *)
(* the middle of a write of w as well, and calls may be cut off anywhere.  *)
(* That the flatten is not lost needs more: nobody else at all, and checks *)
(* that are not cut off.                                                   *)
(***************************************************************************)
EXTENDS CircuitBreakerProofs

WriterIs(w) ==
    /\ \A p \in Procs \ {w} : Ops[p] \subseteq {"reset", "enter"}
    /\ "drill" \in Ops[w] =>
           /\ "corrupt" \notin Faults
           /\ \A p \in Procs \ {w} : "reset" \notin Ops[p]

\* A file that closes the gate whatever the date: a hard halt, or failing closed.
HardHalt(f) == f = Unreadable \/ (f # Missing /\ f.level >= 2)
Blocking(f) == HardHalt(f) \/ (f # Missing /\ f.fail_closed)

\* A state that closes the gate at least for today.
HaltsToday(state, day) == state.level >= 2 \/ (state.level = 1 /\ state.trigger_date = day)

LEMMA BlockingClosesGate ==
    ASSUME NEW f \in Files, NEW day, Blocking(f)
    PROVE  ~EntriesAllowed(f, day)
<1>1. CASE f = Unreadable
  BY <1>1, SentinelAssumption DEF EntriesAllowed, ReadHaltState
<1>2. CASE f # Unreadable
  <2>1. f \in HaltStates /\ ReadHaltState(f) = f
    BY <1>2, ReadFacts DEF Blocking, HardHalt, Files
  <2>2. f.fail_closed \/ f.level >= 2
    BY <1>2 DEF Blocking, HardHalt
  <2>3. f.level \in Levels
    BY <2>1 DEF HaltStates
  <2> QED
    BY <2>1, <2>2, <2>3 DEF EntriesAllowed, Levels
<1> QED
  BY <1>1, <1>2

LEMMA HaltTodayClosesGate ==
    ASSUME NEW f \in HaltStates, NEW day, HaltsToday(f, day)
    PROVE  ~EntriesAllowed(f, day)
<1>1. ReadHaltState(f) = f /\ f.level \in Levels
  BY ReadFacts DEF Files, HaltStates
<1> QED
  BY <1>1 DEF EntriesAllowed, HaltsToday, Levels

----------------------------------------------------------------------------
(***************************************************************************)
(* The inductive invariant.  A hard halt survives because whatever w still *)
(* holds in its hands, to write or to restore, is a hard halt too; what    *)
(* another process leaves of w's text is that text, the text of a reset,   *)
(* or nothing that can be read; and a reset clears `tripped' and asks      *)
(* nothing of w any more.                                                  *)
(***************************************************************************)

Writing(p) == pc[p] \in {"open", "flush", "replace"}

\* Process p has decided what to write and has not moved it into place.
Holding(p) == pc[p] \in {"trip", "fail_closed"} \/ Writing(p)

\* What each process may be about.
Shapes(w) ==
    /\ \A p \in Procs \ {w} :
          /\ call[p].op \in {"none", "reset", "enter"} /\ call[p].state = DefaultState
          /\ pc[p] \in {"idle", "reset_row", "enter"} \/ Writing(p)
          /\ Writing(p) => call[p].op = "reset"
          /\ call[p].op = "reset" => "reset" \in Ops[p]
    /\ pc[w] \in {"read", "trip", "fail_closed"} => call[w].op = "check"
    /\ Writing(w) => call[w].op \in {"check", "force", "restore", "reset"}
    /\ call[w].op \in {"force", "restore"} => "drill" \in Ops[w]

HandsHalt(w) ==
    /\ tripped /\ call[w].op # "reset" => HardHalt(call[w].state)
    /\ tripped /\ call[w].op = "force" => HardHalt(call[w].before)
    /\ call[w].op = "check" => call[w].state.fail_closed = call[w].ev.fail_closed
    /\ verdict.fail_closed /\ call[w].op \in {"force", "restore"} => Blocking(call[w].state)
    /\ verdict.fail_closed /\ call[w].op = "force" => Blocking(call[w].before)

\* Between w's open and its replace, the temporary file holds no older check.
DraftFits(w) ==
    pc[w] \in {"flush", "replace"} /\ tmp.text = "whole" /\ tmp.op # "reset" =>
        pc[w] = "replace" /\ tmp.state = call[w].state

\* With the temporary file to itself, w moves what it wrote.
DraftIsOwn(w) ==
    /\ pc[w] = "flush" => fd[w] = "tmp" /\ tmp.text = "empty"
    /\ pc[w] = "replace" => tmp = DraftOf(w)

GateInv(w) ==
    /\ TypeInv
    /\ Shapes(w)
    /\ tripped => HardHalt(file)
    /\ verdict.fail_closed => Blocking(file)
    /\ Holding(w) => HandsHalt(w)
    /\ DraftFits(w)
    /\ "drill" \in Ops[w] => file # Unreadable /\ DraftIsOwn(w)

LEMMA GateInvInit == ASSUME NEW w \in Procs PROVE Init => GateInv(w)
<1> SUFFICES ASSUME Init PROVE GateInv(w)
  OBVIOUS
<1>1. /\ file # Unreadable /\ ~tripped /\ ~verdict.fail_closed
      /\ \A p \in Procs : pc[p] = "idle" /\ call[p] = NoCall
  BY SentinelAssumption DEF Init, NoVerdict
<1>2. NoCall.op = "none" /\ NoCall.state = DefaultState
  BY DEF NoCall
<1> QED
  BY <1>1, <1>2, TypeInvInit DEF GateInv, Shapes, Holding, Writing, DraftFits, DraftIsOwn

\* The processes other than w reset and enter and do nothing else.
LEMMA OthersReset ==
    ASSUME NEW w \in Procs, WriterIs(w), Shapes(w),
           NEW p \in Procs, p # w, ProcStep(p)
    PROVE  WriteStep(p) \/ ResetStep(p) \/ EntryStep(p)
<1>1. /\ call[p].op \in {"none", "reset", "enter"}
      /\ pc[p] \in {"idle", "reset_row", "enter", "open", "flush", "replace"}
      /\ Ops[p] \subseteq {"reset", "enter"}
  BY DEF WriterIs, Shapes, Writing
<1>2. ~CheckStep(p)
  BY <1>1 DEF CheckStep, Begins, Evaluate, ReadUnreadable, ReadForCheck, LogTrip,
              LogFailClosed, WriteVerdict, FlattenAll
<1>3. ~DrillStep(p)
  BY <1>1 DEF DrillStep, Begins, DrillRead, DrillForced, DrillRestored, DrillLog
<1> QED
  BY <1>2, <1>3 DEF ProcStep

\* Land touches the histories only.
LEMMA LandCases ==
    ASSUME NEW p \in Procs, Land(p)
    PROVE  /\ call[p].op = "check" => LandCheck(p)
           /\ call[p].op = "reset" => LandReset
           /\ call[p].op \notin {"check", "reset"} => UNCHANGED <<tripped, verdict>>
  BY DEF Land

LEMMA ShapesStep ==
    ASSUME NEW w \in Procs, WriterIs(w), TypeInv, Shapes(w), [Next]_vars
    PROVE  Shapes(w)'
<1>t. pc \in [Procs -> Steps] /\ call \in [Procs -> Calls]
  BY DEF TypeInv, TypeOK
<1>n. NoCall.op = "none" /\ NoCall.state = DefaultState
  BY DEF NoCall
<1> USE DEF Shapes, Writing
<1>r. ASSUME NEW p \in Procs, Return(p) PROVE Shapes(w)'
  BY <1>r, <1>t, <1>n DEF Return, Goto
<1>g. ASSUME NEW p \in Procs, NEW step, Goto(p, step), UNCHANGED call,
             \/ step \in {"idle", "reset_row", "enter"}
             \/ step \in {"flush", "replace"} /\ Writing(p)
             \/ p = w /\ step \in {"flatten", "drill_row"}
      PROVE  Shapes(w)'
  BY <1>g, <1>t DEF Goto
<1>1. CASE Evaluate(w)
  <2>1. call'[w].op = "check" /\ pc'[w] = "read"
    BY <1>1, <1>t DEF Evaluate, Goto, NoCall
  <2>2. \A p \in Procs \ {w} : call'[p] = call[p] /\ pc'[p] = pc[p]
    BY <1>1, <1>t DEF Evaluate, Goto
  <2> QED
    BY <2>1, <2>2
<1>2. CASE ReadUnreadable(w)
  BY <1>2, <1>r DEF ReadUnreadable
<1>3. CASE ReadForCheck(w)
  <2>1. call'[w].op = call[w].op /\ pc'[w] \in {"trip", "fail_closed", "open"}
    BY <1>3, <1>t DEF ReadForCheck, AfterRead, Goto, Calls
  <2>2. \A p \in Procs \ {w} : call'[p] = call[p] /\ pc'[p] = pc[p]
    BY <1>3, <1>t DEF ReadForCheck, Goto
  <2> QED
    BY <1>3, <2>1, <2>2 DEF ReadForCheck
<1>4. CASE LogTrip(w)
  BY <1>4, <1>t DEF LogTrip, Goto
<1>5. CASE LogFailClosed(w)
  BY <1>5, <1>t DEF LogFailClosed, Goto
<1>6. CASE WriteVerdict(w)
  BY <1>6, <1>r, <1>g DEF WriteVerdict
<1>7. CASE FlattenAll(w)
  BY <1>7, <1>r DEF FlattenAll
<1>8. CASE DrillRead(w)
  <2>1. call'[w].op = "force" /\ pc'[w] = "open" /\ "drill" \in Ops[w]
    BY <1>8, <1>t DEF DrillRead, Goto, NoCall, Begins
  <2>2. \A p \in Procs \ {w} : call'[p] = call[p] /\ pc'[p] = pc[p]
    BY <1>8, <1>t DEF DrillRead, Goto
  <2> QED
    BY <2>1, <2>2
<1>9. CASE DrillForced(w)
  <2>1. call'[w].op = "restore" /\ pc'[w] = "open" /\ "drill" \in Ops[w]
    BY <1>9, <1>t DEF DrillForced, Goto, Calls
  <2>2. \A p \in Procs \ {w} : call'[p] = call[p] /\ pc'[p] = pc[p]
    BY <1>9, <1>t DEF DrillForced, Goto
  <2> QED
    BY <2>1, <2>2
<1>10. CASE DrillRestored(w)
  BY <1>10, <1>g DEF DrillRestored
<1>11. CASE DrillLog(w)
  BY <1>11, <1>r DEF DrillLog
<1>12. ASSUME NEW p \in Procs, WriteStep(p) PROVE Shapes(w)'
  <2>1. CASE Open(p)
    BY <1>g, <2>1 DEF Open
  <2>2. CASE Closes(p)
    BY <1>g, <2>2 DEF Closes
  <2>3. CASE ReplaceRaises(p)
    BY <1>r, <2>3 DEF ReplaceRaises
  <2> QED
    BY <1>12, <2>1, <2>2, <2>3 DEF WriteStep, FlushToTmp, FlushToFile, FlushToNowhere
<1>13. ASSUME NEW p \in Procs, ResetStep(p) PROVE Shapes(w)'
  <2>1. CASE ResetBegin(p)
    <3>1. /\ call'[p].op = "reset" /\ call'[p].state = DefaultState
          /\ pc'[p] = "open" /\ "reset" \in Ops[p]
      BY <2>1, <1>t DEF ResetBegin, Goto, NoCall, Begins
    <3>2. \A q \in Procs \ {p} : call'[q] = call[q] /\ pc'[q] = pc[q]
      BY <2>1, <1>t DEF ResetBegin, Goto
    <3> QED
      BY <3>1, <3>2
  <2>2. CASE ResetWritten(p)
    BY <1>g, <2>2 DEF ResetWritten
  <2>3. CASE ResetLog(p)
    BY <1>r, <2>3 DEF ResetLog
  <2> QED
    BY <1>13, <2>1, <2>2, <2>3 DEF ResetStep
<1>14. ASSUME NEW p \in Procs, EntryStep(p) PROVE Shapes(w)'
  <2>1. CASE AskGate(p)
    <3>1. call'[p].op = "enter" /\ call'[p].state = call[p].state /\ pc'[p] = "enter"
      BY <2>1, <1>t DEF AskGate, Goto, Calls
    <3>2. \A q \in Procs \ {p} : call'[q] = call[q] /\ pc'[q] = pc[q]
      BY <2>1, <1>t DEF AskGate, Goto
    <3> QED
      BY <3>1, <3>2
  <2>2. CASE PlaceEntry(p)
    BY <1>r, <2>2 DEF PlaceEntry
  <2> QED
    BY <1>14, <2>1, <2>2 DEF EntryStep
<1>15. ASSUME NEW p \in Procs, Crash(p) PROVE Shapes(w)'
  BY <1>15, <1>r DEF Crash
<1>16. CASE UNCHANGED <<pc, call>>
  BY <1>16
<1> QED
  BY <1>1, <1>2, <1>3, <1>4, <1>5, <1>6, <1>7, <1>8, <1>9, <1>10, <1>11, <1>12,
     <1>13, <1>14, <1>15, <1>16, OthersReset
     DEF Next, ProcStep, CheckStep, DrillStep, Tick, Corrupt, vars

LEMMA GateInvStep ==
    ASSUME NEW w \in Procs, WriterIs(w), GateInv(w), [Next]_vars
    PROVE  GateInv(w)'
<1>t. TypeInv' /\ Shapes(w)'
  BY TypeInvStep, ShapesStep DEF GateInv
<1>s. /\ TypeInv /\ Shapes(w)
      /\ pc \in [Procs -> Steps] /\ call \in [Procs -> Calls] /\ file \in Files
      /\ tmp \in Drafts /\ fd \in [Procs -> Handles] /\ today \in Nat
      /\ call[w].state \in HaltStates /\ call[w].before \in HaltStates
      /\ call[w].ev \in Evaluations /\ tmp.state \in HaltStates
      /\ \A p \in Procs : call[p].state \in HaltStates
      /\ Missing \notin HaltStates /\ Unreadable \notin HaltStates
      /\ Missing # Unreadable
  BY SentinelAssumption DEF GateInv, TypeInv, TypeOK, Calls, Drafts
<1>d. /\ DefaultState \in HaltStates
      /\ DrillState(today) \in HaltStates /\ HardHalt(DrillState(today))
  BY <1>s, DefaultFacts, DrillFacts DEF DrillState, HardHalt
<1>v. ~NoVerdict.fail_closed
  BY DEF NoVerdict
\* Where w drills nobody else writes.
<1>w. ASSUME NEW p \in Procs, p # w, call[p].op = "reset" PROVE "drill" \notin Ops[w]
  BY <1>s, <1>w DEF WriterIs, Shapes
\* Steps that leave the files and the histories and w with nothing to write.
<1>q. ASSUME UNCHANGED <<file, tmp, tripped, verdict>>, ~Holding(w)' PROVE GateInv(w)'
  BY <1>q, <1>t DEF GateInv, Holding, Writing, DraftFits, DraftIsOwn
\* Steps of other processes that leave the files and the histories.
<1>o. ASSUME NEW p \in Procs, p # w, UNCHANGED <<file, tmp, tripped, verdict>>,
             pc'[w] = pc[w], call'[w] = call[w], fd'[w] = fd[w]
      PROVE  GateInv(w)'
  BY <1>o, <1>t DEF GateInv, Holding, Writing, HandsHalt, DraftFits, DraftIsOwn, DraftOf
\* A process that returns and leaves the files and the histories.
<1>r. ASSUME NEW p \in Procs, Return(p), UNCHANGED <<file, tmp, tripped, verdict>>,
             p # w => fd'[w] = fd[w]
      PROVE  GateInv(w)'
  <2>1. CASE p = w
    <3>1. pc'[w] = "idle"
      BY <1>r, <1>s, <2>1 DEF Return, Goto
    <3> QED
      BY <1>r, <1>q, <3>1 DEF Holding, Writing
  <2>2. CASE p # w
    <3>1. pc'[w] = pc[w] /\ call'[w] = call[w]
      BY <1>r, <1>s, <2>2 DEF Return, Goto
    <3> QED
      BY <1>r, <1>o, <2>2, <3>1
  <2> QED
    BY <2>1, <2>2
<1>1. CASE Evaluate(w)
  <2>1. pc'[w] = "read"
    BY <1>1, <1>s DEF Evaluate, Goto
  <2> QED
    BY <1>1, <1>q, <2>1 DEF Evaluate, Holding, Writing
<1>2. CASE ReadUnreadable(w)
  <2>1. pc'[w] = "idle" /\ UNCHANGED <<file, tmp, tripped>> /\ file = Unreadable
    BY <1>2, <1>s DEF ReadUnreadable, Return, Goto
  <2> QED
    BY <1>t, <2>1 DEF GateInv, Holding, Writing, DraftFits, DraftIsOwn, Blocking, HardHalt
<1>3. CASE ReadForCheck(w)
  <2> DEFINE before == ReadHaltState(file)
             state == UpdatedState(before, call[w].ev, today)
  <2>1. before \in HaltStates /\ Latching(before) /\ (file # Missing => before = file)
    BY <1>3, <1>s, ReadFacts, DefaultFacts DEF ReadForCheck, Files, TypeInv, Readable
  <2>2. /\ state \in HaltStates
        /\ before.level >= 2 => state.level >= before.level
        /\ state.fail_closed = call[w].ev.fail_closed
    BY <1>s, <2>1, UpdateFacts
  <2>3. state.level \in Levels /\ before.level \in Levels
    BY <2>1, <2>2 DEF HaltStates
  <2> HIDE DEF before, state
  <2>4. /\ call'[w].state = state /\ call'[w].ev = call[w].ev /\ call'[w].op = "check"
        /\ pc'[w] \in {"trip", "fail_closed", "open"}
        /\ UNCHANGED <<file, tmp, tripped, verdict>>
    BY <1>3, <1>s DEF ReadForCheck, AfterRead, Goto, before, state, Calls, Shapes
  <2>5. tripped => HardHalt(state)
    <3> SUFFICES ASSUME tripped PROVE HardHalt(state)
      OBVIOUS
    <3>1. file # Unreadable /\ file # Missing /\ file.level >= 2
      BY <1>3 DEF ReadForCheck, HardHalt, GateInv
    <3>2. state # Missing
      BY <1>s, <2>2
    <3> QED
      BY <3>1, <3>2, <2>1, <2>2, <2>3 DEF HardHalt, Levels
  <2> QED
    BY <2>2, <2>4, <2>5, <1>t
       DEF GateInv, Holding, Writing, HandsHalt, DraftFits, DraftIsOwn
<1>4. CASE LogTrip(w) \/ LogFailClosed(w)
  <2>1. /\ pc[w] \in {"trip", "fail_closed"} /\ pc'[w] \in {"fail_closed", "open"}
        /\ UNCHANGED <<file, tmp, tripped, verdict, call>>
    BY <1>4, <1>s DEF LogTrip, LogFailClosed, Goto
  <2> QED
    BY <2>1, <1>t DEF GateInv, Holding, Writing, HandsHalt, DraftFits, DraftIsOwn
\* The writes of w
<1>5. CASE Open(w)
  <2>1. /\ pc[w] = "open" /\ pc'[w] = "flush" /\ fd'[w] = "tmp"
        /\ tmp'.text = "empty" /\ UNCHANGED <<file, tripped, verdict, call>>
    BY <1>5, <1>s, ScrapFacts DEF Open, Goto
  <2> QED
    BY <2>1, <1>t DEF GateInv, Holding, Writing, HandsHalt, DraftFits, DraftIsOwn
<1>6. ASSUME Closes(w)
      PROVE  pc[w] = "flush" /\ pc'[w] = "replace" /\ UNCHANGED call
  BY <1>6, <1>s DEF Closes, Goto
<1>7. CASE FlushToTmp(w)
  <2>1. /\ pc[w] = "flush" /\ pc'[w] = "replace" /\ fd[w] = "tmp"
        /\ UNCHANGED <<file, tripped, verdict, call>>
    BY <1>6, <1>7 DEF FlushToTmp
  <2>2. \/ tmp' = DraftOf(w)
        \/ tmp.text # "empty" /\ tmp'.text = "torn"
    BY <1>7, ScrapFacts DEF FlushToTmp
  <2>3. DraftOf(w)' = DraftOf(w) /\ DraftOf(w).state = call[w].state
    BY <2>1 DEF DraftOf
  <2> QED
    BY <2>1, <2>2, <2>3, <1>t DEF GateInv, Holding, Writing, HandsHalt, DraftFits, DraftIsOwn
<1>8. CASE FlushToFile(w)
  <2>1. /\ pc[w] = "flush" /\ pc'[w] = "replace" /\ fd[w] = "file"
        /\ UNCHANGED <<tmp, call>>
    BY <1>6, <1>8 DEF FlushToFile
  <2>2. "drill" \notin Ops[w] /\ call[w].op \in {"check", "reset"} /\ HandsHalt(w)
    BY <1>s, <2>1 DEF GateInv, DraftIsOwn, Shapes, Holding, Writing
  <2>3. ~(tmp.text = "whole" /\ tmp.op # "reset")
    BY <2>1 DEF GateInv, DraftFits
  <2>4. CASE file' = Unreadable /\ UNCHANGED <<tripped, verdict>>
    BY <2>1, <2>2, <2>3, <2>4, <1>t
       DEF GateInv, Holding, Writing, HandsHalt, DraftFits, Blocking, HardHalt
  <2>5. CASE file' = call[w].state /\ LandCheck(w) /\ call[w].op = "check"
    <3>1. file' # Missing /\ file' # Unreadable
      BY <1>s, <2>5
    <3>2. tripped' => HardHalt(file')
      BY <2>2, <2>5, <3>1 DEF LandCheck, HardHalt, HandsHalt
    <3>3. verdict'.fail_closed => Blocking(file')
      BY <2>2, <2>5, <3>1 DEF LandCheck, Blocking, HandsHalt
    <3> QED
      BY <2>1, <2>2, <2>3, <2>5, <3>2, <3>3, <1>t
         DEF GateInv, Holding, Writing, HandsHalt, DraftFits
  <2>6. CASE LandReset /\ call[w].op = "reset"
    BY <1>v, <2>1, <2>2, <2>3, <2>6, <1>t
       DEF GateInv, Holding, Writing, HandsHalt, DraftFits, LandReset
  <2> QED
    BY <1>8, <2>2, <2>4, <2>5, <2>6, LandCases DEF FlushToFile
<1>9. CASE FlushToNowhere(w)
  <2>1. /\ pc[w] = "flush" /\ pc'[w] = "replace" /\ fd[w] = "gone"
        /\ UNCHANGED <<file, tmp, tripped, verdict, call>>
    BY <1>6, <1>9 DEF FlushToNowhere
  <2> QED
    BY <2>1, <1>t DEF GateInv, Holding, Writing, HandsHalt, DraftFits, DraftIsOwn
<1>10. CASE ReplaceRaises(w)
  BY <1>10, <1>r DEF ReplaceRaises
\* What w moves into place
<1>p. ASSUME Publish(w)
      PROVE  /\ HandsHalt(w)
             /\ \/ LandReset
                \/ Land(w) /\ file' \in {call[w].state, Unreadable}
             /\ "drill" \in Ops[w] =>
                   file' = call[w].state /\ (call[w].op # "reset" => Land(w))
             /\ tmp'.text = "none"
  <2>1. pc[w] = "replace" /\ HandsHalt(w)
    BY <1>p DEF Publish, GateInv, Holding, Writing
  <2>2. tmp.op # "reset" => Land(w) /\ file' \in {call[w].state, Unreadable}
    BY <1>p, <2>1 DEF Publish, GateInv, DraftFits
  <2>3. tmp.op = "reset" => LandReset
    BY <1>p DEF Publish
  <2>4. ASSUME "drill" \in Ops[w]
        PROVE  file' = call[w].state /\ (call[w].op # "reset" => Land(w))
    <3>1. tmp.text = "whole" /\ tmp.op = call[w].op /\ tmp.state = call[w].state
      BY <2>1, <2>4 DEF GateInv, DraftIsOwn, DraftOf
    <3> QED
      BY <1>p, <3>1 DEF Publish
  <2> QED
    BY <1>p, <2>1, <2>2, <2>3, <2>4, ScrapFacts DEF Publish
<1>11. CASE WriteVerdict(w)
  <2>1. pc'[w] \in {"flatten", "idle"} /\ call[w].op = "check" /\ Publish(w)
    BY <1>11, <1>s DEF WriteVerdict, Return, Goto
  <2>2. "drill" \in Ops[w] => file' # Unreadable
    BY <1>p, <1>s, <2>1
  <2>3. tripped' => HardHalt(file')
    <3>1. CASE LandReset
      BY <3>1 DEF LandReset
    <3>2. CASE LandCheck(w) /\ file' \in {call[w].state, Unreadable}
      <4>1. file' # Missing
        BY <3>2, <1>s
      <4> QED
        BY <1>p, <2>1, <3>2, <4>1 DEF LandCheck, HandsHalt, HardHalt
    <3> QED
      BY <1>p, <2>1, <3>1, <3>2, LandCases
  <2>4. verdict'.fail_closed => Blocking(file')
    <3>1. CASE LandReset
      BY <1>v, <3>1 DEF LandReset
    <3>2. CASE LandCheck(w) /\ file' \in {call[w].state, Unreadable}
      <4>1. file' # Missing
        BY <3>2, <1>s
      <4> QED
        BY <1>p, <2>1, <3>2, <4>1 DEF LandCheck, HandsHalt, HardHalt, Blocking
    <3> QED
      BY <1>p, <2>1, <3>1, <3>2, LandCases
  <2> QED
    BY <2>1, <2>2, <2>3, <2>4, <1>t DEF GateInv, Holding, Writing, DraftFits, DraftIsOwn
<1>12. CASE FlattenAll(w)
  BY <1>12, <1>r DEF FlattenAll
<1>13. CASE DrillRead(w)
  <2>1. "drill" \in Ops[w] /\ file # Unreadable
    BY <1>13 DEF DrillRead, Begins, GateInv
  <2>2. file # Missing => ReadOrDefault(file) = file
    BY <1>s, <2>1, ReadFacts DEF Files
  <2>3. /\ call'[w].state = DrillState(today) /\ call'[w].before = ReadOrDefault(file)
        /\ call'[w].op = "force" /\ pc'[w] = "open"
        /\ UNCHANGED <<file, tmp, tripped, verdict>>
    BY <1>13, <1>s DEF DrillRead, Goto, NoCall
  <2>4. tripped => HardHalt(ReadOrDefault(file))
    BY <1>s, <2>2 DEF HardHalt, GateInv
  <2>5. verdict.fail_closed => Blocking(ReadOrDefault(file))
    BY <1>s, <2>2 DEF Blocking, HardHalt, GateInv
  <2>6. Blocking(DrillState(today))
    BY <1>d DEF Blocking
  <2>7. HandsHalt(w)'
    BY <1>d, <2>3, <2>4, <2>5, <2>6 DEF HandsHalt
  <2> QED
    BY <2>1, <2>3, <2>7, <1>t DEF GateInv, DraftFits, DraftIsOwn
<1>14. CASE DrillForced(w)
  <2>1. /\ call[w].op = "force" /\ Publish(w) /\ Writing(w)
        /\ call'[w].op = "restore" /\ call'[w].state = call[w].before
        /\ pc'[w] = "open"
    BY <1>14, <1>s DEF DrillForced, Goto, Publish, Writing, Calls
  <2>2. "drill" \in Ops[w] /\ HandsHalt(w)
    BY <1>p, <1>s, <2>1 DEF Shapes
  <2>3. /\ file' = call[w].state /\ file' # Unreadable
        /\ UNCHANGED <<tripped, verdict>>
    BY <1>p, <1>s, <2>1, <2>2, LandCases
  <2>4. HandsHalt(w)'
    BY <2>1, <2>2, <2>3 DEF HandsHalt
  <2> QED
    BY <2>1, <2>2, <2>3, <2>4, <1>t DEF GateInv, DraftFits, DraftIsOwn, HandsHalt
<1>15. CASE DrillRestored(w)
  <2>1. call[w].op = "restore" /\ Publish(w) /\ Writing(w) /\ pc'[w] = "drill_row"
    BY <1>15, <1>s DEF DrillRestored, Goto, Publish, Writing
  <2>2. "drill" \in Ops[w] /\ HandsHalt(w)
    BY <1>p, <1>s, <2>1 DEF Shapes
  <2>3. /\ file' = call[w].state /\ file' # Unreadable
        /\ UNCHANGED <<tripped, verdict>>
    BY <1>p, <1>s, <2>1, <2>2, LandCases
  <2> QED
    BY <2>1, <2>2, <2>3, <1>t DEF GateInv, Holding, Writing, DraftFits, DraftIsOwn, HandsHalt
<1>16. CASE DrillLog(w)
  BY <1>16, <1>r DEF DrillLog
\* Resets and entries, and the writes of the others
<1>17. ASSUME NEW p \in Procs, ResetBegin(p) PROVE GateInv(w)'
  <2>1. CASE p = w
    <3>1. /\ call'[w].op = "reset" /\ pc'[w] = "open"
          /\ UNCHANGED <<file, tmp, tripped, verdict>>
      BY <1>17, <1>s, <2>1 DEF ResetBegin, Goto, NoCall
    <3> QED
      BY <3>1, <1>t DEF GateInv, HandsHalt, DraftFits, DraftIsOwn
  <2>2. CASE p # w
    <3>1. pc'[w] = pc[w] /\ call'[w] = call[w] /\ fd' = fd
      BY <1>17, <1>s, <2>2 DEF ResetBegin, Goto
    <3> QED
      BY <1>17, <1>o, <2>2, <3>1 DEF ResetBegin
  <2> QED
    BY <2>1, <2>2
<1>18. CASE ResetWritten(w)
  <2>1. /\ call[w].op = "reset" /\ call'[w] = call[w] /\ Publish(w)
        /\ pc'[w] = "reset_row" /\ LandReset
    BY <1>18, <1>s, LandCases DEF ResetWritten, Goto, Publish
  <2>2. "drill" \in Ops[w] => file' # Unreadable
    BY <1>p, <1>s, <2>1
  <2> QED
    BY <1>v, <2>1, <2>2, <1>t
       DEF GateInv, Holding, Writing, DraftFits, DraftIsOwn, LandReset
<1>19. ASSUME NEW p \in Procs, p # w, ResetWritten(p) PROVE GateInv(w)'
  <2>1. /\ call[p].op = "reset" /\ pc'[w] = pc[w] /\ call'[w] = call[w]
        /\ LandReset /\ tmp'.text = "none"
    BY <1>19, <1>s, LandCases, ScrapFacts DEF ResetWritten, Goto, Publish
  <2>2. "drill" \notin Ops[w]
    BY <1>19, <1>w, <2>1
  <2> QED
    BY <1>v, <2>1, <2>2, <1>t
       DEF GateInv, Holding, Writing, HandsHalt, DraftFits, LandReset
<1>20. ASSUME NEW p \in Procs, ResetLog(p) PROVE GateInv(w)'
  BY <1>20, <1>r DEF ResetLog
<1>21. ASSUME NEW p \in Procs, AskGate(p) PROVE GateInv(w)'
  <2>1. CASE p = w
    <3>1. pc'[w] = "enter" /\ UNCHANGED <<file, tmp, tripped, verdict>>
      BY <1>21, <1>s, <2>1 DEF AskGate, Goto
    <3> QED
      BY <3>1, <1>q DEF Holding, Writing
  <2>2. CASE p # w
    <3>1. pc'[w] = pc[w] /\ call'[w] = call[w] /\ fd' = fd
      BY <1>21, <1>s, <2>2 DEF AskGate, Goto
    <3> QED
      BY <1>21, <1>o, <2>2, <3>1 DEF AskGate
  <2> QED
    BY <2>1, <2>2
<1>22. ASSUME NEW p \in Procs, PlaceEntry(p) PROVE GateInv(w)'
  BY <1>22, <1>r DEF PlaceEntry
<1>23. ASSUME NEW p \in Procs, p # w, WriteStep(p), ~ReplaceRaises(p) PROVE GateInv(w)'
  <2>1. /\ call[p].op = "reset" /\ "drill" \notin Ops[w]
        /\ pc'[w] = pc[w] /\ call'[w] = call[w] /\ fd'[w] = fd[w]
    BY <1>23, <1>w, <1>s
       DEF WriteStep, Open, FlushToTmp, FlushToFile, FlushToNowhere, Closes, Goto,
           Shapes, Writing
  <2>2. CASE Open(p) \/ FlushToTmp(p)
    <3>1. /\ ~(tmp'.text = "whole" /\ tmp'.op # "reset")
          /\ UNCHANGED <<file, tripped, verdict>>
      BY <2>1, <2>2, ScrapFacts DEF Open, FlushToTmp, DraftOf
    <3> QED
      BY <2>1, <3>1, <1>t DEF GateInv, Holding, Writing, HandsHalt, DraftFits
  <2>3. CASE FlushToFile(p)
    <3>1. \/ LandReset /\ tmp' = tmp
          \/ file' = Unreadable /\ UNCHANGED <<tmp, tripped, verdict>>
      BY <2>1, <2>3, LandCases DEF FlushToFile
    <3> QED
      BY <1>v, <2>1, <3>1, <1>t
         DEF GateInv, Holding, Writing, HandsHalt, DraftFits, LandReset, Blocking, HardHalt
  <2>4. CASE FlushToNowhere(p)
    BY <1>23, <1>o, <2>1, <2>4 DEF FlushToNowhere
  <2> QED
    BY <1>23, <2>2, <2>3, <2>4 DEF WriteStep
<1>24. ASSUME NEW p \in Procs, ReplaceRaises(p) PROVE GateInv(w)'
  BY <1>24, <1>r DEF ReplaceRaises
<1>25. CASE Tick
  BY <1>25, <1>t
     DEF Tick, GateInv, Holding, Writing, HandsHalt, DraftFits, DraftIsOwn, DraftOf
<1>26. CASE Corrupt
  <2>1. "drill" \notin Ops[w] /\ file' = Unreadable
    BY <1>26 DEF Corrupt, WriterIs
  <2> QED
    BY <1>26, <2>1, <1>t
       DEF Corrupt, GateInv, Holding, Writing, HandsHalt, DraftFits, HardHalt, Blocking
<1>27. ASSUME NEW p \in Procs, Crash(p) PROVE GateInv(w)'
  <2>1. p # w => fd'[w] = fd[w]
    BY <1>27, <1>s DEF Crash
  <2> QED
    BY <1>27, <2>1, <1>r DEF Crash
<1>28. CASE UNCHANGED vars
  BY <1>28, <1>t
     DEF vars, GateInv, Holding, Writing, HandsHalt, DraftFits, DraftIsOwn, DraftOf
\* The steps of w, of the others, and of the environment
<1>29. CASE ProcStep(w)
  BY <1>29, <1>1, <1>2, <1>3, <1>4, <1>5, <1>7, <1>8, <1>9, <1>10, <1>11, <1>12,
     <1>13, <1>14, <1>15, <1>16, <1>17, <1>18, <1>20, <1>21, <1>22
     DEF ProcStep, WriteStep, CheckStep, DrillStep, ResetStep, EntryStep
<1>30. ASSUME NEW p \in Procs, p # w, ProcStep(p) PROVE GateInv(w)'
  <2>1. WriteStep(p) \/ ResetStep(p) \/ EntryStep(p)
    BY <1>30, <1>s, OthersReset
  <2> QED
    BY <1>30, <2>1, <1>17, <1>19, <1>20, <1>21, <1>22, <1>23, <1>24
       DEF ResetStep, EntryStep
<1> QED
  BY <1>25, <1>26, <1>27, <1>28, <1>29, <1>30 DEF Next

LEMMA GateInvHolds ==
    ASSUME NEW w \in Procs, WriterIs(w)
    PROVE  Spec => []GateInv(w)
<1>1. Init => GateInv(w)
  BY GateInvInit
<1>2. GateInv(w) /\ [Next]_vars => GateInv(w)'
  BY GateInvStep
<1> QED
  BY <1>1, <1>2, PTL DEF Spec

\* A persisted hard halt keeps the gate closed until a reset.
THEOREM TripsHold ==
    ASSUME NEW w \in Procs, WriterIs(w)
    PROVE  Spec => []TripHolds
<1>1. GateInv(w) => TripHolds
  BY BlockingClosesGate DEF GateInv, TripHolds, TypeInv, TypeOK, Blocking
<1> QED
  BY <1>1, GateInvHolds, PTL

\* After a check that failed closed the gate stays closed until the next one.
THEOREM FailsClosed ==
    ASSUME NEW w \in Procs, WriterIs(w)
    PROVE  Spec => []FailClosedBlocks
<1>1. GateInv(w) => FailClosedBlocks
  BY BlockingClosesGate DEF GateInv, FailClosedBlocks, TypeInv, TypeOK
<1> QED
  BY <1>1, GateInvHolds, PTL


----------------------------------------------------------------------------
(***************************************************************************)
(* A soft halt of today outlives every later check of today.  Dates only   *)
(* go forward, so a check that has read a soft halt of today has read it   *)
(* today, and what it is about to write halts today as well; what a drill  *)
(* forces is a hard halt; and only a reset puts in place what halts less.  *)
(***************************************************************************)

\* Nothing kept anywhere is dated later than today.
Dated(w) ==
    /\ Readable => file.trigger_date <= today
    /\ tmp.state.trigger_date <= today
    /\ call[w].state.trigger_date <= today
    /\ call[w].before.trigger_date <= today

SoftHands(w) ==
    /\ call[w].op = "check" /\ Holding(w) /\ InForce /\ SoftHalted =>
           HaltsToday(call[w].state, today)
    /\ call[w].op = "force" => call[w].state.level = 2
    /\ call[w].op = "restore" /\ Holding(w) => ~SoftHalted

DayInv(w) == GateInv(w) /\ Dated(w) /\ SoftHands(w)

LEMMA DayInvInit == ASSUME NEW w \in Procs PROVE Init => DayInv(w)
<1> SUFFICES ASSUME Init PROVE DayInv(w)
  OBVIOUS
<1>1. /\ ~Readable /\ tmp.state = DefaultState /\ today = 1
      /\ pc[w] = "idle" /\ call[w] = NoCall
  BY ScrapFacts DEF Init, Readable
<1>2. NoCall.op = "none" /\ NoCall.state = DefaultState /\ NoCall.before = DefaultState
  BY DEF NoCall
<1>3. DefaultState.trigger_date = 0
  BY DEF DefaultState, NoDate
<1> QED
  BY <1>1, <1>2, <1>3, GateInvInit DEF DayInv, Dated, SoftHands, Holding, Writing

\* What the steps that write nothing keep.
LEMMA DatedStep ==
    ASSUME NEW w \in Procs, WriterIs(w), GateInv(w), Dated(w), [Next]_vars
    PROVE  Dated(w)'
<1>s. /\ TypeInv /\ Shapes(w)
      /\ pc \in [Procs -> Steps] /\ call \in [Procs -> Calls] /\ file \in Files
      /\ today \in Nat
      /\ \A p \in Procs : /\ call[p].state.trigger_date \in Nat
                         /\ call[p].before.trigger_date \in Nat
                         /\ call[p].ev \in Evaluations
      /\ tmp.state.trigger_date \in Nat
      /\ file \in HaltStates => file.trigger_date \in Nat
  BY DEF GateInv, TypeInv, TypeOK, Calls, HaltStates, Drafts
<1>d. DefaultState.trigger_date = 0 /\ NoCall.state = DefaultState /\ NoCall.before = DefaultState
  BY DEF DefaultState, NoDate, NoCall
<1>o. \A p \in Procs \ {w} : call[p].state = DefaultState
  BY <1>s DEF Shapes
<1>r. Readable => file \in HaltStates
  BY <1>s DEF Readable, Files
\* Steps that leave the files, and what w holds or nothing.
<1>f. ASSUME UNCHANGED <<file, tmp, today>>,
             \/ call'[w].state = call[w].state /\ call'[w].before = call[w].before
             \/ call'[w] = NoCall
      PROVE  Dated(w)'
  BY <1>f, <1>d, <1>s DEF Dated, Readable
<1>n. ASSUME NEW p \in Procs, Return(p)
      PROVE  \/ call'[w].state = call[w].state /\ call'[w].before = call[w].before
             \/ call'[w] = NoCall
  BY <1>n, <1>s DEF Return
<1>1. ASSUME NEW p \in Procs, Evaluate(p) PROVE Dated(w)'
  <2>1. /\ UNCHANGED <<file, tmp, today>>
        /\ \/ call'[w] = call[w]
           \/ call'[w].state = DefaultState /\ call'[w].before = DefaultState
    BY <1>1, <1>s, <1>d DEF Evaluate, NoCall
  <2> QED
    BY <2>1, <1>d, <1>s DEF Dated, Readable
<1>2. ASSUME NEW p \in Procs, ReadForCheck(p) PROVE Dated(w)'
  <2>1. CASE p # w
    BY <1>2, <1>f, <1>s, <2>1 DEF ReadForCheck
  <2>2. CASE p = w
    <3> DEFINE before == ReadHaltState(file)
               state == UpdatedState(before, call[w].ev, today)
    <3>1. before \in HaltStates /\ Latching(before) /\ before.trigger_date <= today
      BY <1>2, <1>s, <1>d, ReadFacts, DefaultFacts
         DEF ReadForCheck, Files, TypeInv, Readable, Dated
    <3>2. state.trigger_date \in {before.trigger_date, today}
      BY <1>s, <3>1, UpdateFacts
    <3> HIDE DEF before
    <3>3. call'[w].state.trigger_date <= today
      <4>1. call'[w].state = state
        BY <1>2, <1>s, <2>2 DEF ReadForCheck, before, Calls
      <4> QED
        BY <4>1, <3>1, <3>2, <1>s
    <3>4. call'[w].before = call[w].before /\ UNCHANGED <<file, tmp, today>>
      BY <1>2, <1>s, <2>2 DEF ReadForCheck, Calls
    <3> QED
      BY <3>3, <3>4 DEF Dated, Readable
  <2> QED
    BY <2>1, <2>2
<1>3. ASSUME NEW p \in Procs, LogTrip(p) \/ LogFailClosed(p) PROVE Dated(w)'
  BY <1>3, <1>f DEF LogTrip, LogFailClosed
<1>4. ASSUME NEW p \in Procs, Open(p) PROVE Dated(w)'
  <2>1. tmp'.state = DefaultState /\ UNCHANGED <<file, today, call>>
    BY <1>4, ScrapFacts DEF Open
  <2> QED
    BY <2>1, <1>d, <1>s DEF Dated, Readable
<1>5. ASSUME NEW p \in Procs, FlushToTmp(p) PROVE Dated(w)'
  <2>1. tmp'.state \in {call[p].state, DefaultState} /\ UNCHANGED <<file, today, call>>
    BY <1>5, ScrapFacts DEF FlushToTmp, Closes, DraftOf
  <2> QED
    BY <2>1, <1>d, <1>o, <1>s DEF Dated, Readable
<1>6. ASSUME NEW p \in Procs, FlushToFile(p) PROVE Dated(w)'
  <2>1. (Readable' => file' = call[p].state) /\ UNCHANGED <<tmp, today, call>>
    BY <1>6 DEF FlushToFile, Closes, Readable
  <2> QED
    BY <2>1, <1>d, <1>o, <1>s DEF Dated
<1>7. ASSUME NEW p \in Procs, FlushToNowhere(p) \/ ReplaceRaises(p) PROVE Dated(w)'
  BY <1>7, <1>f, <1>n DEF FlushToNowhere, Closes, ReplaceRaises
<1>p. ASSUME NEW p \in Procs, Publish(p),
             call'[w].state.trigger_date <= today, call'[w].before.trigger_date <= today
      PROVE  Dated(w)'
  <2>1. /\ Readable' => file' = tmp.state
        /\ tmp'.state = DefaultState /\ UNCHANGED today
    BY <1>p, <1>s, PublishTypes, ScrapFacts
  <2> QED
    BY <1>p, <2>1, <1>d, <1>s DEF Dated
<1>8. ASSUME NEW p \in Procs, WriteVerdict(p) PROVE Dated(w)'
  BY <1>8, <1>p, <1>n, <1>d, <1>s DEF WriteVerdict, Dated
<1>9. ASSUME NEW p \in Procs, FlattenAll(p) \/ ReadUnreadable(p) PROVE Dated(w)'
  BY <1>9, <1>f, <1>n DEF FlattenAll, ReadUnreadable
<1>10. ASSUME NEW p \in Procs, DrillRead(p) PROVE Dated(w)'
  <2>1. CASE p # w
    BY <1>10, <1>f, <1>s, <2>1 DEF DrillRead
  <2>2. CASE p = w
    <3>1. /\ call'[w].state = DrillState(today) /\ call'[w].before = ReadOrDefault(file)
          /\ UNCHANGED <<file, tmp, today>>
      BY <1>10, <1>s, <2>2 DEF DrillRead, NoCall
    <3>2. ReadOrDefault(file).trigger_date <= today
      BY <1>s, <1>d, ReadFacts DEF Dated, Readable, Files
    <3> QED
      BY <3>1, <3>2, <1>s DEF Dated, Readable, DrillState
  <2> QED
    BY <2>1, <2>2
<1>11. ASSUME NEW p \in Procs, DrillForced(p) PROVE Dated(w)'
  <2>1. /\ call'[w].state \in {call[w].state, call[w].before}
        /\ call'[w].before = call[w].before
    BY <1>11, <1>s DEF DrillForced, Calls
  <2> QED
    BY <1>11, <1>p, <2>1 DEF DrillForced, Dated
<1>12. ASSUME NEW p \in Procs, DrillRestored(p) \/ ResetWritten(p) PROVE Dated(w)'
  BY <1>12, <1>p DEF DrillRestored, ResetWritten, Dated
<1>13. ASSUME NEW p \in Procs, DrillLog(p) \/ ResetLog(p) PROVE Dated(w)'
  BY <1>13, <1>f, <1>n DEF DrillLog, ResetLog
<1>14. ASSUME NEW p \in Procs, ResetBegin(p) PROVE Dated(w)'
  <2>1. /\ UNCHANGED <<file, tmp, today>>
        /\ \/ call'[w] = call[w]
           \/ call'[w].state = DefaultState /\ call'[w].before = DefaultState
    BY <1>14, <1>s, <1>d DEF ResetBegin, NoCall
  <2> QED
    BY <2>1, <1>d, <1>s DEF Dated, Readable
<1>15. ASSUME NEW p \in Procs, AskGate(p) PROVE Dated(w)'
  BY <1>15, <1>f, <1>s DEF AskGate, Calls
<1>16. ASSUME NEW p \in Procs, PlaceEntry(p) \/ Crash(p) PROVE Dated(w)'
  BY <1>16, <1>f, <1>n DEF PlaceEntry, Crash
<1>17. CASE Tick
  BY <1>17, <1>r, <1>s DEF Tick, Dated, Readable
<1>18. CASE Corrupt
  BY <1>18 DEF Corrupt, Dated, Readable
<1>19. CASE UNCHANGED vars
  BY <1>19 DEF vars, Dated, Readable
<1> QED
  BY <1>1, <1>2, <1>3, <1>4, <1>5, <1>6, <1>7, <1>8, <1>9, <1>10, <1>11, <1>12,
     <1>13, <1>14, <1>15, <1>16, <1>17, <1>18, <1>19
     DEF Next, ProcStep, WriteStep, CheckStep, DrillStep, ResetStep, EntryStep

LEMMA SoftHandsStep ==
    ASSUME NEW w \in Procs, WriterIs(w), DayInv(w), [Next]_vars
    PROVE  SoftHands(w)'
<1>s. /\ TypeInv /\ Shapes(w) /\ GateInv(w) /\ Dated(w) /\ SoftHands(w)
      /\ pc \in [Procs -> Steps] /\ call \in [Procs -> Calls] /\ file \in Files
      /\ today \in Nat /\ call[w].state \in HaltStates
      /\ file \in HaltStates => file.trigger_date \in Nat
      /\ Missing \notin HaltStates /\ Unreadable \notin HaltStates
  BY SentinelAssumption DEF DayInv, GateInv, TypeInv, TypeOK, Calls, HaltStates
<1>r. Readable => file \in HaltStates
  BY <1>s DEF Readable, Files
<1>n. NoCall.op = "none"
  BY DEF NoCall
\* The steps of w after which it has nothing of a check or a drill to write.
<1>i. ASSUME call'[w].op \notin {"check", "force", "restore"} PROVE SoftHands(w)'
  BY <1>i DEF SoftHands
\* The steps that keep what SoftHands speaks of, or clear it.
<1>k. ASSUME UNCHANGED today, call'[w] = call[w], pc'[w] = pc[w],
             \/ UNCHANGED <<file, verdict>>
             \/ ~SoftHalted'
             \/ ~InForce' /\ call[w].op # "restore"
      PROVE  SoftHands(w)'
  BY <1>k, <1>s DEF SoftHands, SoftHalted, InForce, Readable, Holding, Writing
\* w goes on writing.
<1>g. ASSUME Holding(w), UNCHANGED <<file, verdict, today>>, call'[w] = call[w]
      PROVE  SoftHands(w)'
  BY <1>g, <1>s DEF SoftHands, SoftHalted, InForce, Readable
<1>u. ~Readable' => ~SoftHalted'
  BY DEF SoftHalted
<1>v. LandReset => ~InForce'
  BY DEF LandReset, InForce
<1>1. CASE Evaluate(w)
  <2>1. pc'[w] = "read" /\ call'[w].op = "check"
    BY <1>1, <1>s DEF Evaluate, Goto, NoCall
  <2> QED
    BY <2>1 DEF SoftHands, Holding, Writing
<1>3. CASE ReadForCheck(w)
  <2> DEFINE before == ReadHaltState(file)
             state == UpdatedState(before, call[w].ev, today)
  <2>1. before \in HaltStates /\ Latching(before) /\ (file # Missing => before = file)
    BY <1>3, <1>s, ReadFacts, DefaultFacts DEF ReadForCheck, Files, TypeInv, Readable
  <2>2. /\ state \in HaltStates
        /\ before.level = 1 /\ before.trigger_date = today => state.level >= 1
        /\ state.level = before.level => state.trigger_date = before.trigger_date
        /\ state.level > before.level => state.trigger_date = today
    BY <1>s, <2>1, UpdateFacts DEF Calls
  <2>3. state.level \in Levels
    BY <2>2 DEF HaltStates
  <2> HIDE DEF before, state
  <2>4. SoftHalted => HaltsToday(state, today)
    <3> SUFFICES ASSUME SoftHalted PROVE HaltsToday(state, today)
      OBVIOUS
    <3>1. before.level = 1 /\ before.trigger_date = today
      BY <2>1 DEF SoftHalted, Readable
    <3> QED
      BY <2>2, <2>3, <3>1 DEF HaltsToday, Levels
  <2>5. /\ call'[w].state = state /\ call'[w].op = "check"
        /\ UNCHANGED <<file, verdict, today>>
    BY <1>3, <1>s DEF ReadForCheck, state, before, Calls, Shapes
  <2> QED
    BY <2>4, <2>5 DEF SoftHands, SoftHalted, Readable
<1>4. CASE LogTrip(w) \/ LogFailClosed(w)
  BY <1>4, <1>g DEF LogTrip, LogFailClosed, Holding
\* The writes of w
<1>5. CASE Open(w) \/ FlushToTmp(w) \/ FlushToNowhere(w)
  BY <1>5, <1>g DEF Open, FlushToTmp, FlushToNowhere, Closes, Holding, Writing
<1>6. CASE FlushToFile(w)
  <2>1. /\ pc[w] = "flush" /\ call' = call /\ today' = today
        /\ fd[w] = "file"
    BY <1>6 DEF FlushToFile, Closes
  <2>2. call[w].op \in {"check", "reset"}
    BY <1>s, <2>1 DEF GateInv, DraftIsOwn, Shapes, Writing
  <2>3. CASE call[w].op = "reset"
    BY <1>i, <2>1, <2>3
  <2>4. CASE call[w].op = "check"
    <3>1. CASE file' = Unreadable
      BY <2>1, <2>4, <3>1 DEF SoftHands, SoftHalted, Readable
    <3>2. CASE file' = call[w].state
      <4>1. SoftHalted' => HaltsToday(call'[w].state, today')
        BY <2>1, <3>2 DEF SoftHalted, HaltsToday
      <4> QED
        BY <2>1, <2>4, <4>1 DEF SoftHands
    <3> QED
      BY <1>6, <3>1, <3>2 DEF FlushToFile
  <2> QED
    BY <2>2, <2>3, <2>4
<1>7. CASE WriteVerdict(w)
  <2>1. pc'[w] \in {"flatten", "idle"} /\ call'[w].op \in {"check", "none"}
    BY <1>7, <1>s, <1>n DEF WriteVerdict, Return, Goto
  <2> QED
    BY <2>1 DEF SoftHands, Holding, Writing
<1>8. CASE DrillRead(w)
  <2>1. call'[w].op = "force" /\ call'[w].state.level = 2
    BY <1>8, <1>s DEF DrillRead, NoCall, DrillState
  <2> QED
    BY <2>1 DEF SoftHands
<1>9. CASE DrillForced(w)
  <2>1. /\ pc[w] = "replace" /\ call[w].op = "force" /\ "drill" \in Ops[w]
        /\ call'[w].op = "restore" /\ Publish(w)
    BY <1>9, <1>s DEF DrillForced, Publish, Shapes, Calls
  <2>2. tmp.text = "whole" /\ tmp.state = call[w].state
    BY <1>s, <2>1 DEF GateInv, DraftIsOwn, DraftOf
  <2>3. file'.level = 2
    BY <1>s, <2>1, <2>2 DEF Publish, SoftHands
  <2> QED
    BY <2>1, <2>3 DEF SoftHands, SoftHalted
<1>10. CASE DrillRestored(w)
  <2>1. pc'[w] = "drill_row" /\ call'[w].op = "restore"
    BY <1>10, <1>s DEF DrillRestored, Goto, Publish
  <2> QED
    BY <2>1 DEF SoftHands, Holding, Writing
\* A process that returns, having written nothing.
<1>11. ASSUME NEW p \in Procs, Return(p), UNCHANGED <<file, today>>,
              p # w => UNCHANGED verdict
       PROVE  SoftHands(w)'
  <2>1. CASE p = w
    BY <1>11, <1>i, <1>n, <1>s, <2>1 DEF Return
  <2>2. CASE p # w
    <3>1. call'[w] = call[w] /\ pc'[w] = pc[w]
      BY <1>11, <1>s, <2>2 DEF Return, Goto
    <3> QED
      BY <1>11, <1>k, <2>2, <3>1
  <2> QED
    BY <2>1, <2>2
<1>12. CASE ReadUnreadable(w) \/ FlattenAll(w) \/ DrillLog(w)
  BY <1>11, <1>12 DEF ReadUnreadable, FlattenAll, DrillLog
<1>13. ASSUME NEW p \in Procs,
              ReplaceRaises(p) \/ ResetLog(p) \/ PlaceEntry(p) \/ Crash(p)
       PROVE  SoftHands(w)'
  BY <1>11, <1>13 DEF ReplaceRaises, ResetLog, PlaceEntry, Crash
\* Resets and entries, and the writes of the others
<1>14. CASE ResetBegin(w) \/ AskGate(w)
  <2>1. call'[w].op \in {"reset", "enter"}
    BY <1>14, <1>s DEF ResetBegin, AskGate, NoCall, Calls
  <2> QED
    BY <1>i, <2>1
<1>15. ASSUME NEW p \in Procs, p # w, ResetBegin(p) \/ AskGate(p) PROVE SoftHands(w)'
  <2>1. /\ pc'[w] = pc[w] /\ call'[w] = call[w]
        /\ UNCHANGED <<file, verdict, today>>
    BY <1>15, <1>s DEF ResetBegin, AskGate, Goto
  <2> QED
    BY <1>k, <2>1
<1>16. CASE ResetWritten(w)
  BY <1>16, <1>i DEF ResetWritten
<1>17. ASSUME NEW p \in Procs, p # w, call[p].op = "reset" PROVE call[w].op # "restore"
  BY <1>17, <1>s DEF WriterIs, Shapes
<1>18. ASSUME NEW p \in Procs, p # w, ResetWritten(p) PROVE SoftHands(w)'
  <2>1. /\ call[p].op = "reset" /\ pc'[w] = pc[w] /\ call'[w] = call[w]
        /\ LandReset /\ UNCHANGED today
    BY <1>18, <1>s, LandCases DEF ResetWritten, Goto, Publish
  <2> QED
    BY <1>17, <1>18, <1>k, <1>v, <2>1
<1>19. ASSUME NEW p \in Procs, p # w, WriteStep(p), ~ReplaceRaises(p) PROVE SoftHands(w)'
  <2>1. /\ call[p].op = "reset" /\ UNCHANGED today
        /\ pc'[w] = pc[w] /\ call'[w] = call[w]
    BY <1>19, <1>s
       DEF WriteStep, Open, FlushToTmp, FlushToFile, FlushToNowhere, Closes, Goto,
           Shapes, Writing
  <2>2. CASE FlushToFile(p)
    <3>1. LandReset \/ file' = Unreadable
      BY <2>1, <2>2, LandCases DEF FlushToFile
    <3> QED
      BY <1>17, <1>19, <1>k, <1>v, <2>1, <3>1 DEF SoftHalted, Readable
  <2>3. CASE Open(p) \/ FlushToTmp(p) \/ FlushToNowhere(p)
    BY <1>k, <2>1, <2>3 DEF Open, FlushToTmp, FlushToNowhere
  <2> QED
    BY <1>19, <2>2, <2>3 DEF WriteStep
<1>20. CASE Tick
  <2>1. today' = today + 1 /\ UNCHANGED <<file, call>>
    BY <1>20 DEF Tick
  <2>2. ~SoftHalted'
    BY <1>r, <1>s, <2>1 DEF SoftHalted, Readable, Dated
  <2> QED
    BY <1>s, <2>1, <2>2 DEF SoftHands
<1>21. CASE Corrupt
  BY <1>k, <1>21 DEF Corrupt, SoftHalted, Readable
<1>22. CASE UNCHANGED vars
  BY <1>k, <1>22 DEF vars
\* The steps of w, of the others, and of the environment
<1>23. CASE ProcStep(w)
  BY <1>23, <1>1, <1>3, <1>4, <1>5, <1>6, <1>7, <1>8, <1>9, <1>10, <1>12, <1>13,
     <1>14, <1>16
     DEF ProcStep, WriteStep, CheckStep, DrillStep, ResetStep, EntryStep
<1>24. ASSUME NEW p \in Procs, p # w, ProcStep(p) PROVE SoftHands(w)'
  <2>1. WriteStep(p) \/ ResetStep(p) \/ EntryStep(p)
    BY <1>24, <1>s, OthersReset
  <2> QED
    BY <1>24, <2>1, <1>13, <1>15, <1>18, <1>19 DEF ResetStep, EntryStep
<1> QED
  BY <1>13, <1>20, <1>21, <1>22, <1>23, <1>24 DEF Next

LEMMA DayInvHolds ==
    ASSUME NEW w \in Procs, WriterIs(w)
    PROVE  Spec => []DayInv(w)
<1>1. Init => DayInv(w)
  BY DayInvInit
<1>2. DayInv(w) /\ [Next]_vars => DayInv(w)'
  BY GateInvStep, DatedStep, SoftHandsStep DEF DayInv
<1> QED
  BY <1>1, <1>2, PTL DEF Spec

\* What replaces a soft halt of today is no weaker, unless a reset put it there.
LEMMA SoftHaltStep ==
    ASSUME NEW w \in Procs, WriterIs(w), DayInv(w), [Next]_vars,
           SoftHalted, InForce, today' = today, InForce'
    PROVE  ~EntriesAllowed(file, today)'
<1>s. /\ TypeInv /\ TypeInv' /\ Shapes(w) /\ GateInv(w) /\ SoftHands(w)
      /\ pc \in [Procs -> Steps] /\ call \in [Procs -> Calls]
      /\ file \in HaltStates /\ file' \in Files /\ call[w].state \in HaltStates
  BY TypeInvStep DEF DayInv, GateInv, TypeInv, TypeOK, Calls, SoftHalted, Readable, Files
<1>v. ~LandReset
  BY DEF LandReset, InForce
\* The file as it was, unreadable, or what w held
<1>1. ASSUME UNCHANGED file PROVE ~EntriesAllowed(file, today)'
  <2>1. HaltsToday(file', today')
    BY <1>1 DEF SoftHalted, HaltsToday
  <2> QED
    BY <1>1, <1>s, <2>1, HaltTodayClosesGate
<1>2. ASSUME file' = Unreadable PROVE ~EntriesAllowed(file, today)'
  BY <1>2, <1>s, BlockingClosesGate DEF Blocking, HardHalt
<1>3. ASSUME file' = call[w].state, HaltsToday(call[w].state, today)
      PROVE  ~EntriesAllowed(file, today)'
  BY <1>3, <1>s, HaltTodayClosesGate
<1>4. ASSUME Holding(w), file' = call[w].state, call[w].op \notin {"none", "reset"}
      PROVE  ~EntriesAllowed(file, today)'
  <2>1. call[w].op \in {"check", "force"}
    BY <1>4, <1>s DEF Shapes, Holding, SoftHands
  <2>2. HaltsToday(call[w].state, today)
    BY <1>4, <1>s, <2>1 DEF SoftHands, HaltsToday
  <2> QED
    BY <1>3, <1>4, <2>2
<1>5. ASSUME NEW p \in Procs, Publish(p) PROVE ~EntriesAllowed(file, today)'
  <2>1. tmp.op # "reset" /\ Land(p) /\ pc[p] = "replace"
    BY <1>5, <1>v DEF Publish
  <2>2. call[p].op # "reset"
    BY <1>v, <2>1, LandCases
  <2>3. p = w
    BY <1>s, <2>1, <2>2 DEF Shapes, Writing
  <2>4. CASE tmp.text = "whole"
    <3>1. file' = call[w].state
      BY <1>5, <1>s, <2>1, <2>3, <2>4 DEF Publish, GateInv, DraftFits
    <3> QED
      BY <1>4, <1>s, <2>1, <2>2, <2>3, <3>1 DEF Shapes, Holding, Writing
  <2>5. CASE tmp.text # "whole"
    BY <1>2, <1>5, <2>5 DEF Publish
  <2> QED
    BY <2>4, <2>5
<1>6. ASSUME NEW p \in Procs, FlushToFile(p) PROVE ~EntriesAllowed(file, today)'
  <2>1. CASE file' = Unreadable
    BY <1>2, <2>1
  <2>2. CASE file' = call[p].state /\ Land(p)
    <3>1. pc[p] = "flush" /\ call[p].op # "reset"
      BY <1>6, <1>v, <2>2, LandCases DEF FlushToFile, Closes
    <3>2. p = w
      BY <1>s, <3>1 DEF Shapes, Writing
    <3> QED
      BY <1>4, <1>s, <2>2, <3>1, <3>2 DEF Shapes, Holding, Writing
  <2> QED
    BY <1>6, <2>1, <2>2 DEF FlushToFile
<1>7. ASSUME NEW p \in Procs, ProcStep(p) PROVE ~EntriesAllowed(file, today)'
  <2>1. \/ UNCHANGED file \/ FlushToFile(p) \/ Publish(p)
    BY <1>7
       DEF ProcStep, WriteStep, CheckStep, DrillStep, ResetStep, EntryStep,
           Open, FlushToTmp, FlushToNowhere, ReplaceRaises, Evaluate, ReadUnreadable,
           ReadForCheck, LogTrip, LogFailClosed, WriteVerdict, FlattenAll, DrillRead,
           DrillForced, DrillRestored, DrillLog, ResetBegin, ResetWritten, ResetLog,
           AskGate, PlaceEntry
  <2> QED
    BY <1>1, <1>5, <1>6, <2>1
<1> QED
  BY <1>1, <1>2, <1>7 DEF Next, Tick, Corrupt, Crash, vars

\* A soft halt of today that a check put in force keeps the gate closed for the
\* rest of the day, whatever else is called, until a reset.
THEOREM SoftHaltsLast ==
    ASSUME NEW w \in Procs, WriterIs(w)
    PROVE  Spec => SoftHaltLastsTheDay
<1>1. DayInv(w) /\ [Next]_vars
          => [SoftHalted /\ InForce /\ today' = today /\ InForce'
                => ~EntriesAllowed(file, today)']_vars
  BY SoftHaltStep
<1> QED
  BY <1>1, DayInvHolds, PTL DEF Spec, SoftHaltLastsTheDay

----------------------------------------------------------------------------
(***************************************************************************)
(* The flatten.  With nobody else at the file and checks that run to their *)
(* end, level 3 comes into force and flatten_all is called with no step of *)
(* the file between.  Later checks that find the level in place, a drill   *)
(* that puts it back, and the gate before an entry all find, or leave,     *)
(* nothing exposed.  The file may turn unreadable at any time, and drills, *)
(* resets and entries may be cut off.                                      *)
(***************************************************************************)

Alone(w) ==
    /\ \A p \in Procs \ {w} : Ops[p] = {}
    /\ "check" \notin Cuts

OthersIdle(w) == \A p \in Procs \ {w} : pc[p] = "idle" /\ call[p].op = "none"

AloneShapes(w) ==
    /\ pc[w] \in {"read", "trip", "fail_closed", "flatten"} => call[w].op = "check"
    /\ Writing(w) => call[w].op \in {"check", "force", "restore", "reset"}
    /\ call[w].op = "reset" => call[w].state = DefaultState

HandsFlatten(w) ==
    /\ call[w].op = "check" /\ Holding(w) /\ call[w].old = 3 => ~exposed
    /\ call[w].op = "force" =>
           pc[w] # "enter" /\ call[w].state.level = 2 /\ (call[w].before.level = 3 => ~exposed)
    /\ call[w].op = "restore" =>
           pc[w] # "enter" /\ (call[w].state.level = 3 => ~exposed)

FlattenInv(w) ==
    /\ TypeInv
    /\ OthersIdle(w)
    /\ AloneShapes(w)
    /\ DraftIsOwn(w)
    /\ HandsFlatten(w)
    /\ AtFlattenLevel /\ exposed => pc[w] = "flatten"
    /\ pc[w] = "enter" => ~AtFlattenLevel /\ call[w].op = "enter"

LEMMA FlattenInvInit == ASSUME NEW w \in Procs PROVE Init => FlattenInv(w)
<1> SUFFICES ASSUME Init PROVE FlattenInv(w)
  OBVIOUS
<1>1. ~Readable /\ \A p \in Procs : pc[p] = "idle" /\ call[p] = NoCall
  BY DEF Init, Readable
<1>2. NoCall.op = "none"
  BY DEF NoCall
<1> QED
  BY <1>1, <1>2, TypeInvInit
     DEF FlattenInv, OthersIdle, AloneShapes, DraftIsOwn, HandsFlatten, AtFlattenLevel,
         Holding, Writing

LEMMA FlattenInvStep ==
    ASSUME NEW w \in Procs, Alone(w), FlattenInv(w), [Next]_vars
    PROVE  FlattenInv(w)'
<1>t. TypeInv'
  BY TypeInvStep DEF FlattenInv
<1>s. /\ TypeInv /\ OthersIdle(w) /\ AloneShapes(w) /\ DraftIsOwn(w) /\ HandsFlatten(w)
      /\ pc \in [Procs -> Steps] /\ call \in [Procs -> Calls] /\ file \in Files
      /\ call[w].state \in HaltStates /\ call[w].old \in Levels
      /\ fd \in [Procs -> Handles]
  BY DEF FlattenInv, TypeInv, TypeOK, Calls
<1>n. NoCall.op = "none" /\ "none" \notin Cuts
  BY ParameterAssumption DEF NoCall, Operations
\* Only w does anything.
<1>o. ASSUME NEW p \in Procs, ProcStep(p) \/ Crash(p) PROVE p = w
  <2> SUFFICES ASSUME p # w PROVE FALSE
    OBVIOUS
  <2>1. pc[p] = "idle" /\ call[p].op = "none" /\ Ops[p] = {}
    BY <1>s DEF OthersIdle, Alone
  <2> QED
    BY <1>n, <1>o, <2>1
       DEF ProcStep, WriteStep, CheckStep, DrillStep, ResetStep, EntryStep, Crash,
           Open, FlushToTmp, FlushToFile, FlushToNowhere, Closes, ReplaceRaises, Evaluate,
           ReadUnreadable, ReadForCheck, LogTrip, LogFailClosed, WriteVerdict, FlattenAll,
           DrillRead, DrillForced, DrillRestored, DrillLog, ResetBegin, ResetWritten,
           ResetLog, AskGate, PlaceEntry, Begins, Publish
<1>i. ASSUME \A q \in Procs \ {w} : pc'[q] = pc[q] /\ call'[q] = call[q]
      PROVE  OthersIdle(w)'
  BY <1>i, <1>s DEF OthersIdle
\* w returns from anything but the flatten with the file as it was.
<1>r. ASSUME Return(w), UNCHANGED file, pc[w] # "flatten", exposed' => exposed \/ ~AtFlattenLevel
      PROVE  FlattenInv(w)'
  <2>1. pc'[w] = "idle" /\ call'[w].op = "none"
    BY <1>r, <1>n, <1>s DEF Return, Goto
  <2>2. OthersIdle(w)'
    BY <1>r, <1>i, <1>s DEF Return, Goto
  <2> QED
    BY <1>r, <1>t, <2>1, <2>2
       DEF FlattenInv, AloneShapes, DraftIsOwn, HandsFlatten, AtFlattenLevel, Readable,
           Holding, Writing
<1>1. CASE Evaluate(w)
  <2>1. /\ pc'[w] = "read" /\ call'[w].op = "check" /\ pc[w] = "idle"
        /\ UNCHANGED <<file, exposed>>
    BY <1>1, <1>s DEF Evaluate, Begins, Goto, NoCall
  <2>2. OthersIdle(w)'
    BY <1>1, <1>i, <1>s DEF Evaluate, Goto
  <2> QED
    BY <1>t, <2>1, <2>2
       DEF FlattenInv, AloneShapes, DraftIsOwn, HandsFlatten, AtFlattenLevel, Readable,
           Holding, Writing
<1>2. CASE ReadUnreadable(w) \/ ReplaceRaises(w) \/ DrillLog(w) \/ ResetLog(w) \/ PlaceEntry(w)
  BY <1>2, <1>r
     DEF ReadUnreadable, ReplaceRaises, DrillLog, ResetLog, PlaceEntry, FlattenInv
<1>3. CASE ReadForCheck(w)
  <2>1. /\ pc[w] = "read" /\ pc'[w] \in {"trip", "fail_closed", "open"}
        /\ call'[w].op = "check" /\ call'[w].old = ReadHaltState(file).level
        /\ UNCHANGED <<file, exposed>> /\ file # Unreadable
    BY <1>3, <1>s DEF ReadForCheck, AfterRead, Goto, AloneShapes, Calls
  <2>2. OthersIdle(w)'
    BY <1>3, <1>i, <1>s DEF ReadForCheck, Goto
  <2>3. call'[w].old = 3 => AtFlattenLevel
    BY <2>1 DEF ReadHaltState, DefaultState, AtFlattenLevel, Readable
  <2> QED
    BY <1>t, <2>1, <2>2, <2>3
       DEF FlattenInv, AloneShapes, DraftIsOwn, HandsFlatten, AtFlattenLevel, Readable
\* Steps of a call that writes nothing yet.
<1>4. ASSUME pc[w] \in {"trip", "fail_closed", "open", "flush"},
             pc'[w] \in {"fail_closed", "open", "flush", "replace"},
             pc[w] \in {"open", "flush"} => pc'[w] \in {"flush", "replace"},
             UNCHANGED <<file, exposed, call>>,
             OthersIdle(w)', DraftIsOwn(w)'
      PROVE  FlattenInv(w)'
  BY <1>4, <1>t
     DEF FlattenInv, AloneShapes, HandsFlatten, AtFlattenLevel, Readable, Holding, Writing
<1>5. CASE LogTrip(w) \/ LogFailClosed(w)
  <2>1. /\ pc[w] \in {"trip", "fail_closed"} /\ pc'[w] \in {"fail_closed", "open"}
        /\ UNCHANGED <<file, exposed, call>>
    BY <1>5, <1>s DEF LogTrip, LogFailClosed, Goto
  <2>2. OthersIdle(w)'
    BY <1>5, <1>i, <1>s DEF LogTrip, LogFailClosed, Goto
  <2> QED
    BY <1>4, <2>1, <2>2 DEF DraftIsOwn
<1>6. CASE Open(w)
  <2>1. /\ pc[w] = "open" /\ pc'[w] = "flush" /\ fd'[w] = "tmp" /\ tmp'.text = "empty"
        /\ UNCHANGED <<file, exposed, call>>
    BY <1>6, <1>s, ScrapFacts DEF Open, Goto
  <2>2. OthersIdle(w)'
    BY <1>6, <1>i, <1>s DEF Open, Goto
  <2> QED
    BY <1>4, <2>1, <2>2 DEF DraftIsOwn
<1>7. CASE FlushToTmp(w) \/ FlushToFile(w) \/ FlushToNowhere(w)
  <2>1. Closes(w)
    BY <1>7 DEF FlushToTmp, FlushToFile, FlushToNowhere
  <2>2. pc[w] = "flush" /\ pc'[w] = "replace" /\ UNCHANGED <<exposed, call>>
    BY <2>1, <1>s DEF Closes, Goto
  <2>3. fd[w] = "tmp" /\ tmp.text = "empty"
    BY <1>s, <2>2 DEF DraftIsOwn
  <2>4. file' = file /\ tmp' = DraftOf(w)
    BY <1>7, <2>3 DEF FlushToTmp, FlushToFile, FlushToNowhere
  <2>5. DraftIsOwn(w)'
    BY <2>2, <2>4 DEF DraftIsOwn, DraftOf
  <2>6. OthersIdle(w)'
    BY <1>i, <1>s, <2>1 DEF Closes, Goto
  <2> QED
    BY <1>4, <2>2, <2>4, <2>5, <2>6
\* What w moves into place is its own.
<1>p. ASSUME Publish(w)
      PROVE  pc[w] = "replace" /\ file' = call[w].state /\ UNCHANGED exposed
  <2>1. pc[w] = "replace" /\ UNCHANGED exposed
    BY <1>p DEF Publish
  <2>2. tmp.text = "whole" /\ tmp.state = call[w].state
    BY <1>s, <2>1 DEF DraftIsOwn, DraftOf
  <2> QED
    BY <1>p, <2>1, <2>2 DEF Publish
<1>8. CASE WriteVerdict(w)
  <2>1. /\ call[w].op = "check" /\ Publish(w)
        /\ OthersIdle(w)'
    BY <1>8, <1>i, <1>s DEF WriteVerdict, Return, Goto
  <2>2. CASE MustFlatten(call[w].old, call[w].state)
    <3>1. pc'[w] = "flatten" /\ call'[w].op = "check"
      BY <1>8, <1>s, <2>1, <2>2 DEF WriteVerdict, Goto
    <3> QED
      BY <1>t, <2>1, <3>1
         DEF FlattenInv, AloneShapes, DraftIsOwn, HandsFlatten, Holding, Writing
  <2>3. CASE ~MustFlatten(call[w].old, call[w].state)
    <3>1. pc'[w] = "idle" /\ call'[w].op = "none"
      BY <1>8, <1>n, <1>s, <2>3 DEF WriteVerdict, Return, Goto
    <3>2. call[w].state.level = 3 => call[w].old = 3
      BY <1>s, <2>3 DEF MustFlatten, Levels
    <3>3. ~(AtFlattenLevel' /\ exposed')
      BY <1>p, <1>s, <2>1, <3>2 DEF AtFlattenLevel, HandsFlatten, Holding, Writing
    <3> QED
      BY <1>t, <2>1, <3>1, <3>3
         DEF FlattenInv, AloneShapes, DraftIsOwn, HandsFlatten, Holding, Writing
  <2> QED
    BY <2>2, <2>3
<1>9. CASE FlattenAll(w)
  <2>1. pc'[w] = "idle" /\ call'[w].op = "none" /\ ~exposed'
    BY <1>9, <1>n, <1>s DEF FlattenAll, Return, Goto
  <2>2. OthersIdle(w)'
    BY <1>9, <1>i, <1>s DEF FlattenAll, Return, Goto
  <2> QED
    BY <1>t, <2>1, <2>2
       DEF FlattenInv, AloneShapes, DraftIsOwn, HandsFlatten, Holding, Writing
<1>10. CASE DrillRead(w)
  <2>1. /\ pc[w] = "idle" /\ pc'[w] = "open" /\ call'[w].op = "force"
        /\ call'[w].state.level = 2 /\ call'[w].before = ReadOrDefault(file)
        /\ UNCHANGED <<file, exposed>>
    BY <1>10, <1>s DEF DrillRead, Begins, Goto, NoCall, DrillState
  <2>2. OthersIdle(w)'
    BY <1>10, <1>i, <1>s DEF DrillRead, Goto
  <2>3. ReadOrDefault(file).level = 3 => AtFlattenLevel
    BY DEF ReadOrDefault, ReadHaltState, DefaultState, AtFlattenLevel, Readable
  <2> QED
    BY <1>t, <2>1, <2>2, <2>3
       DEF FlattenInv, AloneShapes, DraftIsOwn, HandsFlatten, AtFlattenLevel, Readable
<1>11. CASE DrillForced(w)
  <2>1. /\ call[w].op = "force" /\ Publish(w)
        /\ pc'[w] = "open" /\ call'[w].op = "restore" /\ call'[w].state = call[w].before
    BY <1>11, <1>s DEF DrillForced, Goto, Calls
  <2>2. OthersIdle(w)'
    BY <1>11, <1>i, <1>s DEF DrillForced, Goto
  <2>3. ~AtFlattenLevel' /\ (call'[w].state.level = 3 => ~exposed')
    BY <1>p, <1>s, <2>1 DEF AtFlattenLevel, HandsFlatten
  <2> QED
    BY <1>t, <2>1, <2>2, <2>3 DEF FlattenInv, AloneShapes, DraftIsOwn, HandsFlatten
<1>12. CASE DrillRestored(w)
  <2>1. /\ call[w].op = "restore" /\ Publish(w)
        /\ pc'[w] = "drill_row" /\ call' = call
    BY <1>12, <1>s DEF DrillRestored, Goto
  <2>2. OthersIdle(w)'
    BY <1>12, <1>i, <1>s DEF DrillRestored, Goto
  <2>3. ~(AtFlattenLevel' /\ exposed')
    BY <1>p, <1>s, <2>1 DEF AtFlattenLevel, HandsFlatten
  <2> QED
    BY <1>p, <1>t, <2>1, <2>2, <2>3
       DEF FlattenInv, AloneShapes, DraftIsOwn, HandsFlatten, Writing
<1>13. CASE ResetBegin(w)
  <2>1. /\ pc[w] = "idle" /\ pc'[w] = "open" /\ call'[w].op = "reset"
        /\ call'[w].state = DefaultState /\ UNCHANGED <<file, exposed>>
    BY <1>13, <1>s DEF ResetBegin, Begins, Goto, NoCall
  <2>2. OthersIdle(w)'
    BY <1>13, <1>i, <1>s DEF ResetBegin, Goto
  <2> QED
    BY <1>t, <2>1, <2>2
       DEF FlattenInv, AloneShapes, DraftIsOwn, HandsFlatten, AtFlattenLevel, Readable
<1>14. CASE ResetWritten(w)
  <2>1. /\ call[w].op = "reset" /\ Publish(w)
        /\ pc'[w] = "reset_row" /\ call' = call
    BY <1>14, <1>s DEF ResetWritten, Goto
  <2>2. OthersIdle(w)'
    BY <1>14, <1>i, <1>s DEF ResetWritten, Goto
  <2>3. ~AtFlattenLevel'
    BY <1>p, <1>s, <2>1 DEF AtFlattenLevel, AloneShapes, DefaultState
  <2> QED
    BY <1>t, <1>s, <2>1, <2>2, <2>3
       DEF FlattenInv, AloneShapes, DraftIsOwn, HandsFlatten, Writing
<1>15. CASE AskGate(w)
  <2>1. /\ pc[w] = "idle" /\ pc'[w] = "enter" /\ call'[w].op = "enter"
        /\ UNCHANGED <<file, exposed>>
    BY <1>15, <1>s DEF AskGate, Begins, Goto, Calls
  <2>2. OthersIdle(w)'
    BY <1>15, <1>i, <1>s DEF AskGate, Goto
  <2>3. ~AtFlattenLevel
    BY <1>15 DEF AskGate, EntriesAllowed, ReadHaltState, AtFlattenLevel, Readable
  <2> QED
    BY <1>t, <2>1, <2>2, <2>3
       DEF FlattenInv, AloneShapes, DraftIsOwn, HandsFlatten, AtFlattenLevel, Readable,
           Writing
<1>16. CASE Crash(w)
  <2>1. pc[w] # "flatten"
    BY <1>16, <1>s DEF Crash, AloneShapes, Alone
  <2> QED
    BY <1>16, <1>r, <2>1 DEF Crash
<1>17. CASE Tick
  BY <1>17, <1>t
     DEF Tick, FlattenInv, OthersIdle, AloneShapes, DraftIsOwn, DraftOf, HandsFlatten,
         AtFlattenLevel, Readable, Holding, Writing
<1>18. CASE Corrupt
  BY <1>18, <1>t
     DEF Corrupt, FlattenInv, OthersIdle, AloneShapes, DraftIsOwn, DraftOf, HandsFlatten,
         AtFlattenLevel, Readable, Holding, Writing
<1>19. CASE UNCHANGED vars
  BY <1>19, <1>t
     DEF vars, FlattenInv, OthersIdle, AloneShapes, DraftIsOwn, DraftOf, HandsFlatten,
         AtFlattenLevel, Readable, Holding, Writing
<1>20. CASE ProcStep(w)
  BY <1>20, <1>1, <1>2, <1>3, <1>5, <1>6, <1>7, <1>8, <1>9, <1>10, <1>11, <1>12,
     <1>13, <1>14, <1>15
     DEF ProcStep, WriteStep, CheckStep, DrillStep, ResetStep, EntryStep
<1> QED
  BY <1>o, <1>16, <1>17, <1>18, <1>19, <1>20 DEF Next

\* The flatten level is never in force over open positions without the
\* flatten_all of the check that raised it, where nobody else uses the file
\* and checks are not cut off.
THEOREM FlattenComes ==
    ASSUME NEW w \in Procs, Alone(w)
    PROVE  Spec => []FlattenNotLost
<1>1. Init => FlattenInv(w)
  BY FlattenInvInit
<1>2. FlattenInv(w) /\ [Next]_vars => FlattenInv(w)'
  BY FlattenInvStep
<1>3. FlattenInv(w) => FlattenNotLost
  BY DEF FlattenInv, FlattenNotLost, FlattenPending
<1> QED
  BY <1>1, <1>2, <1>3, PTL DEF Spec

=============================================================================
