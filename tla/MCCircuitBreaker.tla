-------------------------- MODULE MCCircuitBreaker --------------------------
(***************************************************************************)
(* Instances of CircuitBreaker: the agent's process, and an operator's     *)
(* console beside it or in its own turn.                                   *)
(***************************************************************************)
EXTENDS CircuitBreaker

CONSTANTS Agent, Operator

\* The agent checks while the operator resets.
OpsOverlapping == [p \in Procs |-> IF p = Agent THEN {"check"} ELSE {"reset"}]

\* Every operation, one after the other.
OpsInTurn == [p \in Procs |-> Operations]

\* What the properties of the overlapping run and the guards of its steps can
\* tell apart: nothing reads the dates of the rows about resets and drills, and
\* with nobody entering nothing reads whether positions are open.
TellingState ==
    <<file, tmp, fd, today, pc, call, [e \in EventKinds \ {"MANUAL_RESET", "DRILL"} |-> events[e]],
      tripped, verdict>>

\* The agent on its own, checking.
OpsCheckOnly == [p \in Procs |-> {"check"}]
============================================================================
