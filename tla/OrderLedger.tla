---------------------------- MODULE OrderLedger -----------------------------
(***************************************************************************)
(* What fill reconciliation promises about the journal, without rows,      *)
(* views, passes or times: order by order, the journal learns the broker's *)
(* answer.  An order is entered when the agent places it, or not at all    *)
(* when it is a stop that fired on its own; what is entered of it is       *)
(* written over once, by the broker's final answer and after it, and never *)
(* again.  Nothing entered is forgotten, and one step enters one answer.   *)
(***************************************************************************)
EXTENDS Integers, Sequences

VARIABLES
    outcome,   \* by order, oldest first: "working", "filled" or "dead"
    entered    \* by order: what the journal says of it, as a set

vars == <<outcome, entered>>

Init == outcome = <<>> /\ entered = <<>>

\* The agent places an order and enters it with no answer yet.
Submit ==
    /\ outcome' = Append(outcome, "working")
    /\ entered' = Append(entered, {"pending"})

\* A stop fires: the journal knows nothing of it.
Trigger ==
    /\ outcome' = Append(outcome, "filled")
    /\ entered' = Append(entered, {})

Finish(o) ==
    /\ outcome[o] = "working"
    /\ \E final \in {"filled", "dead"} : outcome' = [outcome EXCEPT ![o] = final]
    /\ UNCHANGED entered

Learn(o) ==
    /\ outcome[o] # "working"
    /\ entered[o] \in {{}, {"pending"}}
    /\ entered' = [entered EXCEPT ![o] = {outcome[o]}]
    /\ UNCHANGED outcome

Next == Submit \/ Trigger \/ \E o \in DOMAIN outcome : Finish(o) \/ Learn(o)

Spec == Init /\ [][Next]_vars
============================================================================
