------------------------------ MODULE Alerting ------------------------------
(***************************************************************************)
(* The transport chain of tradeops/alerting/notifier.py: FallbackNotifier  *)
(* tries its transports in order until one confirms delivery.  A fate says *)
(* what becomes of one message at each transport of the chain.             *)
(***************************************************************************)
EXTENDS Integers, Sequences

Console == "console"

\* notifier_from_env: Slack, then mail.
FromEnv == <<"slack", "email">>

HasConsole(transports) == \E i \in DOMAIN transports : transports[i] = Console

\* FallbackNotifier appends a console unless the chain has one or the caller
\* turns ensure_console off.
Chain(transports, ensure_console) ==
    IF ensure_console /\ ~HasConsole(transports)
    THEN Append(transports, Console) ELSE transports

\* What a transport's send may come to.  "unconfirmed": the message went out,
\* but the status is not 200, the session broke off, or the call timed out.
\* "refused": not configured, or an error that send turns into False.
\* "raised": the transport itself raises, with nothing sent.
Outcomes == {"confirmed", "unconfirmed", "refused", "raised"}

\* The console prints and confirms.
Fates(chain) ==
    {fate \in [DOMAIN chain -> Outcomes] :
        \A i \in DOMAIN chain : chain[i] = Console => fate[i] = "confirmed"}

\* Mutant of Tried: a transport that raises ends the chain.
TriedUntilRaise(fate) ==
    {i \in DOMAIN fate : \A j \in 1 .. i - 1 : fate[j] \in {"unconfirmed", "refused"}}

\* send_alert: each transport whose predecessors all left the message unconfirmed.
Tried(fate) == {i \in DOMAIN fate : \A j \in 1 .. i - 1 : fate[j] # "confirmed"}

\* The message can be found somewhere.
Lands(fate) == \E i \in Tried(fate) : fate[i] \in {"confirmed", "unconfirmed"}
============================================================================
