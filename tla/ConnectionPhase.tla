-------------------------- MODULE ConnectionPhase --------------------------
(***************************************************************************)
(* What the connection manager of the dashboard promises (spec sections 3, *)
(* 4.1 and 5), without sockets, closures or timers: one link at a time    *)
(* goes through connecting, open, closing and a wait before the next      *)
(* attempt, and the phase it publishes follows the link.  A lost link is   *)
(* always retried; reloading the page starts over.                        *)
(***************************************************************************)
VARIABLES
    link,   \* "none", "connecting", "open", "closing", "waiting"
    phase   \* the published connection phase

vars == <<link, phase>>

Init ==
    /\ link = "none"
    /\ phase = "disconnected"

\* The first attempt, once the page has started.
Start ==
    /\ link = "none"
    /\ link' = "connecting"
    /\ UNCHANGED phase

Opened ==
    /\ link = "connecting"
    /\ link' = "open"
    /\ phase' = "connected"

\* The transport fails; the phase shows the error until the link is closed.
Fail ==
    /\ link \in {"connecting", "open", "closing"}
    /\ link' = "closing"
    /\ phase' = "error"

\* The peer starts closing an open link.
Drop ==
    /\ link = "open"
    /\ link' = "closing"
    /\ UNCHANGED phase

Closed ==
    /\ link = "closing"
    /\ link' = "waiting"
    /\ phase' = "disconnected"

Retry ==
    /\ link = "waiting"
    /\ link' = "connecting"
    /\ UNCHANGED phase

\* The user reloads the page while no link is shown as connected.
Restart ==
    /\ phase \in {"disconnected", "error"}
    /\ link' = "none"
    /\ phase' = "disconnected"

Next == Start \/ Opened \/ Fail \/ Drop \/ Closed \/ Retry \/ Restart

Spec == Init /\ [][Next]_vars /\ WF_vars(Start) /\ WF_vars(Closed) /\ WF_vars(Retry)

=============================================================================
