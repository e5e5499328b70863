----------------------------- MODULE SharedClock -----------------------------
(***************************************************************************)
(* What a client of the DSI clock manager is promised about one clock      *)
(* domain: the clock runs as long as somebody holds it, and does not run   *)
(* for ever when nobody does.                                              *)
(***************************************************************************)
CONSTANT Client

VARIABLES holders, on

Init == holders = {} /\ on = FALSE

Start == ~on /\ on' = TRUE /\ UNCHANGED holders

Stop == on /\ holders = {} /\ on' = FALSE /\ UNCHANGED holders

\* A clock is handed out only while it runs.
Acquire(c) == on /\ holders' = holders \cup {c} /\ UNCHANGED on

Release(S) == holders' = holders \ S /\ UNCHANGED on

Next ==
    \/ Start \/ Stop
    \/ \E c \in Client : Acquire(c)
    \/ \E S \in SUBSET Client : Release(S)

Safety == Init /\ [][Next]_<<holders, on>>

Spec == Safety /\ WF_<<holders, on>>(Stop)

\* Who holds the clock finds it running.
HeldRuns == holders # {} => on
=============================================================================
