------------------------------- MODULE ForkJoin -------------------------------
(***************************************************************************)
(* What a thread pool promises its caller, whatever it is made of: the     *)
(* caller forks tasks, somebody runs each of them at most once, and a join *)
(* returns only when every task forked so far has ended.  A pool may be    *)
(* closed with tasks left over; they may still end, or be dropped.         *)
(***************************************************************************)
EXTENDS Naturals

CONSTANT Task

VARIABLES
  forked,    \* every task handed over so far
  inFlight,  \* those that have not ended
  phase      \* "open", "joining" or "closed"

vars == <<forked, inFlight, phase>>

TypeOK ==
  /\ forked \subseteq Task
  /\ inFlight \subseteq forked
  /\ phase \in {"open", "joining", "closed"}

Init ==
  /\ forked = {}
  /\ inFlight = {}
  /\ phase = "open"

\* The caller hands over new tasks; forked' says which.
Fork ==
  /\ phase = "open"
  /\ forked' \subseteq Task
  /\ forked \subseteq forked'
  /\ forked' # forked
  /\ inFlight' = inFlight \cup (forked' \ forked)
  /\ UNCHANGED phase

\* A task ends; it was not run before.
Finish(t) ==
  /\ t \in inFlight
  /\ inFlight' = inFlight \ {t}
  /\ UNCHANGED <<forked, phase>>

BeginJoin ==
  /\ phase = "open"
  /\ phase' = "joining"
  /\ UNCHANGED <<forked, inFlight>>

EndJoin ==
  /\ phase = "joining"
  /\ inFlight = {}
  /\ phase' = "open"
  /\ UNCHANGED <<forked, inFlight>>

Close ==
  /\ phase = "open"
  /\ phase' = "closed"
  /\ UNCHANGED <<forked, inFlight>>

Next ==
  \/ Fork
  \/ \E t \in inFlight : Finish(t)
  \/ BeginJoin
  \/ EndJoin
  \/ Close

Spec == Init /\ [][Next]_vars
=============================================================================
