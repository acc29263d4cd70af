----------------------------- MODULE AtMostOnce -----------------------------
(***************************************************************************)
(* What a client without retries can promise over a network that loses      *)
(* requests and answers: each attempt stores its result once or not at all, *)
(* and what is reported as stored is stored.  A result that is reported as  *)
(* failed may still be stored, before or after the report.                  *)
(***************************************************************************)
EXTENDS Naturals

CONSTANT Requests

VARIABLES
    attempted,  \* requests the client has begun to submit
    copies,     \* how often the server has stored each
    reported    \* what the user was told: "nothing", "ok" or "failed"

amoVars == <<attempted, copies, reported>>

Init ==
    /\ attempted = {}
    /\ copies = [r \in Requests |-> 0]
    /\ reported = [r \in Requests |-> "nothing"]

Attempt(r) ==
    /\ r \notin attempted
    /\ attempted' = attempted \cup {r}
    /\ UNCHANGED <<copies, reported>>

Store(r) ==
    /\ r \in attempted
    /\ copies[r] = 0
    /\ copies' = [copies EXCEPT ![r] = 1]
    /\ UNCHANGED <<attempted, reported>>

Report(r, outcome) ==
    /\ r \in attempted
    /\ reported[r] = "nothing"
    /\ outcome = "ok" => copies[r] = 1
    /\ reported' = [reported EXCEPT ![r] = outcome]
    /\ UNCHANGED <<attempted, copies>>

Next ==
    \E r \in Requests :
        Attempt(r) \/ Store(r) \/ \E o \in {"ok", "failed"} : Report(r, o)

Spec == Init /\ [][Next]_amoVars
=============================================================================
