----------------------------- MODULE Submission -----------------------------
(***************************************************************************)
(* http_post of result_submission.cpp, the network and the server.  One     *)
(* action is one system call and the tests of its result.                   *)
(*                                                                         *)
(* The server and the network are modelled from how http_post uses them:    *)
(* a request may arrive whole or not, the server may store it at any time   *)
(* after that, also when the client has given up, and the answer may be     *)
(* lost, cut or late.  The server answers 201 only to what it has stored.   *)
(*                                                                         *)
(* Left out: the id that is cut out of the answer, and parse_url, which is  *)
(* only called with the constant address.                                   *)
(***************************************************************************)
EXTENDS Naturals

CONSTANT Requests   \* the requests that a process may send

ASSUME SubmissionAssumption == Requests \subseteq Nat \ {0}

VARIABLES
    windows,    \* the build: Winsock is started first, there is no SIGPIPE
    phase,      \* where http_post is, or how the last call ended
    current,    \* the request it sends, 0 before the first
    held,       \* system resources it holds
    received,   \* what the received bytes amount to
    inbox,      \* external: requests that have arrived whole
    answer,     \* external: the server's answer on the open connection
    copies      \* external: how often the server has stored each request

postVars   == <<windows, phase, current, held, received>>
serverVars == <<inbox, answer, copies>>

\* What the status line of an answer says.  The last one is a line without
\* a number where the status should be.
Answers == {"created", "rejected", "error", "other", "no_number"}

SubmissionInit ==
    /\ windows \in BOOLEAN
    /\ phase = "idle" /\ current = 0 /\ held = {} /\ received = "nothing"
    /\ inbox = {} /\ answer = "nothing" /\ copies = [r \in Requests |-> 0]

InPost(p) == phase = p /\ UNCHANGED <<windows, current>>

Post(r) ==
    /\ phase = "idle"
    /\ phase' = IF windows THEN "startup" ELSE "resolve"
    /\ current' = r
    /\ answer' = "nothing"
    /\ received' = "nothing"
    /\ UNCHANGED <<windows, held, inbox, copies>>

\* Every early return releases what the call holds.
ReturnFailed ==
    /\ phase' = "failed"
    /\ held' = {}
    /\ UNCHANGED <<received, serverVars>>

GoOn(p, holding) ==
    /\ phase' = p
    /\ held' = holding
    /\ UNCHANGED <<received, serverVars>>

Startup ==
    /\ InPost("startup")
    /\ ReturnFailed \/ GoOn("resolve", {"winsock"})

Resolve ==
    /\ InPost("resolve")
    /\ ReturnFailed \/ GoOn("socket", held \cup {"addresses"})

OpenSocket ==
    /\ InPost("socket")
    /\ ReturnFailed \/ GoOn("connect", held \cup {"socket"})

\* A fault: the addresses are freed only when the connection is made.
Connect_KeepsAddresses ==
    /\ InPost("connect")
    /\ \/ /\ GoOn("failed", {"addresses"})
       \/ GoOn("send", held \ {"addresses"})

Connect ==
    /\ InPost("connect")
    /\ ReturnFailed \/ GoOn("send", held \ {"addresses"})

\* send fails; or takes the request, which arrives whole; or takes a part of
\* it, or the network loses some.  A server that has closed the connection
\* kills a POSIX process by SIGPIPE.
Send ==
    /\ InPost("send")
    /\ \/ ReturnFailed
       \/ GoOn("receive", held)
       \/ /\ phase' = "receive"
          /\ inbox' = inbox \cup {current}
          /\ UNCHANGED <<held, received, answer, copies>>
       \/ ~ windows /\ GoOn("killed", {})

\* A fault: recv waits until the server answers.
Receive_NoTimeout ==
    /\ InPost("receive")
    /\ answer # "nothing"
    /\ received' = answer
    /\ held' = {}
    /\ phase' = "parse"
    /\ UNCHANGED serverVars

\* The loop of recv ends when the server closes, at an error or after 10 s of
\* silence.  What has come in until then may lack a whole status line.  That
\* a server does not go on sending for ever is assumed.
Receive ==
    /\ InPost("receive")
    /\ received' \in {"nothing", answer}
    /\ held' = {}
    /\ phase' = "parse"
    /\ UNCHANGED serverVars

\* std::stoi throws if there is no number.
Outcome(line) ==
    CASE line = "created"   -> "ok"
      [] line = "no_number" -> "threw"
      [] OTHER              -> "failed"

ParseAnswer ==
    /\ InPost("parse")
    /\ phase' = Outcome(received)
    /\ UNCHANGED <<held, received, serverVars>>

PostStep ==
    \/ Startup \/ Resolve \/ OpenSocket \/ Connect \/ Send \/ Receive
    \/ ParseAnswer

-----------------------------------------------------------------------------
\* The connection on which r came is still open and has not been answered.
Open(r) == phase = "receive" /\ current = r /\ answer = "nothing"

\* The server stores a request; it may fail to answer, or fail after storing.
ServerStores ==
    \E r \in inbox :
        /\ copies' = [copies EXCEPT ![r] = @ + 1]
        /\ inbox' = inbox \ {r}
        /\ IF Open(r) THEN answer' \in {"created", "error", "other", "nothing"}
           ELSE UNCHANGED answer
        /\ UNCHANGED postVars

\* The server, or something in between, answers without storing.
ServerRefuses ==
    /\ phase = "receive" /\ answer = "nothing"
    /\ answer' \in Answers \ {"created"}
    /\ inbox' = inbox \ {current}
    /\ UNCHANGED <<copies, postVars>>

Server == ServerStores \/ ServerRefuses
=============================================================================
