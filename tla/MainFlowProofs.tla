---------------------------- MODULE MainFlowProofs ----------------------------
(***************************************************************************)
(* Theorems about MainFlow: whatever the arguments, the user, the network  *)
(* and the server do, each result is stored at most once and what is       *)
(* reported as stored is stored, and http_post leaves nothing open.        *)
(***************************************************************************)
EXTENDS MainFlow, SequenceTheorems, Arithmetic

Early == {"parse", "start", "confirm", "full_set_up", "full_compute", "set_up",
          "warm_up", "memory", "test"}

\* The tests that have ended, by where main is, and the requests made of them.
FlowInv ==
  /\ pc \in Early \cup {"full_precision", "consent", "submit", "exited"}
  /\ pc \in Early => results = << >>
  /\ pc = "full_precision" => results = <<results[1]>>
  /\ pc = "consent" => results = <<results[1]>> \/ results = <<results[1], results[2]>>
  /\ pc \notin {"submit", "exited"} => phase = "idle" /\ current = 0
  /\ Len(payloads) \in 0 .. 2

\* Where http_post may be, and the phases before the request has been sent.
Unsent   == {"startup", "resolve", "socket", "connect", "send"}
Returned == {"idle", "ok", "failed", "threw"}

PostInv ==
  /\ phase \in Unsent \cup Returned \cup {"receive", "parse", "killed"}
  /\ phase \in Returned \cup {"parse"} => held = {}
  /\ current \in 0 .. 2
  /\ phase # "idle" => current # 0
  /\ received \in Answers \cup {"nothing"}

\* The server: a request that has arrived has not been stored yet, one that has not been
\* sent has not arrived, and an answer "created" is the answer to a stored one.
StoreInv ==
  /\ copies \in [Requests -> {0, 1}]
  /\ inbox \subseteq Requests
  /\ \A r \in inbox : copies[r] = 0 /\ r <= current
  /\ \A r \in Requests : r > current => copies[r] = 0
  /\ phase \in Unsent => current \notin inbox /\ copies[current] = 0 /\ answer = "nothing"
  /\ phase = "receive" /\ answer = "created" => copies[current] = 1
  /\ phase = "parse" /\ received = "created" => copies[current] = 1
  /\ phase = "ok" => copies[current] = 1
  /\ phase = "receive" => answer \in Answers \cup {"nothing"}

\* What the user has been told about: the requests before the current one.
ReportInv ==
  /\ reported \in [Requests -> {"nothing", "ok", "failed"}]
  /\ \A r \in Requests : r > current => reported[r] = "nothing"
  /\ phase # "idle" => reported[current] = "nothing"

SubmitInv == FlowInv /\ PostInv /\ StoreInv /\ ReportInv

LEMMA RequestsAre == Requests = {1, 2}
BY MainFlowAssumption

LEMMA Starts == Init => SubmitInv
BY RequestsAre DEF Init, CliInit, SubmissionInit, SubmitInv, FlowInv, PostInv, StoreInv,
  ReportInv, Early, Unsent, Returned

\* Arguments and tests: the requests are not touched.
Quiet ==
  \/ Parse \/ Begin \/ FullConfirm \/ FullSetUp \/ FullCompute \/ FullPrecision
  \/ SetUp \/ WarmUp \/ CheckMemory \/ RunTest \/ TestFails \/ Consent \/ SubmitEnds

LEMMA QuietRests ==
  ASSUME SubmitInv, Quiet
  PROVE  UNCHANGED <<httpVars, reported>>
BY DEF Quiet, Parse, Begin, FullConfirm, FullSetUp, FullCompute, FullPrecision, SetUp, WarmUp,
  CheckMemory, RunTest, TestFails, Consent, SubmitEnds, At, GoTo, LeaveMain, Leave, flowVars

LEMMA RestKeeps ==
  ASSUME SubmitInv, UNCHANGED <<httpVars, reported>>
  PROVE  PostInv' /\ StoreInv' /\ ReportInv'
BY DEF SubmitInv, PostInv, StoreInv, ReportInv, httpVars

LEMMA OneResult ==
  ASSUME NEW e
  PROVE  /\ Append(<< >>, e) = <<e>>
         /\ \A d : Append(<<d>>, e) = <<d, e>>
<1>1. Append(<< >>, e) = <<e>>
  <2> DEFINE S == {e}
  <2>1. << >> \in Seq(S) /\ e \in S /\ Len(<< >>) = 0
    OBVIOUS
  <2>2. Append(<< >>, e) \in Seq(S) /\ Len(Append(<< >>, e)) = 1 /\ Append(<< >>, e)[1] = e
    BY <2>1, AppendProperties
  <2> QED BY <2>2
<1>2. ASSUME NEW d PROVE Append(<<d>>, e) = <<d, e>>
  <2> DEFINE S == {d, e}
  <2>1. <<d>> \in Seq(S) /\ e \in S /\ Len(<<d>>) = 1 /\ <<d>>[1] = d
    OBVIOUS
  <2>2. /\ Append(<<d>>, e) \in Seq(S) /\ Len(Append(<<d>>, e)) = 2
        /\ Append(<<d>>, e)[1] = d /\ Append(<<d>>, e)[2] = e
    BY <2>1, AppendProperties
  <2>3. <<d, e>> \in Seq(S) /\ Len(<<d, e>>) = 2 /\ <<d, e>>[1] = d /\ <<d, e>>[2] = e
    OBVIOUS
  <2>4. \A i \in 1 .. 2 : Append(<<d>>, e)[i] = <<d, e>>[i]
    BY <2>2, <2>3
  <2> HIDE DEF S
  <2> QED BY <2>2, <2>3, <2>4, SeqEqual
<1> QED BY <1>1, <1>2

LEMMA AppendOne ==
  ASSUME NEW e, results = << >>, results' = Append(results, e)
  PROVE  results' = <<results'[1]>>
BY OneResult

LEMMA AppendTwo ==
  ASSUME NEW e, results = <<results[1]>>, results' = Append(results, e)
  PROVE  results' = <<results'[1], results'[2]>>
<1>1. PICK d : results = <<d>>
  OBVIOUS
<1>2. results' = <<d, e>>
  BY <1>1, OneResult
<1> QED BY <1>2

LEMMA AsManyPayloads ==
  ASSUME results = <<results[1]>> \/ results = <<results[1], results[2]>>,
         payloads' = [i \in DOMAIN results |-> PayloadFor(i)]
  PROVE  Len(payloads') \in 0 .. 2
<1> DEFINE S == {PayloadFor(1), PayloadFor(2)}
<1>1. \E n \in {1, 2} : DOMAIN results = 1 .. n
  OBVIOUS
<1>2. PICK n \in {1, 2} : DOMAIN results = 1 .. n
  BY <1>1
<1>3. payloads' \in [1 .. n -> S]
  BY <1>2
<1>4. payloads' \in Seq(S) /\ DOMAIN payloads' = 1 .. n
  BY <1>3, SeqDef
<1>5. Len(payloads') \in Nat /\ DOMAIN payloads' = 1 .. Len(payloads')
  BY <1>4, LenProperties
<1>6. Len(payloads') = n
  BY <1>4, <1>5
<1> QED BY <1>6

LEMMA FlowSteps ==
  ASSUME SubmitInv, Quiet
  PROVE  FlowInv'
<1> USE DEF SubmitInv, FlowInv, Early, At, GoTo, LeaveMain, Leave, flowVars
<1>0. UNCHANGED <<httpVars, reported>> /\ phase' = phase /\ current' = current
  BY QuietRests DEF httpVars
<1>1. CASE Parse
  BY <1>1, <1>0 DEF Parse, ParseArgs, ParseHelpOrVersion, ParseRejected, ParseFlag, ParseSocket,
    ParseMode, ParseSize, ParseThreads, ParseTime, ParsePrecision, ParseRepeats, ParseOutput,
    EndOfArgs, Neutral, NotNeutral, Accept, Stop, ReadArg
<1>2. CASE Begin
  BY <1>2, <1>0 DEF Begin
<1>3. CASE FullConfirm \/ FullSetUp
  BY <1>3, <1>0 DEF FullConfirm, FullSetUp
<1>4. CASE FullCompute
  <2>1. results = << >> /\ results' = Append(results, Measured("compute", 0))
    BY <1>4 DEF FullCompute, TestEnds
  <2>2. results' = <<results'[1]>>
    BY <2>1, AppendOne
  <2> QED BY <1>4, <1>0, <2>2 DEF FullCompute
<1>5. CASE FullPrecision
  <2>1. /\ results = <<results[1]>>
        /\ results' = Append(results, Measured("precision_all", config.threads))
    BY <1>5 DEF FullPrecision, TestEnds
  <2>2. results' = <<results'[1], results'[2]>>
    BY <2>1, AppendTwo
  <2> QED BY <1>5, <1>0, <2>2 DEF FullPrecision
<1>6. CASE SetUp \/ WarmUp
  BY <1>6, <1>0 DEF SetUp, WarmUp
<1>7. CASE CheckMemory
  BY <1>7, <1>0 DEF CheckMemory
<1>8. CASE RunTest
  <2>1. results = << >> /\ results' = Append(results, Measured(SelectedTest, config.threads))
    BY <1>8 DEF RunTest, TestEnds
  <2>2. results' = <<results'[1]>>
    BY <2>1, AppendOne
  <2> QED BY <1>8, <1>0, <2>2 DEF RunTest
<1>9. CASE TestFails
  BY <1>9, <1>0 DEF TestFails
<1>10. CASE Consent
  <2>1. pc = "consent"
    BY <1>10 DEF Consent
  <2>2. CASE payloads' = [i \in DOMAIN results |-> PayloadFor(i)]
    <3>1. Len(payloads') \in 0 .. 2
      BY <2>1, <2>2, AsManyPayloads
    <3> QED BY <1>10, <1>0, <3>1 DEF Consent
  <2> QED BY <1>10, <1>0, <2>2 DEF Consent
<1>11. CASE SubmitEnds
  BY <1>11, <1>0 DEF SubmitEnds
<1> QED BY <1>1, <1>2, <1>3, <1>4, <1>5, <1>6, <1>7, <1>8, <1>9, <1>10, <1>11 DEF Quiet

LEMMA SendingKeepsFlow ==
  ASSUME SubmitInv, SubmitNext \/ HttpPost \/ SubmitReturns
  PROVE  FlowInv'
BY DEF SubmitInv, FlowInv, Early, SubmitNext, HttpPost, SubmitReturns, cliVars, flowVars

LEMMA ServerKeepsFlow ==
  ASSUME SubmitInv, ServerStep
  PROVE  FlowInv'
BY DEF SubmitInv, FlowInv, Early, ServerStep, Server, ServerStores, ServerRefuses, postVars,
  cliVars, flowVars

-----------------------------------------------------------------------------
(* The requests.                                                             *)

LEMMA NextRequest ==
  ASSUME SubmitInv, SubmitNext
  PROVE  PostInv' /\ StoreInv' /\ ReportInv'
<1> USE DEF SubmitInv, FlowInv, PostInv, StoreInv, ReportInv, SubmitNext, Post, Unsent, Returned,
        cliVars, flowVars
<1>0. Len(payloads) \in 0 .. 2 /\ current \in 0 .. 2 /\ current < Len(payloads)
  OBVIOUS
<1>1. current' \in {1, 2} /\ current' = current + 1 /\ current' \in Requests
  <2>1. current' = current + 1
    OBVIOUS
  <2>2. current' \in {1, 2}
    BY <1>0, <2>1, SMT
  <2> QED BY <2>1, <2>2, RequestsAre
<1>2. PostInv'
  BY <1>1
<1>3. StoreInv'
  BY <1>1, RequestsAre
<1>4. ReportInv'
  BY <1>1, RequestsAre
<1> QED BY <1>2, <1>3, <1>4

LEMMA CurrentRequest ==
  ASSUME SubmitInv, phase # "idle"
  PROVE  current \in Requests /\ current \in {1, 2}
BY RequestsAre DEF SubmitInv, PostInv

\* The calls of http_post before the request is on its way.
LEMMA ConnectingKeeps ==
  ASSUME SubmitInv, HttpPost, Startup \/ Resolve \/ OpenSocket \/ Connect
  PROVE  PostInv' /\ StoreInv' /\ ReportInv'
<1> USE DEF SubmitInv, PostInv, StoreInv, ReportInv, HttpPost, Startup, Resolve, OpenSocket,
        Connect, InPost, ReturnFailed, GoOn, Unsent, Returned, serverVars, cliVars, flowVars
<1>1. PostInv'
  OBVIOUS
<1>2. StoreInv'
  OBVIOUS
<1>3. ReportInv'
  OBVIOUS
<1> QED BY <1>1, <1>2, <1>3

LEMMA SendKeeps ==
  ASSUME SubmitInv, HttpPost, Send
  PROVE  PostInv' /\ StoreInv' /\ ReportInv'
<1> USE DEF SubmitInv, PostInv, StoreInv, ReportInv, HttpPost, Send, InPost, ReturnFailed, GoOn,
        Unsent, Returned, serverVars, cliVars, flowVars
<1>0. current \in Requests
  BY CurrentRequest
<1>1. PostInv'
  OBVIOUS
<1>2. StoreInv'
  <2>1. current' = current /\ copies' = copies /\ answer' = "nothing" /\ inbox \subseteq inbox'
    OBVIOUS
  <2>2. inbox' \subseteq inbox \cup {current}
    OBVIOUS
  <2>3. copies[current] = 0 /\ current <= current
    BY <1>0
  <2>4. \A r \in inbox' : copies'[r] = 0 /\ r <= current'
    BY <2>1, <2>2, <2>3
  <2>5. phase' \notin Unsent /\ phase' # "parse" /\ phase' # "ok"
    OBVIOUS
  <2>6. inbox' \subseteq Requests
    BY <1>0, <2>2
  <2> QED BY <2>1, <2>4, <2>5, <2>6
<1>3. ReportInv'
  OBVIOUS
<1> QED BY <1>1, <1>2, <1>3

LEMMA AnswerKeeps ==
  ASSUME SubmitInv, HttpPost, Receive \/ ParseAnswer
  PROVE  PostInv' /\ StoreInv' /\ ReportInv'
<1> USE DEF SubmitInv, PostInv, StoreInv, ReportInv, HttpPost, Receive, ParseAnswer, InPost,
        Outcome, Unsent, Returned, Answers, serverVars, cliVars, flowVars
<1>1. PostInv'
  OBVIOUS
<1>2. StoreInv'
  OBVIOUS
<1>3. ReportInv'
  OBVIOUS
<1> QED BY <1>1, <1>2, <1>3

LEMMA ReturnKeeps ==
  ASSUME SubmitInv, SubmitReturns
  PROVE  PostInv' /\ StoreInv' /\ ReportInv'
<1> USE DEF SubmitInv, PostInv, StoreInv, ReportInv, SubmitReturns, Unsent, Returned, serverVars,
        cliVars
<1>0. current \in Requests /\ current \in {1, 2}
  BY CurrentRequest
<1>1. PostInv'
  OBVIOUS
<1>2. StoreInv'
  OBVIOUS
<1>3. ReportInv'
  BY <1>0, RequestsAre
<1> QED BY <1>1, <1>2, <1>3

LEMMA ServerKeeps ==
  ASSUME SubmitInv, ServerStep
  PROVE  PostInv' /\ StoreInv' /\ ReportInv'
<1> USE DEF SubmitInv, PostInv, StoreInv, ReportInv, ServerStep, Unsent, Returned, postVars,
        cliVars, flowVars
<1>1. CASE ServerStores
  <2>1. PICK r \in inbox :
          /\ copies' = [copies EXCEPT ![r] = @ + 1]
          /\ inbox' = inbox \ {r}
          /\ IF Open(r) THEN answer' \in {"created", "error", "other", "nothing"}
             ELSE UNCHANGED answer
          /\ UNCHANGED postVars
    BY <1>1 DEF ServerStores
  <2>2. r \in Requests /\ copies[r] = 0 /\ r <= current
    BY <2>1
  <2>3. copies' \in [Requests -> {0, 1}] /\ copies'[r] = 1
    BY <2>1, <2>2
  <2>4. \A q \in Requests : q # r => copies'[q] = copies[q]
    BY <2>1
  <2>5. PostInv' /\ ReportInv'
    BY <2>1
  <2>6. StoreInv'
    <3>1. \A q \in inbox' : copies'[q] = 0 /\ q <= current'
      BY <2>1, <2>4
    <3>2. \A q \in Requests : q > current' => copies'[q] = 0
      BY <2>1, <2>2, <2>4, RequestsAre
    <3>3. phase' \in Unsent =>
            current' \notin inbox' /\ copies'[current'] = 0 /\ answer' = "nothing"
      BY <2>1, <2>2, <2>4, CurrentRequest DEF Open
    <3>4. copies[current] = 1 /\ phase # "idle" => copies'[current'] = 1
      BY <2>1, <2>3, <2>4, CurrentRequest
    <3>5. phase' = "receive" /\ answer' = "created" => copies'[current'] = 1
      BY <2>1, <2>3, <3>4 DEF Open
    <3>6. phase' = "receive" => answer' \in Answers \cup {"nothing"}
      BY <2>1 DEF Answers
    <3> QED BY <2>1, <2>3, <3>1, <3>2, <3>3, <3>4, <3>5, <3>6
  <2> QED BY <2>5, <2>6
<1>2. CASE ServerRefuses
  <2>1. PostInv' /\ ReportInv'
    BY <1>2 DEF ServerRefuses
  <2>2. StoreInv'
    BY <1>2 DEF ServerRefuses, Answers
  <2> QED BY <2>1, <2>2
<1> QED BY <1>1, <1>2 DEF Server

-----------------------------------------------------------------------------
LEMMA SubmitStep == SubmitInv /\ [Next]_vars => SubmitInv'
<1> SUFFICES ASSUME SubmitInv, [Next]_vars PROVE SubmitInv'
  OBVIOUS
<1>1. CASE Quiet
  BY <1>1, QuietRests, RestKeeps, FlowSteps DEF SubmitInv
<1>2. CASE SubmitNext
  BY <1>2, NextRequest, SendingKeepsFlow DEF SubmitInv
<1>3. CASE HttpPost
  <2>1. PostInv' /\ StoreInv' /\ ReportInv'
    BY <1>3, ConnectingKeeps, SendKeeps, AnswerKeeps DEF HttpPost, PostStep
  <2> QED BY <1>3, <2>1, SendingKeepsFlow DEF SubmitInv
<1>4. CASE SubmitReturns
  BY <1>4, ReturnKeeps, SendingKeepsFlow DEF SubmitInv
<1>5. CASE ServerStep
  BY <1>5, ServerKeeps, ServerKeepsFlow DEF SubmitInv
<1>6. CASE UNCHANGED vars
  <2>1. UNCHANGED <<httpVars, reported>>
    BY <1>6 DEF vars, flowVars
  <2>2. FlowInv'
    BY <1>6 DEF vars, cliVars, flowVars, httpVars, SubmitInv, FlowInv, Early
  <2> QED BY <2>1, <2>2, RestKeeps DEF SubmitInv
<1> QED BY <1>1, <1>2, <1>3, <1>4, <1>5, <1>6 DEF Next, Main, Quiet, Exited

\* Where main and http_post are, what the server has and what was reported fit together,
\* for every sequence of arguments and every behaviour of the network.
THEOREM SubmissionInvariant == Spec => []SubmitInv
BY Starts, SubmitStep, PTL DEF Spec

\* However http_post returns (result_submission.cpp:484-528), also by an exception, it has
\* released the socket, the addresses and Winsock.
THEOREM NothingIsHeld == Spec => []NothingHeld
<1>1. SubmitInv => NothingHeld
  BY DEF SubmitInv, PostInv, NothingHeld, Returned
<1> QED BY <1>1, SubmissionInvariant, PTL

-----------------------------------------------------------------------------
(* The client without retries.                                               *)

LEMMA AttemptedIs == SubmitInv => Attempted = 1 .. current
BY DEF SubmitInv, PostInv, Attempted

LEMMA AttemptedStays ==
  ASSUME current' = current, (phase = "idle" /\ current = 0) <=> (phase' = "idle" /\ current = 0)
  PROVE  Attempted' = Attempted
BY DEF Attempted

LEMMA QuietStutters ==
  ASSUME UNCHANGED <<httpVars, reported>>
  PROVE  UNCHANGED AMO!amoVars
BY AttemptedStays DEF httpVars, AMO!amoVars

LEMMA NextAttempts ==
  ASSUME SubmitInv, SubmitInv', SubmitNext
  PROVE  AMO!Next
<1>1. /\ current' = current + 1 /\ current \in 0 .. 2 /\ current' \in 0 .. 2
      /\ UNCHANGED <<copies, reported>>
  BY DEF SubmitNext, Post, SubmitInv, PostInv, flowVars
<1>2. current + 1 \in Requests
  BY <1>1, RequestsAre
<1>3. Attempted = 1 .. current /\ Attempted' = 1 .. current + 1
  <2>1. Attempted' = 1 .. current'
    BY <1>1 DEF Attempted
  <2> QED BY <2>1, <1>1, AttemptedIs
<1>4. current + 1 \notin Attempted /\ Attempted' = Attempted \cup {current + 1}
  BY <1>1, <1>3
<1>5. AMO!Attempt(current + 1)
  BY <1>1, <1>4 DEF AMO!Attempt
<1> QED BY <1>2, <1>5 DEF AMO!Next

LEMMA PostStutters ==
  ASSUME SubmitInv, HttpPost
  PROVE  UNCHANGED AMO!amoVars
<1>1. current' = current /\ current # 0 /\ UNCHANGED <<copies, reported>>
  BY DEF SubmitInv, PostInv, HttpPost, PostStep, Startup, Resolve, OpenSocket, Connect, Send,
    Receive, ParseAnswer, InPost, ReturnFailed, GoOn, serverVars, flowVars
<1> QED BY <1>1, AttemptedStays DEF AMO!amoVars

LEMMA ReturnReports ==
  ASSUME SubmitInv, SubmitReturns
  PROVE  AMO!Next
<1>1. /\ current \in Requests /\ current \in {1, 2} /\ current' = current
      /\ phase \in {"ok", "failed"} /\ copies' = copies
      /\ reported' = [reported EXCEPT ![current] = phase]
  BY CurrentRequest DEF SubmitReturns, serverVars
<1>2. Attempted' = Attempted /\ current \in Attempted
  BY <1>1, AttemptedIs, AttemptedStays
<1>3. reported[current] = "nothing" /\ (phase = "ok" => copies[current] = 1)
  BY <1>1 DEF SubmitInv, ReportInv, StoreInv
<1>4. AMO!Report(current, phase)
  BY <1>1, <1>2, <1>3 DEF AMO!Report
<1> QED BY <1>1, <1>4 DEF AMO!Next

LEMMA ServerStoresOnce ==
  ASSUME SubmitInv, ServerStep
  PROVE  AMO!Next \/ UNCHANGED AMO!amoVars
<1>1. Attempted' = Attempted /\ reported' = reported
  BY AttemptedStays DEF ServerStep, Server, ServerStores, ServerRefuses, postVars, flowVars
<1>2. CASE ServerStores
  <2>1. PICK r \in inbox : copies' = [copies EXCEPT ![r] = @ + 1]
    BY <1>2 DEF ServerStores
  <2>2. r \in Requests /\ copies[r] = 0 /\ r <= current
    BY <2>1 DEF SubmitInv, StoreInv
  <2>3. r \in Attempted
    BY <2>2, RequestsAre, AttemptedIs DEF SubmitInv, PostInv
  <2>4. copies' = [copies EXCEPT ![r] = 1]
    BY <2>1, <2>2 DEF SubmitInv, StoreInv
  <2>5. AMO!Store(r)
    BY <1>1, <2>2, <2>3, <2>4 DEF AMO!Store
  <2> QED BY <2>2, <2>5 DEF AMO!Next
<1>3. CASE ServerRefuses
  BY <1>1, <1>3 DEF ServerRefuses, AMO!amoVars
<1> QED BY <1>2, <1>3 DEF ServerStep, Server

\* The submissions implement AtMostOnce: nothing is sent or stored twice, whatever fails,
\* is cut or comes late (result_submission.cpp:501-531, main.cpp:528-540).
THEOREM SubmitsOnce == Spec => SubmitsAtMostOnce
<1>1. Init => AMO!Init
  BY DEF Init, SubmissionInit, AMO!Init, Attempted
<1>2. SubmitInv /\ SubmitInv' /\ [Next]_vars => [AMO!Next]_AMO!amoVars
  <2> SUFFICES ASSUME SubmitInv, SubmitInv', [Next]_vars
               PROVE  AMO!Next \/ UNCHANGED AMO!amoVars
    OBVIOUS
  <2>1. CASE Quiet
    BY <2>1, QuietRests, QuietStutters
  <2>2. CASE SubmitNext
    BY <2>2, NextAttempts
  <2>3. CASE HttpPost
    BY <2>3, PostStutters
  <2>4. CASE SubmitReturns
    BY <2>4, ReturnReports
  <2>5. CASE ServerStep
    BY <2>5, ServerStoresOnce
  <2>6. CASE UNCHANGED vars
    <3>1. UNCHANGED <<httpVars, reported>>
      BY <2>6 DEF vars, flowVars
    <3> QED BY <3>1, QuietStutters
  <2> QED BY <2>1, <2>2, <2>3, <2>4, <2>5, <2>6 DEF Next, Main, Quiet, Exited
<1> QED BY <1>1, <1>2, SubmissionInvariant, PTL DEF Spec, SubmitsAtMostOnce, AMO!Spec

-----------------------------------------------------------------------------
(* What is submitted is standard.                                            *)

\* The flags that say which settings were changed tell the truth, and neutral options
\* change none of them.
ConfigInv ==
  /\ config = [f \in DOMAIN DefaultConfig |-> config[f]]
  /\ config.mode \in Modes
  /\ config.precision \in PrecisionArgs \cup {"float", "fp64"}
  /\ ~ config.precision_single_modified /\ ~ config.run_all_precisions =>
       config.precision = "float"
  /\ ~ config.threads_modified => config.threads = 0
  /\ ~ config.time_modified => config.min_time = 3
  /\ ~ config.repeats_modified => config.repeats = 5
  /\ ~ config.explicit_size_set => config.size \in StandardSizes
  /\ onlyNeutral => /\ ~ config.threads_modified /\ ~ config.time_modified
                    /\ ~ config.repeats_modified /\ ~ config.explicit_size_set

FullTest == {"confirm", "full_set_up", "full_compute", "full_precision"}

\* What main has set up when it is at a test, and that only neutral options lead to the
\* full one.
StageInv ==
  /\ onlyNeutral \in BOOLEAN
  /\ pc = "parse" => config.run_full_test = FALSE
  /\ pc \notin {"parse", "exited"} => config.run_full_test = onlyNeutral
  /\ pc \in FullTest => onlyNeutral
  /\ pc \in {"set_up", "warm_up", "memory", "test"} => ~ onlyNeutral
  /\ pc \in FullTest \cup {"parse", "start", "set_up"} => scalar = FALSE
  /\ pc \in {"full_compute", "full_precision"} => warm = TRUE
  /\ pc \in {"warm_up", "memory", "test"} => scalar = config.force_scalar
  /\ pc \in {"memory", "test"} => warm = config.enable_warmup
  /\ pc \notin {"submit", "exited"} => payloads = << >>

Standard(r) ==
  /\ r.threads = 0 /\ r.min_time = 3 /\ r.repeats = 5
  /\ ~ r.scalar /\ r.warm
  /\ r.size \in StandardSizes
  /\ r.socket = config.selected_socket

\* The results that may be submitted.  The test of one precision, which is FP32, is
\* submitted under the name of the mode asked for.
ResultInv ==
  /\ pc = "full_precision" => Standard(results[1]) /\ results[1].test = "compute"
  /\ pc = "consent" =>
       \/ /\ results = <<results[1]>> /\ Standard(results[1])
          /\ results[1].test \in {"compute", "cache", "precision_all", "precision_single"}
          /\ results[1].test = "cache" => config.mode = "cache"
          /\ results[1].test = "precision_single" =>
               config.mode \notin {"compute", "cache"} /\ results[1].precision = "float"
       \/ /\ results = <<results[1], results[2]>>
          /\ Standard(results[1]) /\ results[1].test = "compute"
          /\ Standard(results[2]) /\ results[2].test = "precision_all"

StandardInv == ConfigInv /\ StageInv /\ ResultInv /\ SubmittedIsStandard

LEMMA StandardStarts == Init => StandardInv
<1> SUFFICES ASSUME Init PROVE StandardInv
  OBVIOUS
<1> USE DEF Init, CliInit, SubmissionInit
<1>1. ConfigInv
  BY DEF ConfigInv, DefaultConfig, Modes, StandardSizes
<1>2. StageInv
  BY DEF StageInv, FullTest, DefaultConfig
<1>3. ResultInv /\ SubmittedIsStandard
  BY DEF ResultInv, SubmittedIsStandard
<1> QED BY <1>1, <1>2, <1>3 DEF StandardInv

\* The settings that the parser changes.
LEMMA ParseConfig ==
  ASSUME ConfigInv, ParseArgs
  PROVE  ConfigInv'
<1> USE DEF ConfigInv, Neutral, NotNeutral, Accept, Stop, ReadArg, DefaultConfig
<1> DEFINE Fields == DOMAIN DefaultConfig
           Others(S) == \A f \in Fields \ S : config'[f] = config[f]
           IsRecord == config' = [f \in Fields |-> config'[f]]
<1>1. CASE ParseHelpOrVersion \/ ParseRejected
  BY <1>1 DEF ParseHelpOrVersion, ParseRejected
<1>2. CASE ParseFlag
  BY <1>2 DEF ParseFlag
<1>3. CASE ParseSocket
  BY <1>3 DEF ParseSocket
<1>4. CASE ParseMode
  BY <1>4 DEF ParseMode
<1>5. CASE ParseSize
  <2>1. PICK t \in SizeArgs :
          /\ config' = [config EXCEPT !.size = t, !.explicit_size_set = TRUE]
          /\ onlyNeutral' = FALSE
    BY <1>5 DEF ParseSize
  <2>2. IsRecord /\ config'.explicit_size_set = TRUE
    BY <2>1
  <2>3. Others({"size", "explicit_size_set"})
    BY <2>1
  <2> QED BY <2>1, <2>2, <2>3
<1>6. CASE ParseThreads
  <2>1. PICK n \in ThreadArgs :
          /\ config' = [config EXCEPT !.threads = n % UnsignedMod, !.threads_modified = TRUE]
          /\ onlyNeutral' = FALSE
    BY <1>6 DEF ParseThreads
  <2>2. IsRecord /\ config'.threads_modified = TRUE
    BY <2>1
  <2>3. Others({"threads", "threads_modified"})
    BY <2>1
  <2> QED BY <2>1, <2>2, <2>3
<1>7. CASE ParseTime
  <2>1. PICK t \in TimeArgs :
          /\ config' = [config EXCEPT !.min_time = t, !.time_modified = TRUE]
          /\ onlyNeutral' = FALSE
    BY <1>7 DEF ParseTime
  <2>2. IsRecord /\ config'.time_modified = TRUE
    BY <2>1
  <2>3. Others({"min_time", "time_modified"})
    BY <2>1
  <2> QED BY <2>1, <2>2, <2>3
<1>8. CASE ParsePrecision
  <2>1. PICK p \in PrecisionArgs \cup {"fp64"}, all \in BOOLEAN :
          /\ config' = [config EXCEPT !.run_all_precisions = all, !.precision = p,
                                      !.precision_single_modified = ~ all]
          /\ onlyNeutral' = FALSE
    BY <1>8 DEF ParsePrecision
  <2>2. /\ IsRecord /\ config'.precision = p /\ config'.run_all_precisions = all
        /\ config'.precision_single_modified = ~ all
    BY <2>1
  <2>3. Others({"run_all_precisions", "precision", "precision_single_modified"})
    BY <2>1
  <2> QED BY <2>1, <2>2, <2>3
<1>9. CASE ParseRepeats
  <2>1. PICK n \in RepeatArgs :
          /\ config' = [config EXCEPT !.repeats = n % UnsignedMod, !.repeats_modified = TRUE]
          /\ onlyNeutral' = FALSE
    BY <1>9 DEF ParseRepeats
  <2>2. IsRecord /\ config'.repeats_modified = TRUE
    BY <2>1
  <2>3. Others({"repeats", "repeats_modified"})
    BY <2>1
  <2> QED BY <2>1, <2>2, <2>3
<1>10. CASE ParseOutput
  BY <1>10 DEF ParseOutput
<1>11. CASE EndOfArgs
  BY <1>11 DEF EndOfArgs
<1> QED BY <1>1, <1>2, <1>3, <1>4, <1>5, <1>6, <1>7, <1>8, <1>9, <1>10, <1>11 DEF ParseArgs

LEMMA ParseStandard ==
  ASSUME StandardInv, Parse
  PROVE  StandardInv'
<1>1. ConfigInv'
  BY ParseConfig DEF StandardInv, Parse
<1>2. StageInv'
  <2> USE DEF StandardInv, ConfigInv, StageInv, FullTest, Parse, DefaultConfig, flowVars
  <2>1. CASE EndOfArgs
    BY <2>1 DEF EndOfArgs, Leave
  <2>2. CASE ~ EndOfArgs
    <3>1. /\ pc = "parse" /\ config'.run_full_test = config.run_full_test
          /\ pc' \in {"parse", "exited"} /\ onlyNeutral' \in BOOLEAN
      BY <2>2 DEF ParseArgs, ParseHelpOrVersion, ParseRejected, ParseFlag, ParseSocket, ParseMode,
        ParseSize, ParseThreads, ParseTime, ParsePrecision, ParseRepeats, ParseOutput, Neutral,
        NotNeutral, Accept, Stop, ReadArg, Leave
    <3> QED BY <3>1
  <2> QED BY <2>1, <2>2
<1>3. pc' \notin {"full_precision", "consent"} /\ payloads' = payloads /\ results' = results
  BY DEF Parse, ParseArgs, ParseHelpOrVersion, ParseRejected, ParseFlag, ParseSocket, ParseMode,
    ParseSize, ParseThreads, ParseTime, ParsePrecision, ParseRepeats, ParseOutput, EndOfArgs,
    Neutral, NotNeutral, Accept, Stop, ReadArg, Leave, flowVars
<1>4. ResultInv' /\ SubmittedIsStandard'
  BY <1>3 DEF StandardInv, ResultInv, SubmittedIsStandard
<1> QED BY <1>1, <1>2, <1>4 DEF StandardInv

\* The automatic size is one of the standard sizes.
LEMMA AutoSizeIsStandard ==
  ASSUME NEW p \in PrecisionArgs \cup {"float", "fp64"}, NEW m \in MemoryReadings \ {0}
  PROVE  AutoSize(p, m) \in StandardSizes
BY DEF StandardSizes

LEMMA SizedConfig ==
  ASSUME ConfigInv, onlyNeutral' = onlyNeutral, NEW t \in StandardSizes,
         config' = [config EXCEPT !.size = t]
  PROVE  /\ ConfigInv' /\ config'.run_full_test = config.run_full_test
         /\ config'.force_scalar = config.force_scalar
<1> USE DEF ConfigInv, DefaultConfig
<1> DEFINE Fields == DOMAIN DefaultConfig
<1>1. config' = [f \in Fields |-> config'[f]] /\ config'.size = t
  OBVIOUS
<1>2. \A f \in Fields \ {"size"} : config'[f] = config[f]
  OBVIOUS
<1> QED BY <1>1, <1>2

\* The steps up to the test, and the way out of it.
Preparing ==
  \/ Begin \/ FullConfirm \/ FullSetUp \/ SetUp \/ WarmUp \/ CheckMemory \/ TestFails \/ SubmitEnds

LEMMA PreparesConfig ==
  ASSUME StandardInv, Preparing
  PROVE  /\ ConfigInv' /\ config'.run_full_test = config.run_full_test
         /\ config'.force_scalar = config.force_scalar /\ onlyNeutral' = onlyNeutral
<1> USE DEF StandardInv, At, GoTo, LeaveMain, Leave
<1>1. onlyNeutral' = onlyNeutral
  BY DEF Preparing, Begin, FullConfirm, FullSetUp, SetUp, WarmUp, CheckMemory, TestFails, SubmitEnds
<1>2. CASE config' = config
  BY <1>1, <1>2 DEF ConfigInv
<1>3. CASE FullSetUp
  <2>1. config' = config \/ \E m \in MemoryReadings \ {0} :
          config' = [config EXCEPT !.size = AutoSize("float", m)]
    BY <1>3 DEF FullSetUp
  <2> QED BY <2>1, <1>1, <1>2, AutoSizeIsStandard, SizedConfig
<1>4. CASE SetUp
  <2>1. config' = config \/ \E m \in MemoryReadings \ {0} :
          config' = [config EXCEPT !.size = AutoSize(config.precision, m)]
    BY <1>4 DEF SetUp
  <2>2. config.precision \in PrecisionArgs \cup {"float", "fp64"}
    BY DEF ConfigInv
  <2> QED BY <2>1, <2>2, <1>1, <1>2, AutoSizeIsStandard, SizedConfig
<1>5. CASE Begin \/ FullConfirm \/ WarmUp \/ CheckMemory \/ TestFails \/ SubmitEnds
  <2>1. config' = config
    BY <1>5 DEF Begin, FullConfirm, WarmUp, CheckMemory, TestFails, SubmitEnds
  <2> QED BY <2>1, <1>2
<1> QED BY <1>3, <1>4, <1>5 DEF Preparing

LEMMA PrepareStandard ==
  ASSUME StandardInv, Preparing
  PROVE  StandardInv'
<1> USE DEF At, GoTo, LeaveMain, Leave, flowVars
<1>0. /\ ConfigInv' /\ config'.run_full_test = config.run_full_test
      /\ config'.force_scalar = config.force_scalar /\ onlyNeutral' = onlyNeutral
  BY PreparesConfig
<1>1. /\ results' = results /\ payloads' = payloads
      /\ pc' \notin {"full_precision", "consent"}
  BY DEF Preparing, Begin, FullConfirm, FullSetUp, SetUp, WarmUp, CheckMemory, TestFails, SubmitEnds
<1>2. StageInv'
  <2> USE DEF StandardInv, StageInv, FullTest
  <2>1. CASE Begin
    BY <1>0, <2>1 DEF Begin
  <2>2. CASE FullConfirm
    <3>1. /\ pc = "confirm" /\ onlyNeutral = TRUE /\ config.run_full_test = onlyNeutral
          /\ scalar' = FALSE /\ payloads' = << >> /\ pc' \in {"full_set_up", "exited"}
      BY <2>2 DEF FullConfirm
    <3> QED BY <1>0, <3>1
  <2>3. CASE FullSetUp
    <3>1. /\ pc = "full_set_up" /\ onlyNeutral = TRUE /\ config.run_full_test = onlyNeutral
          /\ scalar' = FALSE /\ payloads' = << >>
          /\ (pc' = "full_compute" /\ warm' = TRUE) \/ pc' = "exited"
      BY <2>3 DEF FullSetUp
    <3> QED BY <1>0, <3>1
  <2>4. CASE SetUp
    BY <1>0, <2>4 DEF SetUp
  <2>5. CASE WarmUp
    BY <1>0, <2>5 DEF WarmUp
  <2>6. CASE CheckMemory
    BY <1>0, <2>6 DEF CheckMemory
  <2>7. CASE TestFails \/ SubmitEnds
    BY <1>0, <2>7 DEF TestFails, SubmitEnds
  <2> QED BY <2>1, <2>2, <2>3, <2>4, <2>5, <2>6, <2>7 DEF Preparing
<1>3. ResultInv' /\ SubmittedIsStandard'
  BY <1>1 DEF StandardInv, ResultInv, SubmittedIsStandard
<1> QED BY <1>0, <1>2, <1>3 DEF StandardInv

\* A test that was run with standard settings.
LEMMA MeasuredStandard ==
  ASSUME ConfigInv, config.threads_modified = FALSE, config.time_modified = FALSE,
         config.repeats_modified = FALSE, config.explicit_size_set = FALSE,
         warm = TRUE, scalar = FALSE, NEW test, NEW n, n = 0
  PROVE  /\ Standard(Measured(test, n)) /\ Measured(test, n).test = test
         /\ Measured(test, n).precision = config.precision
<1> DEFINE r == Measured(test, n)
<1>1. /\ r.threads = 0 /\ r.min_time = config.min_time /\ r.repeats = config.repeats
      /\ r.size = config.size /\ r.warm = TRUE /\ r.scalar = FALSE
      /\ r.socket = config.selected_socket /\ r.test = test /\ r.precision = config.precision
  BY DEF Measured
<1>2. config.min_time = 3 /\ config.repeats = 5 /\ config.size \in StandardSizes
  BY DEF ConfigInv
<1>3. Standard(r) /\ r.test = test /\ r.precision = config.precision
  <2> HIDE DEF r
  <2> QED BY <1>1, <1>2 DEF Standard
<1> QED BY <1>3

LEMMA TestConfig ==
  ASSUME StandardInv, FullCompute \/ FullPrecision \/ RunTest \/ Consent
  PROVE  ConfigInv' /\ config' = config /\ onlyNeutral' = onlyNeutral
BY DEF StandardInv, ConfigInv, FullCompute, FullPrecision, RunTest, Consent, At, GoTo, LeaveMain,
  flowVars

LEMMA FullComputeStandard ==
  ASSUME SubmitInv, StandardInv, FullCompute
  PROVE  StandardInv'
<1>1. ConfigInv' /\ config' = config /\ onlyNeutral' = onlyNeutral
  BY TestConfig
<1>2. /\ pc = "full_compute" /\ pc' = "full_precision" /\ warm = TRUE /\ scalar = FALSE
      /\ warm' = warm /\ scalar' = scalar /\ payloads' = << >> /\ onlyNeutral = TRUE
      /\ config.run_full_test = onlyNeutral
  BY DEF FullCompute, At, GoTo, StandardInv, StageInv, FullTest
<1>3. StageInv'
  BY <1>1, <1>2 DEF StageInv, FullTest
<1>4. results = << >> /\ results' = Append(results, Measured("compute", 0))
  BY <1>2 DEF FullCompute, TestEnds, SubmitInv, FlowInv, Early
<1>5. results' = <<Measured("compute", 0)>>
  BY <1>4, OneResult
<1>6. Standard(results'[1]) /\ results'[1].test = "compute"
  <2>1. ConfigInv /\ config.threads_modified = FALSE /\ config.time_modified = FALSE
        /\ config.repeats_modified = FALSE /\ config.explicit_size_set = FALSE
    BY <1>2 DEF StandardInv, ConfigInv, DefaultConfig
  <2>2. Standard(Measured("compute", 0)) /\ Measured("compute", 0).test = "compute"
    BY <1>2, <2>1, MeasuredStandard
  <2> QED BY <1>5, <2>2
<1>7. ResultInv' /\ SubmittedIsStandard'
  BY <1>1, <1>2, <1>6 DEF ResultInv, SubmittedIsStandard, Standard
<1> QED BY <1>1, <1>3, <1>7 DEF StandardInv

LEMMA FullPrecisionStandard ==
  ASSUME SubmitInv, StandardInv, FullPrecision
  PROVE  StandardInv'
<1> DEFINE r == Measured("precision_all", config.threads)
<1>1. ConfigInv' /\ config' = config /\ onlyNeutral' = onlyNeutral
  BY TestConfig
<1>2. /\ pc = "full_precision" /\ pc' = "consent" /\ warm = TRUE /\ scalar = FALSE
      /\ payloads' = << >> /\ onlyNeutral = TRUE /\ config.run_full_test = onlyNeutral
  BY DEF FullPrecision, At, GoTo, StandardInv, StageInv, FullTest
<1>3. StageInv'
  BY <1>1, <1>2 DEF StageInv, FullTest
<1>4. results = <<results[1]>> /\ results' = Append(results, r)
  BY <1>2 DEF FullPrecision, TestEnds, SubmitInv, FlowInv
<1>5. results' = <<results[1], r>>
  <2> HIDE DEF r
  <2> QED BY <1>4, OneResult
<1>6. Standard(r) /\ r.test = "precision_all"
  <2>1. ConfigInv /\ config.threads_modified = FALSE /\ config.time_modified = FALSE
        /\ config.repeats_modified = FALSE /\ config.explicit_size_set = FALSE
    BY <1>2 DEF StandardInv, ConfigInv, DefaultConfig
  <2>2. config.threads = 0
    BY <2>1 DEF ConfigInv
  <2> QED BY <1>2, <2>1, <2>2, MeasuredStandard
<1>7. Standard(results[1]) /\ results[1].test = "compute"
  BY <1>2 DEF StandardInv, ResultInv
<1>8. ResultInv' /\ SubmittedIsStandard'
  <2> HIDE DEF r
  <2>1. /\ results' = <<results'[1], results'[2]>>
        /\ results'[1] = results[1] /\ results'[2] = r
    BY <1>5
  <2> QED BY <1>1, <1>2, <1>6, <1>7, <2>1 DEF ResultInv, SubmittedIsStandard, Standard
<1> QED BY <1>1, <1>3, <1>8 DEF StandardInv

LEMMA RunTestStandard ==
  ASSUME SubmitInv, StandardInv, RunTest
  PROVE  StandardInv'
<1> DEFINE r == Measured(SelectedTest, config.threads)
<1>1. ConfigInv' /\ config' = config /\ onlyNeutral' = onlyNeutral
  BY TestConfig
<1>2. /\ pc = "test" /\ payloads' = << >> /\ warm = config.enable_warmup
      /\ scalar = config.force_scalar /\ config.run_full_test = onlyNeutral /\ ~ onlyNeutral
      /\ pc' \in {"consent", "exited"} /\ (pc' = "consent" => Offered)
      /\ warm' = warm /\ scalar' = scalar
  BY DEF RunTest, At, GoTo, Leave, StandardInv, StageInv, FullTest
<1>3. StageInv'
  BY <1>1, <1>2 DEF StandardInv, StageInv, FullTest
<1>4. results = << >> /\ results' = Append(results, r)
  BY <1>2 DEF RunTest, TestEnds, SubmitInv, FlowInv, Early
<1>5. results' = <<r>>
  <2> HIDE DEF r
  <2> QED BY <1>4, OneResult
<1>6. ASSUME pc' = "consent"
      PROVE  /\ Standard(r) /\ r.test = SelectedTest
             /\ SelectedTest = "precision_single" => r.precision = "float"
  <2>1. is_submission_eligible(config)
    BY <1>2, <1>6 DEF Offered
  <2>2. /\ config.threads_modified = FALSE /\ config.time_modified = FALSE
        /\ config.repeats_modified = FALSE /\ config.explicit_size_set = FALSE
        /\ config.force_scalar = FALSE /\ config.enable_warmup = TRUE /\ config.threads = 0
    BY <2>1 DEF is_submission_eligible, StandardInv, ConfigInv, DefaultConfig
  <2>3. ~ config.precision_single_modified
    BY <1>2, <2>1 DEF is_submission_eligible
  <2>4. SelectedTest = "precision_single" => config.precision = "float"
    BY <2>3 DEF SelectedTest, StandardInv, ConfigInv
  <2>5. Standard(r) /\ r.test = SelectedTest /\ r.precision = config.precision
    BY <1>2, <2>2, MeasuredStandard DEF StandardInv
  <2> QED BY <2>4, <2>5
<1>7. /\ SelectedTest \in {"compute", "cache", "precision_all", "precision_single"}
      /\ SelectedTest = "cache" => config.mode = "cache"
      /\ SelectedTest = "precision_single" => config.mode \notin {"compute", "cache"}
  BY DEF SelectedTest
<1>8. ResultInv' /\ SubmittedIsStandard'
  <2> HIDE DEF r
  <2>1. results' = <<results'[1]>> /\ results'[1] = r
    BY <1>5
  <2>2. SubmittedIsStandard'
    BY <1>2 DEF SubmittedIsStandard
  <2>3. CASE pc' = "exited"
    BY <2>2, <2>3 DEF ResultInv
  <2>4. CASE pc' = "consent"
    <3>1. /\ Standard(results'[1]) /\ results'[1].test = SelectedTest
          /\ SelectedTest = "precision_single" => results'[1].precision = "float"
      BY <2>1, <2>4, <1>6
    <3> QED BY <1>1, <1>7, <2>1, <2>2, <2>4, <3>1 DEF ResultInv, Standard
  <2> QED BY <1>2, <2>3, <2>4
<1> QED BY <1>1, <1>3, <1>8 DEF StandardInv

\* What is said of a result when it is submitted.
Fits(p, r) ==
  /\ Standard(r) /\ p.socket = config.selected_socket
  /\ IF r.test = "precision_single"
     THEN p.mode \in {"mem", "stencil", "matmul3d"} /\ r.precision = "float"
     ELSE p.mode = r.test

LEMMA PayloadFits ==
  ASSUME config.mode \in Modes, NEW i, Standard(results[i]),
         results[i].test \in {"compute", "cache", "precision_all", "precision_single"},
         results[i].test = "cache" => config.mode = "cache",
         results[i].test = "precision_single" =>
           config.mode \notin {"compute", "cache"} /\ results[i].precision = "float"
  PROVE  /\ Fits(PayloadFor(i), results[i]) /\ PayloadFor(i).result = i
         /\ results[i].test = "compute" => PayloadFor(i).mode = "compute"
         /\ results[i].test = "precision_all" => PayloadFor(i).mode = "precision_all"
<1> USE DEF PayloadFor, ComputePayload, PrecisionAllPayload, ModePayload, Payload, Modes, Fits
<1>1. CASE results[i].test = "compute"
  BY <1>1
<1>2. CASE results[i].test = "precision_all"
  BY <1>2
<1>3. CASE results[i].test = "cache"
  BY <1>3
<1>4. CASE results[i].test = "precision_single"
  BY <1>4
<1> QED BY <1>1, <1>2, <1>3, <1>4

LEMMA ConsentStandard ==
  ASSUME SubmitInv, StandardInv, Consent
  PROVE  StandardInv'
<1>1. ConfigInv' /\ config' = config /\ onlyNeutral' = onlyNeutral
  BY TestConfig
<1>2. /\ pc = "consent" /\ pc' \in {"submit", "exited"} /\ results' = results
      /\ config.run_full_test = onlyNeutral
      /\ payloads' = [i \in DOMAIN results |-> PayloadFor(i)] \/ payloads' = << >>
  BY DEF Consent, At, GoTo, LeaveMain, Leave, StandardInv, StageInv, FullTest, flowVars
<1>3. StageInv' /\ ResultInv'
  BY <1>1, <1>2 DEF StandardInv, StageInv, ResultInv, FullTest
<1>4. SubmittedIsStandard'
  <2>1. CASE payloads' = << >>
    BY <2>1 DEF SubmittedIsStandard
  <2>2. CASE payloads' = [i \in DOMAIN results |-> PayloadFor(i)]
    <3>1. /\ DOMAIN results \in {{1}, {1, 2}} /\ config.mode \in Modes
          /\ \A i \in DOMAIN results :
               /\ Standard(results[i])
               /\ results[i].test \in {"compute", "cache", "precision_all", "precision_single"}
               /\ results[i].test = "cache" => config.mode = "cache"
               /\ results[i].test = "precision_single" =>
                    config.mode \notin {"compute", "cache"} /\ results[i].precision = "float"
          /\ 2 \in DOMAIN results =>
               results[1].test = "compute" /\ results[2].test = "precision_all"
      BY <1>2 DEF StandardInv, ResultInv, ConfigInv
    <3>2. \A i \in DOMAIN results :
            Fits(PayloadFor(i), results[i]) /\ PayloadFor(i).result = i
      BY <3>1, PayloadFits
    <3>3. 2 \in DOMAIN results => PayloadFor(1).mode # PayloadFor(2).mode
      BY <3>1, PayloadFits
    <3>4. /\ DOMAIN payloads' = DOMAIN results
          /\ \A i \in DOMAIN results : payloads'[i] = PayloadFor(i)
      BY <2>2
    <3>5. ASSUME NEW i \in DOMAIN payloads', NEW j \in 1 .. i - 1
          PROVE  payloads'[j].mode # payloads'[i].mode
      <4>1. i = 2 /\ j = 1 /\ DOMAIN results = {1, 2}
        BY <3>1, <3>4, <3>5
      <4> QED BY <4>1, <3>3, <3>4
    <3>6. \A i \in DOMAIN payloads' : Fits(payloads'[i], results[i]) /\ payloads'[i].result = i
      BY <3>2, <3>4
    <3> QED BY <1>2, <3>5, <3>6 DEF SubmittedIsStandard, Fits, Standard
  <2> QED BY <1>2, <2>1, <2>2
<1> QED BY <1>1, <1>3, <1>4 DEF StandardInv

LEMMA StandardStays ==
  ASSUME StandardInv, UNCHANGED <<cliVars, flowVars>>
  PROVE  StandardInv'
<1> USE DEF cliVars, flowVars
<1>1. ConfigInv' /\ StageInv'
  BY DEF StandardInv, ConfigInv, StageInv
<1>2. ResultInv' /\ SubmittedIsStandard'
  BY DEF StandardInv, ResultInv, SubmittedIsStandard, Standard
<1> QED BY <1>1, <1>2 DEF StandardInv

LEMMA SubmittingStandard ==
  ASSUME StandardInv, SubmitReturns
  PROVE  StandardInv'
<1>1. /\ pc = "submit" /\ pc' = pc
      /\ UNCHANGED <<config, onlyNeutral, scalar, warm, results, payloads>>
  BY DEF SubmitReturns, cliVars
<1>2. ConfigInv' /\ StageInv'
  BY <1>1 DEF StandardInv, ConfigInv, StageInv, FullTest
<1>3. ResultInv' /\ SubmittedIsStandard'
  BY <1>1 DEF StandardInv, ResultInv, SubmittedIsStandard
<1> QED BY <1>2, <1>3 DEF StandardInv

LEMMA StandardStep == SubmitInv /\ StandardInv /\ [Next]_vars => StandardInv'
<1> SUFFICES ASSUME SubmitInv, StandardInv, [Next]_vars
             PROVE  StandardInv'
  OBVIOUS
<1>1. CASE Parse
  BY <1>1, ParseStandard
<1>2. CASE Preparing
  BY <1>2, PrepareStandard
<1>3. CASE FullCompute
  BY <1>3, FullComputeStandard
<1>4. CASE FullPrecision
  BY <1>4, FullPrecisionStandard
<1>5. CASE RunTest
  BY <1>5, RunTestStandard
<1>6. CASE Consent
  BY <1>6, ConsentStandard
<1>7. CASE SubmitReturns
  BY <1>7, SubmittingStandard
<1>8. CASE SubmitNext \/ HttpPost \/ ServerStep \/ UNCHANGED vars
  <2>1. UNCHANGED <<cliVars, flowVars>>
    BY <1>8 DEF SubmitNext, HttpPost, ServerStep, vars
  <2> QED BY <2>1, StandardStays
<1> QED BY <1>1, <1>2, <1>3, <1>4, <1>5, <1>6, <1>7, <1>8 DEF Next, Main, Preparing, Exited

\* Whatever the arguments, what is submitted was measured with standard settings on a warm
\* CPU and names its socket; it is the compute test, the cache test or the test of all
\* precisions under its own name, or the compute-bound test of FP32 under the name of mem,
\* stencil or matmul3d (cli.hpp:254-294, main.cpp:509-540, 687-869).
THEOREM ResultsAreStandard == Spec => []SubmittedIsStandard
<1>1. SubmittedIsStandard \/ ~ StandardInv
  BY DEF StandardInv
<1> QED BY <1>1, StandardStarts, StandardStep, SubmissionInvariant, PTL DEF Spec

-----------------------------------------------------------------------------
(* What is accepted fits.                                                    *)

\* The largest of numbers that are bounded exists.
LEMMA LargestExists ==
  ASSUME NEW N \in Nat, NEW S \in SUBSET (0 .. N), S # {}
  PROVE  Max(S) \in S /\ \A y \in S : Max(S) >= y
<1> DEFINE T == {N - x : x \in S}
<1>1. T \in SUBSET Nat /\ T # {}
  <2>1. \A x \in S : N - x \in Nat
    OBVIOUS
  <2>2. PICK x : x \in S
    OBVIOUS
  <2>3. N - x \in T
    BY <2>2
  <2> QED BY <2>1, <2>3
<1>2. \E t \in T : \A u \in T : t <= u
  <2> HIDE DEF T
  <2> QED BY <1>1, LeastElement
<1>4. PICK t \in T : \A u \in T : t <= u
  BY <1>2
<1>5. PICK x \in S : t = N - x
  OBVIOUS
<1>6. ASSUME NEW y \in S PROVE x >= y
  <2>1. N - y \in T /\ N - y \in Nat /\ t \in Nat /\ x \in Nat /\ y \in Nat
    BY <1>5
  <2>2. ~ (N - y < t)
    BY <2>1, <1>4
  <2> QED BY <2>1, <2>2, <1>5
<1> QED BY <1>6 DEF Max

\* The automatic size is a cube, of 4 at least.
LEMMA AutoSizeIsCube ==
  ASSUME NEW p, NEW m
  PROVE  \E d \in 4 .. MaxDim : AutoSize(p, m) = <<d, d, d>>
<1>1. ASSUME NEW total PROVE CubicDimension(total) \in 4 .. MaxDim
  <2> DEFINE S == {4} \cup {d \in 1 .. MaxDim : d * d * d <= total}
  <2>1. S \in SUBSET (0 .. MaxDim) /\ 4 \in S /\ MaxDim \in Nat
    BY SizesAssumption
  <2>2. Max(S) \in S /\ \A y \in S : Max(S) >= y
    <3> HIDE DEF S
    <3> QED BY <2>1, LargestExists
  <2>3. Max(S) >= 4 /\ Max(S) \in 0 .. MaxDim
    <3> HIDE DEF S
    <3> QED BY <2>1, <2>2
  <2> QED BY <2>1, <2>3 DEF CubicDimension
<1> QED BY <1>1 DEF AutoSize

LEMMA QuotientBound ==
  ASSUME NEW x \in Nat \ {0}, NEW y \in Nat, NEW n \in Nat, ~ (y > n \div x)
  PROVE  x * y <= n
<1>1. n \div x \in Nat /\ x * (n \div x) <= n
  <2>1. n = x * (n \div x) + (n % x) /\ n % x \in 0 .. x - 1 /\ n \div x \in Int
    OBVIOUS
  <2> QED BY <2>1
<1> DEFINE q == n \div x
<1>2. q \in Nat /\ y <= q
  BY <1>1
<1> HIDE DEF q
<1>3. x * y <= x * q
  BY <1>2
<1> QED BY <1>1, <1>2, <1>3 DEF q

Precisions == {"float", "double", "fp64", "fp16", "int8", "fp4"}

\* An accepted size: the tests have found no product that a size_t does not hold.
LEMMA VolumeIsExact ==
  ASSUME NEW s \in Nat \X Nat \X Nat, 0 \notin {s[1], s[2], s[3]}, ~ TotalOverflows(s)
  PROVE  /\ Volume(s) \in Nat \ {0} /\ Total(s) = Volume(s)
         /\ Volume(s) <= SizeMax
<1> DEFINE a == s[1] b == s[2] c == s[3]
<1>1. a \in Nat \ {0} /\ b \in Nat \ {0} /\ c \in Nat \ {0} /\ SizeMax \in Nat
  BY SizesAssumption
<1> HIDE DEF a, b, c
<1>2. ~ (b > SizeMax \div a) /\ ~ (c > SizeMax \div Wrap(a * b))
  BY DEF TotalOverflows, ProductOverflows, a, b, c
<1>3. a * b \in Nat \ {0} /\ a * b <= SizeMax
  BY <1>1, <1>2, QuotientBound
<1>4. \A n \in Nat : n <= SizeMax => Wrap(n) = n
  BY <1>1 DEF Wrap
<1>5. Wrap(a * b) = a * b
  BY <1>3, <1>4
<1> DEFINE ab == a * b
<1>6. ab \in Nat \ {0} /\ ~ (c > SizeMax \div ab)
  BY <1>2, <1>3, <1>5
<1>7. ab * c \in Nat \ {0} /\ ab * c <= SizeMax
  <2> HIDE DEF ab
  <2> QED BY <1>1, <1>6, QuotientBound
<1> QED BY <1>4, <1>5, <1>7 DEF Volume, Total, a, b, c

\* What passes the tests of the memory check is counted exactly (memory_validator.cpp:46-69).
LEMMA BytesAreExact ==
  ASSUME NEW s \in Nat \X Nat \X Nat, 0 \notin {s[1], s[2], s[3]},
         NEW p \in Precisions, ~ RequiredOverflows(s, p)
  PROVE  /\ RequiredBytes(s, p) \in Nat
         /\ NumArrays * Volume(s) * HalfBytes(p) <= 2 * RequiredBytes(s, p)
<1> DEFINE v == Volume(s)
           t == TotalBytes(s, p)
           h == HalfBytes(p)
<1>1. /\ v \in Nat \ {0} /\ v <= SizeMax /\ Total(s) = v /\ SizeMax \in Nat \ {0}
  BY VolumeIsExact, SizesAssumption DEF RequiredOverflows
<1>2. \A n \in Nat : n <= SizeMax => Wrap(n) = n
  BY <1>1 DEF Wrap
<1>3. t \in Nat /\ 2 * t >= v * h /\ h \in Nat
  <2>1. CASE p = "fp4"
    <3>1. h = 1 /\ t = (v + 1) \div 2
      BY <2>1, <1>1 DEF HalfBytes, TotalBytes
    <3> HIDE DEF t, h, v
    <3> QED BY <3>1, <1>1
  <2>2. CASE p # "fp4"
    <3>1. PICK k \in {1, 2, 4, 8} : h = 2 * k
      BY <2>2 DEF HalfBytes, Precisions
    <3>2. h \div 2 = k /\ h \in Nat
      BY <3>1
    <3>3. ~ (v > SizeMax \div k) /\ t = Wrap(v * k)
      BY <3>2, <2>2, <1>1 DEF RequiredOverflows, BytesOverflow, TotalBytes
    <3> HIDE DEF t, h, v
    <3>4. k * v <= SizeMax
      BY <3>3, <1>1, QuotientBound
    <3>5. v * k \in Nat /\ v * k <= SizeMax
      BY <3>4, <1>1
    <3>6. t = v * k
      BY <3>3, <3>5, <1>2
    <3> QED BY <3>1, <3>2, <3>5, <3>6, <1>1
  <2> QED BY <2>1, <2>2
<1>4. RequiredBytes(s, p) = 3 * t
  <2>1. ~ (t > SizeMax \div 3)
    BY DEF RequiredOverflows, NumArrays
  <2> HIDE DEF t
  <2>2. 3 * t \in Nat /\ 3 * t <= SizeMax
    BY <1>1, <1>3, <2>1
  <2> QED BY <2>2, <1>2 DEF RequiredBytes, NumArrays, t
<1>5. 3 * v * h <= 2 * (3 * t)
  <2> HIDE DEF t, h, v
  <2>1. PICK w \in Int : w = v * h
    BY <1>1, <1>3
  <2>2. 3 * v * h = 3 * w
    BY <2>1, <1>1, <1>3
  <2> QED BY <2>1, <2>2, <1>3
<1> QED BY <1>3, <1>4, <1>5 DEF NumArrays

-----------------------------------------------------------------------------
Checked == {"start", "confirm", "full_set_up", "set_up", "warm_up", "memory", "test"}

\* A size that suits the mode, with no dimension of 0.
Suits(c) ==
  /\ 0 \notin {c.size[1], c.size[2], c.size[3]}
  /\ c.mode = "stencil" => \A d \in 1 .. 3 : c.size[d] >= 3
  /\ c.mode = "matmul3d" => c.size[1] = c.size[2]

SizeInv ==
  /\ config.size \in Nat \X Nat \X Nat
  /\ pc \in Checked => Suits(config)
  /\ pc = "test" =>
       /\ ~ RequiredOverflows(config.size, CheckedPrecision)
       /\ free \in Nat
       /\ Sufficient(config.size, CheckedPrecision, free)

LEMMA SizesStart == Init => SizeInv
BY SizesAssumption DEF Init, CliInit, SizeInv, DefaultConfig, Checked

LEMMA ParsedSize ==
  ASSUME ConfigInv, SizeInv, Parse
  PROVE  SizeInv'
<1> USE DEF SizeInv, ConfigInv, DefaultConfig, Checked, Neutral, NotNeutral, Accept, Stop,
  ReadArg, Leave
<1>1. CASE EndOfArgs
  <2>1. config'.size = config.size /\ config'.mode = config.mode
    BY <1>1 DEF EndOfArgs
  <2>2. pc' = "exited" \/ (pc' = "start" /\ SizeValid(config))
    BY <1>1 DEF EndOfArgs, Valid
  <2> QED BY <2>1, <2>2 DEF Suits, SizeValid
<1>2. CASE ParseSize
  <2>1. PICK t \in SizeArgs : config' = [config EXCEPT !.size = t, !.explicit_size_set = TRUE]
    BY <1>2 DEF ParseSize
  <2>2. config'.size = t /\ t \in Nat \X Nat \X Nat /\ pc' = "parse"
    BY <1>2, <2>1, CommandLineAssumption DEF ParseSize
  <2> QED BY <2>2
<1>3. CASE ~ EndOfArgs /\ ~ ParseSize
  <2>1. config'.size = config.size
    BY <1>3 DEF Parse, ParseArgs, ParseHelpOrVersion, ParseRejected, ParseFlag, ParseSocket,
      ParseMode, ParseThreads, ParseTime, ParsePrecision, ParseRepeats, ParseOutput
  <2>2. pc' \in {"parse", "exited"}
    BY <1>3 DEF Parse, ParseArgs, ParseHelpOrVersion, ParseRejected, ParseFlag, ParseSocket,
      ParseMode, ParseThreads, ParseTime, ParsePrecision, ParseRepeats, ParseOutput
  <2> QED BY <2>1, <2>2
<1> QED BY <1>1, <1>2, <1>3

LEMMA AutomaticSize ==
  ASSUME ConfigInv, NEW p, NEW m, config' = [config EXCEPT !.size = AutoSize(p, m)]
  PROVE  config'.size \in Nat \X Nat \X Nat /\ Suits(config')
<1>1. PICK d \in 4 .. MaxDim : AutoSize(p, m) = <<d, d, d>>
  BY AutoSizeIsCube
<1>2. d \in Nat /\ d >= 4
  BY <1>1, SizesAssumption
<1>3. config'.size = <<d, d, d>>
  BY <1>1 DEF ConfigInv, DefaultConfig
<1> QED BY <1>2, <1>3 DEF Suits

LEMMA PreparedSize ==
  ASSUME ConfigInv, SizeInv, Preparing
  PROVE  SizeInv'
<1> USE DEF At, GoTo, LeaveMain, Leave, Checked
<1>1. CASE FullSetUp
  <2>1. pc' \in {"full_compute", "exited"}
    BY <1>1 DEF FullSetUp
  <2>2. config' = config \/ \E m \in MemoryReadings \ {0} :
          config' = [config EXCEPT !.size = AutoSize("float", m)]
    BY <1>1 DEF FullSetUp
  <2>3. config'.size \in Nat \X Nat \X Nat
    BY <2>2, AutomaticSize DEF SizeInv
  <2> QED BY <2>1, <2>3 DEF SizeInv
<1>2. CASE SetUp
  <2>1. pc = "set_up" /\ pc' \in {"warm_up", "exited"}
    BY <1>2 DEF SetUp
  <2>2. config' = config \/ \E m \in MemoryReadings \ {0} :
          config' = [config EXCEPT !.size = AutoSize(config.precision, m)]
    BY <1>2 DEF SetUp
  <2>3. config'.size \in Nat \X Nat \X Nat /\ Suits(config')
    BY <2>1, <2>2, AutomaticSize DEF SizeInv
  <2> QED BY <2>1, <2>3 DEF SizeInv
<1>3. CASE CheckMemory
  <2>1. pc = "memory" /\ config' = config
    BY <1>3 DEF CheckMemory
  <2>2. ASSUME pc' = "test"
        PROVE  /\ ~ RequiredOverflows(config.size, CheckedPrecision)
               /\ free' \in Nat /\ Sufficient(config.size, CheckedPrecision, free')
    BY <1>3, <2>2, MainFlowAssumption, SizesAssumption DEF CheckMemory
  <2>3. CheckedPrecision' = CheckedPrecision
    BY <2>1 DEF CheckedPrecision
  <2> QED BY <2>1, <2>2, <2>3 DEF SizeInv
<1>4. CASE Begin \/ FullConfirm \/ WarmUp \/ TestFails \/ SubmitEnds
  <2>1. config' = config /\ pc' # "test" /\ (pc' \in Checked => pc \in Checked)
    BY <1>4 DEF Begin, FullConfirm, WarmUp, TestFails, SubmitEnds
  <2> QED BY <2>1 DEF SizeInv
<1> QED BY <1>1, <1>2, <1>3, <1>4 DEF Preparing

LEMMA SizeStep == ConfigInv /\ SizeInv /\ [Next]_vars => SizeInv'
<1> SUFFICES ASSUME ConfigInv, SizeInv, [Next]_vars
             PROVE  SizeInv'
  OBVIOUS
<1>1. CASE Parse
  BY <1>1, ParsedSize
<1>2. CASE Preparing
  BY <1>2, PreparedSize
<1>3. CASE FullCompute \/ FullPrecision \/ RunTest \/ Consent \/ SubmitReturns
  <2>1. config' = config /\ pc' \notin Checked
    BY <1>3 DEF FullCompute, FullPrecision, RunTest, Consent, SubmitReturns, At, GoTo, LeaveMain,
      Leave, Checked, cliVars
  <2> QED BY <2>1 DEF SizeInv, Checked
<1>4. CASE SubmitNext \/ HttpPost \/ ServerStep \/ UNCHANGED vars
  <2>1. UNCHANGED <<cliVars, flowVars>>
    BY <1>4 DEF SubmitNext, HttpPost, ServerStep, vars
  <2> QED BY <2>1 DEF SizeInv, cliVars, flowVars, CheckedPrecision
<1> QED BY <1>1, <1>2, <1>3, <1>4 DEF Next, Main, Preparing, Exited

\* A test of the command line runs only with a size that suits its mode and whose arrays fit
\* into the memory that was free, if it was known: none of the products that the checks
\* compare has wrapped, whatever the width of a size_t (main.cpp:544-625, cli.hpp:60-88,
\* memory_validator.cpp:46-69).
THEOREM AcceptedSizesFit == Spec => []AcceptedSizeFits
<1>1. ConfigInv /\ SizeInv => AcceptedSizeFits
  <2> SUFFICES ASSUME ConfigInv, SizeInv, pc = "test"
               PROVE  /\ free > 0 => NumArrays * Volume(config.size) * HalfBytes(CheckedPrecision)
                                       <= 2 * free
                      /\ Volume(config.size) > 0
                      /\ config.mode = "stencil" => \A d \in 1 .. 3 : config.size[d] >= 3
                      /\ config.mode = "matmul3d" => config.size[1] = config.size[2]
    BY DEF AcceptedSizeFits
  <2>1. Suits(config) /\ config.size \in Nat \X Nat \X Nat /\ free \in Nat
    BY DEF SizeInv, Checked
  <2>2. /\ ~ RequiredOverflows(config.size, CheckedPrecision)
        /\ free = 0 \/ free >= RequiredBytes(config.size, CheckedPrecision)
    BY DEF SizeInv, Sufficient
  <2>3. CheckedPrecision \in Precisions
    BY CommandLineAssumption DEF ConfigInv, CheckedPrecision, Precisions
  <2>4. 0 \notin {config.size[1], config.size[2], config.size[3]}
    BY <2>1 DEF Suits
  <2>5. Volume(config.size) \in Nat \ {0}
    BY <2>1, <2>2, <2>4, VolumeIsExact DEF RequiredOverflows
  <2>6. free > 0 => NumArrays * Volume(config.size) * HalfBytes(CheckedPrecision) <= 2 * free
    <3> DEFINE b == RequiredBytes(config.size, CheckedPrecision)
               w == NumArrays * Volume(config.size) * HalfBytes(CheckedPrecision)
    <3>1. b \in Nat /\ w <= 2 * b
      BY <2>1, <2>2, <2>3, <2>4, BytesAreExact
    <3>2. free = 0 \/ free >= b
      BY <2>2
    <3>3. w \in Nat
      BY <2>3, <2>5 DEF NumArrays, HalfBytes, Precisions
    <3>4. free > 0 => w <= 2 * free
      <4> HIDE DEF b, w
      <4> QED BY <3>1, <3>2, <3>3, <2>1
    <3> QED BY <3>4
  <2> QED BY <2>1, <2>5, <2>6 DEF Suits
<1>2. StandardInv => ConfigInv
  BY DEF StandardInv
<1> QED
  BY <1>1, <1>2, StandardStarts, StandardStep, SubmissionInvariant, SizesStart, SizeStep, PTL
  DEF Spec
=============================================================================
