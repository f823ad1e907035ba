-------------------------- MODULE ModelGatewayProofs --------------------------
(***************************************************************************)
(* The clients of the services.  The control of a completion, for any      *)
(* number of attempts, any lines and any Retry-After header: the attempts  *)
(* stay within their limit, and an answer is never asked for twice.  Then  *)
(* the JSON-RPC clients (RpcClients): no call is carried out twice, and an *)
(* answer is the one to the request that waits for it.                     *)
(***************************************************************************)
EXTENDS ModelGateway, RpcClients, SequenceTheorems, TLAPS

(* AnsweredOnce needs where the completion stands, and nothing more: while *)
(* an attempt is under way all the answers before it read like failures.   *)
GatewayInv == TypeOK /\ AnsweredOnce

LEMMA AttemptsPositive == max_attempts \in Nat \ {0}
  BY GatewayAssumption DEF max_attempts

LEMMA ErrorKind == \A text : Error(text).kind = "error"
  BY DEF Error, NoResp

(* An answer has text or calls, an error is nothing else. *)
Responds(r) == \/ r.kind = "error"
               \/ r.kind = "answer" /\ (r.content # <<>> \/ r.calls # <<>>)

LEMMA ErrorResponds == \A text : Responds(Error(text))
  BY ErrorKind DEF Responds

LEMMA AnswerResponds ==
    ASSUME NEW body \in {"lines", "error", "garbage"}
    PROVE  Responds(Answer(body))
<1>1. CASE ctx.content # <<>> \/ ctx.calls # <<>>
  BY <1>1 DEF Answer, Responds
<1>2. CASE ctx.content = <<>> /\ ctx.calls = <<>> /\ ctx.reasoning # <<>>
  BY <1>2 DEF Answer, Responds
<1>3. CASE ctx.content = <<>> /\ ctx.calls = <<>> /\ ctx.reasoning = <<>>
  <2>1. Answer(body) = Error(CASE body = "error" -> "API Error"
                              [] body = "garbage" /\ ~config.streaming -> "Error: Failed to parse"
                              [] OTHER -> "Empty response")
    BY <1>3 DEF Answer
  <2>2. QED
    BY <2>1, ErrorResponds
<1>4. QED
  BY <1>1, <1>2, <1>3

(* Whatever an attempt came to: the completion is over after an answer,    *)
(* unless the answer reads like a failure.                                 *)
LEMMA FinishStep ==
    ASSUME GatewayInv, pc = "recv", NEW r, Finish(r), Responds(r)
    PROVE  GatewayInv'
<1> USE DEF GatewayInv
<1>1. \A a \in answers : LooksFailed(a)
  BY DEF AnsweredOnce
<1>2. \A a \in answers' : LooksFailed(a) \/ (r.kind = "answer" /\ a = Gist(r))
  BY <1>1 DEF Finish
<1>3. CASE FailsOver(r)
  <2>1. r.kind = "answer" => LooksFailed(Gist(r))
    BY <1>3 DEF Responds, FailsOver, Failed, LooksFailed, Gist
  <2>2. AnsweredOnce'
    BY <1>2, <2>1 DEF AnsweredOnce
  <2>3. /\ pc' = "send" /\ endpoint' = "fallback" /\ resp' = NoResp /\ sent' = sent
        /\ attempt' = 0 /\ sleep_sec' = 1 /\ waited' = 0
    BY <1>3 DEF Finish
  <2>4. TypeOK'
    BY <2>3, AttemptsPositive DEF TypeOK, NoResp
  <2>5. QED
    BY <2>2, <2>4
<1>4. CASE ~FailsOver(r)
  <2>1. pc' = "done" /\ resp' = r /\ UNCHANGED <<endpoint, attempt, sleep_sec, waited, sent>>
    BY <1>4 DEF Finish
  <2>2. QED
    BY <1>2, <2>1 DEF TypeOK, AnsweredOnce, Responds
<1>5. QED
  BY <1>3, <1>4

LEMMA AgainStep ==
    ASSUME GatewayInv, pc = "recv", ~LastAttempt, NEW a \in Nat, NEW s \in Nat \ {0}, Again(a, s)
    PROVE  GatewayInv'
<1>1. attempt + 1 \in 0 .. max_attempts - 1
  BY AttemptsPositive DEF GatewayInv, TypeOK, LastAttempt
<1>2. QED
  BY <1>1 DEF GatewayInv, TypeOK, AnsweredOnce, Again

LEMMA CappedType == \A ra \in Retry_After : Capped(ra) \in Nat
  BY GatewayAssumption DEF Capped

LEMMA GatewayStep == GatewayInv /\ [Next]_vars => GatewayInv'
<1> SUFFICES ASSUME GatewayInv, [Next]_vars
             PROVE  GatewayInv'
  OBVIOUS
<1> USE DEF GatewayInv
<1>1. ASSUME Send PROVE GatewayInv'
  BY <1>1, GatewayAssumption DEF Send, TypeOK, AnsweredOnce
<1>2. ASSUME Step PROVE GatewayInv'
  BY <1>2 DEF Step, TypeOK, AnsweredOnce
<1>3. ASSUME NEW l \in Lines, Receive(l) PROVE GatewayInv'
  <2>1. sent' \in Seq(Lines) /\ Len(sent') <= MaxLines
    BY <1>3, GatewayAssumption DEF Receive, TypeOK
  <2>2. QED
    BY <1>3, <2>1 DEF Receive, TypeOK, AnsweredOnce
<1>4. ASSUME NEW code \in {"timeout", "refused", "other"}, TransportFails(code)
      PROVE  GatewayInv'
  <2>1. CASE code = "refused" /\ config.local
    BY <1>4, <2>1, FinishStep, ErrorResponds DEF TransportFails
  <2>2. CASE ~(code = "refused" /\ config.local) /\ code # "other" /\ ~LastAttempt
    BY <1>4, <2>2, AgainStep DEF TransportFails, TypeOK
  <2>3. CASE ~(code = "refused" /\ config.local) /\ (code = "other" \/ LastAttempt)
    BY <1>4, <2>3, FinishStep, ErrorResponds DEF TransportFails
  <2>4. QED
    BY <2>1, <2>2, <2>3
<1>5. ASSUME NEW http \in {"429", "5xx"}, NEW ra \in Retry_After, Rejected(http, ra)
      PROVE  GatewayInv'
  <2>1. sleep_sec \in Nat \ {0} /\ Capped(ra) \in Nat
    BY CappedType DEF TypeOK
  <2>2. CASE http = "429" /\ ra > 0
    BY <1>5, <2>1, <2>2, AgainStep DEF Rejected
  <2>3. CASE ~(http = "429" /\ ra > 0)
    BY <1>5, <2>1, <2>3, AgainStep DEF Rejected
  <2>4. QED
    BY <2>2, <2>3
<1>6. ASSUME NEW http \in {"200", "4xx", "429", "5xx"},
             NEW body \in {"lines", "error", "garbage"}, Complete(http, body)
      PROVE  GatewayInv'
  BY <1>6, FinishStep, AnswerResponds DEF Complete
<1>7. ASSUME UNCHANGED vars PROVE GatewayInv'
  BY <1>7 DEF vars, TypeOK, AnsweredOnce
<1>8. QED
  BY <1>1, <1>2, <1>3, <1>4, <1>5, <1>6, <1>7 DEF Next

LEMMA GatewayInit == Init => GatewayInv
  BY GatewayAssumption, AttemptsPositive DEF Init, GatewayInv, TypeOK, AnsweredOnce, NoResp

LEMMA GatewayInvariant == Spec => []GatewayInv
<1>1. QED
  BY GatewayInit, GatewayStep, PTL DEF Spec

(* No completion makes more attempts at an endpoint than it is allowed,    *)
(* takes more lines than it was sent, or ends without one of the kinds of  *)
(* response: openai_chat_complete_inner, for every number of retries.      *)
THEOREM GatewayTypeCorrect == Spec => []TypeOK
<1>1. GatewayInv => TypeOK
  BY DEF GatewayInv
<1>2. QED
  BY <1>1, GatewayInvariant, PTL

(* Once an attempt has brought text or calls, neither a retry nor the      *)
(* failover of openai_chat_complete sends the request again, whatever the  *)
(* endpoints did before and however many attempts they are given; only an  *)
(* answer without calls that begins with the words of an error may be      *)
(* asked for again.                                                        *)
THEOREM AnswersAreNotRepeated == Spec => []AnsweredOnce
<1>1. GatewayInv => AnsweredOnce
  BY DEF GatewayInv
<1>2. QED
  BY <1>1, GatewayInvariant, PTL

(* Where the waits of an endpoint stand after each of its attempts.  The   *)
(* bound alone is not inductive: the sleep that the next attempt will make *)
(* is carried over from this one, and 429 can raise it to four seconds     *)
(* before it is doubled.                                                   *)
WaitInv ==
    /\ attempt = 0 => waited = 0 /\ sleep_sec = 1
    /\ attempt = 1 => waited <= RetryCap + 1 /\ sleep_sec <= 8
    /\ attempt = 2 => waited <= 2 * (RetryCap + 1)

(* The one second after a capped header, or a sleep of at most eight.      *)
LEMMA AgainWaits ==
    ASSUME TypeOK, WaitInv, ~LastAttempt, max_retries <= 3, RetryCap >= 7,
           NEW a \in Nat, NEW s \in Nat \ {0}, Again(a, s),
           a + s <= RetryCap + 1, s <= (IF attempt = 0 THEN 4 ELSE 8)
    PROVE  WaitInv'
<1>1. attempt \in {0, 1}
  BY GatewayAssumption DEF TypeOK, LastAttempt, max_attempts
<1>2. attempt' = attempt + 1 /\ waited' = waited + (a + s) /\ sleep_sec' = 2 * s
  BY DEF Again, TypeOK
<1>3. CASE attempt = 0
  BY <1>2, <1>3, GatewayAssumption DEF WaitInv, TypeOK
<1>4. CASE attempt = 1
  BY <1>2, <1>4, GatewayAssumption DEF WaitInv, TypeOK
<1>5. QED
  BY <1>1, <1>3, <1>4

LEMMA WaitStep ==
    ASSUME GatewayInv, WaitInv, [Next]_vars, max_retries <= 3, RetryCap >= 7
    PROVE  WaitInv'
<1> USE DEF GatewayInv
<1>1. ASSUME NEW r, Finish(r)
      PROVE  WaitInv'
  BY <1>1, GatewayAssumption DEF Finish, WaitInv
<1>2. CASE UNCHANGED <<attempt, sleep_sec, waited>>
  BY <1>2 DEF WaitInv
<1>3. /\ sleep_sec \in Nat \ {0} /\ RetryCap \in Nat
      /\ ~LastAttempt => sleep_sec <= (IF attempt = 0 THEN 4 ELSE 8)
  BY GatewayAssumption DEF TypeOK, WaitInv, LastAttempt, max_attempts
<1>4. ASSUME NEW code \in {"timeout", "refused", "other"}, TransportFails(code)
      PROVE  WaitInv'
  <2>1. CASE ~(code = "refused" /\ config.local) /\ code # "other" /\ ~LastAttempt
    <3>1. Again(0, sleep_sec)
      BY <1>4, <2>1 DEF TransportFails
    <3>2. 0 + sleep_sec <= RetryCap + 1
      BY <1>3, <2>1
    <3>3. QED
      BY <1>3, <2>1, <3>1, <3>2, AgainWaits
  <2>2. CASE code = "refused" /\ config.local
    BY <1>1, <1>4, <2>2 DEF TransportFails
  <2>3. CASE ~(code = "refused" /\ config.local) /\ (code = "other" \/ LastAttempt)
    BY <1>1, <1>4, <2>3 DEF TransportFails
  <2>4. QED
    BY <2>1, <2>2, <2>3
<1>5. ASSUME NEW http \in {"429", "5xx"}, NEW ra \in Retry_After, Rejected(http, ra)
      PROVE  WaitInv'
  <2>1. CASE http = "429" /\ ra > 0
    <3>1. Again(Capped(ra), 1) /\ ~LastAttempt
      BY <1>5, <2>1 DEF Rejected
    <3>2. Capped(ra) \in Nat /\ Capped(ra) + 1 <= RetryCap + 1
      BY GatewayAssumption DEF Capped
    <3>3. 1 \in Nat \ {0} /\ 1 <= (IF attempt = 0 THEN 4 ELSE 8)
      OBVIOUS
    <3>4. QED
      BY <3>1, <3>2, <3>3, AgainWaits
  <2>2. CASE ~(http = "429" /\ ra > 0)
    <3> DEFINE s == IF http = "429" /\ sleep_sec < 4 THEN 4 ELSE sleep_sec
    <3>1. Again(0, s) /\ ~LastAttempt
      BY <1>5, <2>2 DEF Rejected
    <3>2. /\ s \in Nat \ {0} /\ s <= (IF attempt = 0 THEN 4 ELSE 8)
          /\ 0 + s <= RetryCap + 1
      BY <1>3, <3>1
    <3> HIDE DEF s
    <3>3. QED
      BY <3>1, <3>2, AgainWaits
  <2>3. QED
    BY <2>1, <2>2
<1>6. ASSUME NEW http \in {"200", "4xx", "429", "5xx"},
             NEW body \in {"lines", "error", "garbage"}, Complete(http, body)
      PROVE  WaitInv'
  BY <1>1, <1>6 DEF Complete
<1>7. QED
  BY <1>2, <1>4, <1>5, <1>6 DEF Next, vars, Send, Step, Receive

(* No sequence of refused connections, server errors and Retry-After       *)
(* headers, honest or not, stalls an endpoint for longer than the cap and  *)
(* one second for each retry, as long as it has the default three attempts *)
(* or fewer and the cap is at least the seven seconds that the doubling    *)
(* alone can come to.  For more attempts the property is false: the        *)
(* doubling of sleep_sec in openai_chat_complete_inner has no cap.         *)
THEOREM WaitsAreBounded ==
    ASSUME max_retries <= 3, RetryCap >= 7
    PROVE  Spec => []WaitIsBounded
<1>1. Init => WaitInv
  BY GatewayAssumption DEF Init, WaitInv
<1>2. GatewayInv /\ WaitInv /\ [Next]_vars => WaitInv'
  BY WaitStep
<1>3. GatewayInv /\ WaitInv => WaitIsBounded
  <2> SUFFICES ASSUME GatewayInv, WaitInv
               PROVE  WaitIsBounded
    OBVIOUS
  <2>1. max_attempts \in {1, 2, 3} /\ attempt \in 0 .. max_attempts - 1
    BY GatewayAssumption DEF max_attempts, GatewayInv, TypeOK
  <2>2. CASE max_attempts = 1
    BY <2>1, <2>2, GatewayAssumption DEF WaitIsBounded, WaitInv
  <2>3. CASE max_attempts = 2
    <3>1. (max_attempts - 1) * (RetryCap + 1) = RetryCap + 1
      BY <2>3, GatewayAssumption
    <3>2. attempt \in {0, 1}
      BY <2>1, <2>3
    <3>3. QED
      BY <3>1, <3>2, GatewayAssumption DEF WaitIsBounded, WaitInv
  <2>4. CASE max_attempts = 3
    <3>1. (max_attempts - 1) * (RetryCap + 1) = 2 * (RetryCap + 1)
      BY <2>4, GatewayAssumption
    <3>2. attempt \in {0, 1, 2} /\ waited \in Nat /\ RetryCap + 1 \in Nat
      BY <2>1, <2>4, GatewayAssumption DEF GatewayInv, TypeOK
    <3>3. waited <= 2 * (RetryCap + 1)
      BY <3>2 DEF WaitInv
    <3>4. QED
      BY <3>1, <3>3 DEF WaitIsBounded
  <2>5. QED
    BY <2>1, <2>2, <2>3, <2>4
<1>4. QED
  BY <1>1, <1>2, <1>3, GatewayInvariant, PTL DEF Spec

-----------------------------------------------------------------------------
(* The other clients: the language server and MCP, over pipes and HTTP,    *)
(* for any number of calls, polls and unasked messages.                    *)

(* Where a client of each transport can be. *)
OnPipe == {"start", "wait", "open", "shutdown", "exit", "close", "closed", "killed"}
OnHttp == {"idle", "negotiate", "retry"}

(* Half a message in the pipe. *)
Half == Int \X {"head", "body"}

Typed ==
    /\ transport \in {"lsp", "stdio", "http"}
    /\ at \in IF transport = "http" THEN OnHttp ELSE OnPipe
    /\ next_id \in Nat \ {0} /\ polls \in Nat /\ runs \in Nat /\ todo \subseteq Int
    /\ pipe \in Seq(Half) /\ writing \in Int
    /\ partial \in BOOLEAN /\ alive \in BOOLEAN /\ slipped \in BOOLEAN

(* Before a call is sent again nothing has been carried out. *)
NotYet == at \in {"negotiate", "retry"} => runs = 0

(* The answer that is waited for on stdio. *)
Awaited == IF req = AnyLine THEN 1 ELSE req

(* On stdio one wait is all a call has, and as long as nothing has slipped *)
(* the pipe and the server hold what is left of the one answer waited for, *)
(* and nothing between calls.                                              *)
InStep ==
    transport = "stdio" =>
      /\ at = "wait" => polls = 1
      /\ ~slipped /\ at = "open" => todo = {} /\ pipe = <<>> /\ writing = None
      /\ ~slipped /\ at = "wait" =>
           /\ Awaited > 0 /\ todo \subseteq {Awaited} /\ writing \in {None, Awaited}
           /\ \/ ~partial /\ pipe = <<>> /\ writing = None
              \/ ~partial /\ pipe = <<<<Awaited, "head">>>> /\ todo = {}
              \/ partial /\ pipe = <<>> /\ todo = {}
              \/ /\ ~partial /\ pipe = <<<<Awaited, "head">>, <<Awaited, "body">>>>
                 /\ writing = None /\ todo = {}
              \/ partial /\ pipe = <<<<Awaited, "body">>>> /\ writing = None /\ todo = {}

RpcIInv == RpcInv /\ Typed /\ NotYet /\ InStep

(* What Append and Tail make of the few pipes that InStep allows. *)
LEMMA PipeFacts ==
    ASSUME NEW S, NEW a \in S, NEW b \in S
    PROVE  /\ Append(<<>>, a) = <<a>> /\ Append(<<a>>, b) = <<a, b>>
           /\ Head(<<a>>) = a /\ Tail(<<a>>) = <<>> /\ <<a>> # <<>>
           /\ Head(<<a, b>>) = a /\ Tail(<<a, b>>) = <<b>> /\ <<a, b>> # <<>>
<1> DEFINE s == Append(<<a>>, b)
           t == <<a, b>>
<1>1. s \in Seq(S) /\ Len(s) = 2 /\ s[1] = a /\ s[2] = b
  OBVIOUS
<1>2. t \in Seq(S) /\ Len(t) = 2 /\ t[1] = a /\ t[2] = b
  OBVIOUS
<1>3. s = t
  <2> HIDE DEF s, t
  <2>1. \A i \in 1 .. 2 : s[i] = t[i]
    BY <1>1, <1>2
  <2>2. QED
    BY <1>1, <1>2, <2>1, SeqEqual
<1>4. QED
  BY <1>3

LEMMA HalfFacts ==
    /\ <<>> \in Seq(Half)
    /\ \A m \in Int : <<m, "head">> \in Half /\ <<m, "body">> \in Half
    /\ \A h \in Half : h[1] \in Int /\ h[2] \in {"head", "body"}
    /\ \A s \in Seq(Half), h \in Half : Append(s, h) \in Seq(Half)
    /\ \A s \in Seq(Half) : s # <<>> => Tail(s) \in Seq(Half) /\ Head(s) \in Half
<1>1. \A m \in Int : <<m, "head">> \in Half /\ <<m, "body">> \in Half
  BY DEF Half
<1>2. \A h \in Half : h[1] \in Int /\ h[2] \in {"head", "body"}
  BY DEF Half
<1>3. QED
  BY <1>1, <1>2

(* The parts of the invariant that are not about what is in the pipe. *)
Plain == RpcTypeOK /\ CarriedOutOnce /\ Typed /\ NotYet

LEMMA InitPlain ==
    ASSUME RpcInit
    PROVE  Plain /\ InStep
<1>1. RpcTypeOK /\ CarriedOutOnce /\ NotYet
  BY RpcAssumption DEF RpcInit, RpcTypeOK, CarriedOutOnce, NotYet, None
<1>2. at \in IF transport = "http" THEN OnHttp ELSE OnPipe
  BY DEF RpcInit, OnPipe, OnHttp
<1>3. Typed
  <2>1. None \in Int /\ 1 \in Nat \ {0} /\ 0 \in Nat /\ {} \subseteq Int
    BY DEF None
  <2>2. QED
    BY <1>2, <2>1, HalfFacts, Zenon DEF RpcInit, Typed
<1>4. InStep
  BY DEF RpcInit, InStep
<1>5. QED
  BY <1>1, <1>3, <1>4 DEF Plain

(* What a step of the server leaves alone. *)
LEMMA ServerFrame ==
    ASSUME Plain, ServerOnly, UNCHANGED transport,
           todo' \subseteq todo, pipe' \in Seq(Half), writing' \in Int,
           alive' \in BOOLEAN, slipped' \in BOOLEAN
    PROVE  Plain'
<1>1. UNCHANGED <<at, next_id, req, partial, polls, runs>>
  BY DEF ServerOnly, httpVars
<1>2. RpcTypeOK'
  BY <1>1 DEF Plain, RpcTypeOK, Typed
<1>3. Typed'
  BY <1>1 DEF Plain, Typed
<1>4. QED
  BY <1>1, <1>2, <1>3 DEF Plain, CarriedOutOnce, NotYet

LEMMA ServerPlain ==
    ASSUME Plain, Server
    PROVE  Plain'
<1>0. pipe \in Seq(Half) /\ todo \subseteq Int /\ writing \in Int /\ alive \in BOOLEAN
      /\ slipped \in BOOLEAN
  BY DEF Plain, Typed
<1>1. ASSUME NEW m \in todo, Answers(m) PROVE Plain'
  <2>1. m \in Int /\ pipe' = Append(pipe, <<m, "head">>) /\ writing' = m /\ alive
        /\ todo' = todo \ {m} /\ UNCHANGED <<alive, slipped>> /\ ServerOnly
    BY <1>0, <1>1 DEF Answers, WritesHead
  <2>2. pipe' \in Seq(Half)
    BY <1>0, <2>1, HalfFacts
  <2>3. QED
    BY <1>0, <2>1, <2>2, ServerFrame DEF ServerOnly
<1>2. CASE Unasked
  <2>1. pipe' = Append(pipe, <<Noise, "head">>) /\ writing' = Noise /\ alive
        /\ UNCHANGED <<alive, todo>> /\ slipped' = TRUE /\ ServerOnly /\ Noise \in Int
    BY <1>2 DEF Unasked, WritesHead, Noise
  <2>2. pipe' \in Seq(Half)
    BY <1>0, <2>1, HalfFacts
  <2>3. QED
    BY <1>0, <2>1, <2>2, ServerFrame DEF ServerOnly
<1>3. CASE WritesBody
  <2>1. pipe' = Append(pipe, <<writing, "body">>) /\ writing' = None /\ alive
        /\ UNCHANGED <<alive, todo, slipped>> /\ ServerOnly /\ None \in Int
    BY <1>3 DEF WritesBody, None
  <2>2. pipe' \in Seq(Half)
    BY <1>0, <2>1, HalfFacts
  <2>3. QED
    BY <1>0, <2>1, <2>2, ServerFrame DEF ServerOnly
<1>4. CASE ServerDies
  <2>1. todo' = {} /\ writing' = None /\ alive' = FALSE
        /\ UNCHANGED <<pipe, slipped>> /\ ServerOnly /\ None \in Int
    BY <1>4 DEF ServerDies, None
  <2>2. QED
    BY <1>0, <2>1, ServerFrame DEF ServerOnly
<1>5. QED
  BY <1>1, <1>2, <1>3, <1>4 DEF Server

(* What is to be shown of a step of the client on a pipe. *)
LEMMA ClientFrame ==
    ASSUME Plain, transport # "http", UNCHANGED <<transport, runs>>,
           at' \in OnPipe, next_id' \in Nat \ {0},
           polls' \in 0 .. Polls + 1, at' = "wait" <=> req' # None, at' = "wait" => polls' > 0,
           todo' \subseteq (1 .. next_id') \cup {Diag},
           pipe' \in Seq(Half), writing' \in Int,
           partial' \in BOOLEAN, alive' \in BOOLEAN, slipped' \in BOOLEAN
    PROVE  Plain'
<1>1. RpcTypeOK'
  BY RpcAssumption DEF Plain, RpcTypeOK, OnPipe
<1>2. Typed'
  <2>1. todo' \subseteq Int /\ polls' \in Nat
    BY RpcAssumption DEF Diag
  <2>2. at' \in IF transport' = "http" THEN OnHttp ELSE OnPipe
    OBVIOUS
  <2>3. transport' \in {"lsp", "stdio", "http"} /\ runs' \in Nat
    BY DEF Plain, Typed
  <2>4. QED
    BY <2>1, <2>2, <2>3 DEF Typed
<1>3. QED
  BY <1>1, <1>2 DEF Plain, CarriedOutOnce, NotYet, OnPipe

(* On a pipe, and waiting, whatever the transport is. *)
LEMMA WaitIsOnPipe ==
    ASSUME Plain, at \in OnPipe
    PROVE  /\ transport # "http" /\ pipe \in Seq(Half) /\ writing \in Int
           /\ partial \in BOOLEAN /\ alive \in BOOLEAN /\ slipped \in BOOLEAN
           /\ next_id \in Nat \ {0} /\ todo \subseteq (1 .. next_id) \cup {Diag}
           /\ polls \in 0 .. Polls + 1 /\ polls \in Nat
  BY RpcAssumption DEF Plain, RpcTypeOK, Typed, OnPipe, OnHttp

LEMMA ReturnsPlain ==
    ASSUME Plain, at = "wait", NEW r, Returns(r), pipe' \in Seq(Half)
    PROVE  Plain'
<1>1. /\ req' = None /\ partial' = FALSE /\ polls' = 0 /\ at' \in {"close", "shutdown", "open"}
      /\ UNCHANGED <<transport, runs, next_id, todo, writing, alive>>
      /\ slipped' = (slipped \/ (r = Null))
  BY DEF Returns, ClientOnly, httpVars
<1>2. at \in OnPipe /\ at' \in OnPipe /\ at' # "wait"
  BY <1>1 DEF OnPipe
<1>3. 0 \in 0 .. Polls + 1
  BY RpcAssumption
<1>4. QED
  BY <1>1, <1>2, <1>3, WaitIsOnPipe, ClientFrame

LEMMA WaitedPlain ==
    ASSUME Plain, at = "wait", Waited, pipe' \in Seq(Half)
    PROVE  Plain'
<1>1. CASE polls > 1
  <2>1. /\ polls' = polls - 1 /\ partial' = FALSE
        /\ UNCHANGED <<at, req, next_id, todo, writing, alive, slipped, transport, runs>>
    BY <1>1 DEF Waited, ClientOnly, httpVars
  <2>2. at \in OnPipe /\ req # None
    BY DEF OnPipe, Plain, RpcTypeOK
  <2>3. polls' \in 0 .. Polls + 1 /\ polls' > 0
    BY RpcAssumption, <1>1, <2>1, <2>2, WaitIsOnPipe
  <2>4. QED
    BY <2>1, <2>2, <2>3, WaitIsOnPipe, ClientFrame
<1>2. CASE ~(polls > 1)
  BY <1>2, ReturnsPlain DEF Waited
<1>3. QED
  BY <1>1, <1>2

LEMMA PipeClientPlain ==
    ASSUME Plain,
           \/ Starts \/ Queries \/ Requests \/ BrokenPipe \/ GivesUp \/ ReadsHead
           \/ ReadsBody \/ ReadsRest \/ SaysGoodbye \/ Closes
    PROVE  Plain'
<1>0. None \in Int /\ None # AnyLine /\ Diag # None /\ Polls \in Nat \ {0}
  BY RpcAssumption DEF None, AnyLine, Diag
<1>1. CASE Starts
  <2>1. at = "start" /\ UNCHANGED <<transport, runs, slipped>> /\ at \in OnPipe
    BY <1>1 DEF Starts, ClientOnly, httpVars, OnPipe
  <2>2. CASE /\ alive' = TRUE /\ pipe' = <<>> /\ writing' = None
             /\ todo' = {1} /\ next_id' = 2
             /\ req' = AnyLine /\ partial' = FALSE /\ polls' = 1 /\ at' = "wait"
    <3>1. 2 \in Nat \ {0} /\ 1 \in 0 .. Polls + 1 /\ 1 > 0 /\ {1} \subseteq (1 .. 2) \cup {Diag}
      BY <1>0
    <3>2. "wait" \in OnPipe
      BY DEF OnPipe
    <3>3. QED
      BY <1>0, <2>1, <2>2, <3>1, <3>2, WaitIsOnPipe, HalfFacts, ClientFrame
  <2>3. CASE at' \in {"start", "killed"} /\ UNCHANGED <<alive, pipe, writing, todo, next_id, req, partial, polls>>
    <3>1. req = None /\ at' \in OnPipe /\ at' # "wait"
      BY <2>1, <2>3 DEF Plain, RpcTypeOK, OnPipe
    <3>2. QED
      BY <2>1, <2>3, <3>1, WaitIsOnPipe, ClientFrame
  <2>4. QED
    BY <1>1, <2>2, <2>3 DEF Starts
<1>2. CASE Queries
  <2>1. /\ at = "open" /\ UNCHANGED <<transport, runs, slipped, pipe, writing, alive>>
        /\ at \in OnPipe /\ at' = "wait" /\ partial' = FALSE /\ polls' = Polls
    BY <1>2 DEF Queries, ClientOnly, httpVars, OnPipe
  <2>2. /\ at' \in OnPipe
        /\ polls' \in 0 .. Polls + 1 /\ polls' > 0
    BY <1>0, <2>1 DEF OnPipe
  <2>3. /\ next_id' \in Nat \ {0} /\ todo' \subseteq (1 .. next_id') \cup {Diag} /\ req' # None
    <3>1. CASE Preflight
      BY <1>0, <2>1, <3>1, WaitIsOnPipe DEF Preflight, Opens
    <3>2. CASE Definition
      <4>1. todo' = todo \cup {Diag} \cup {next_id} /\ req' = next_id /\ next_id' = next_id + 1
        BY <3>2 DEF Definition, Opens
      <4>2. next_id \in Nat \ {0} /\ todo \subseteq (1 .. next_id) \cup {Diag}
        BY <2>1, WaitIsOnPipe
      <4>3. next_id' \in Nat \ {0} /\ req' # None
        BY <4>1, <4>2 DEF None
      <4>4. todo' \subseteq (1 .. next_id') \cup {Diag}
        <5>1. 1 .. next_id \subseteq 1 .. next_id' /\ next_id \in 1 .. next_id'
          BY <4>1, <4>2
        <5>2. QED
          BY <4>1, <4>2, <5>1, Zenon
      <4>5. QED
        BY <4>3, <4>4
    <3>3. QED
      BY <1>2, <3>1, <3>2 DEF Queries
  <2>4. QED
    BY <2>1, <2>2, <2>3, WaitIsOnPipe, ClientFrame
<1>3. CASE Requests
  <2>1. /\ at = "open" /\ UNCHANGED <<transport, runs, slipped, pipe, writing, alive>>
        /\ at \in OnPipe /\ at' = "wait" /\ partial' = FALSE /\ polls' = 1
        /\ todo' = todo \cup {next_id} /\ req' = next_id /\ next_id' = next_id + 1
    BY <1>3 DEF Requests, ClientOnly, httpVars, OnPipe
  <2>2. /\ at' \in OnPipe
        /\ polls' \in 0 .. Polls + 1 /\ polls' > 0
    BY <1>0, <2>1 DEF OnPipe
  <2>3. next_id \in Nat \ {0} /\ todo \subseteq (1 .. next_id) \cup {Diag}
    BY <2>1, WaitIsOnPipe
  <2>4. next_id' \in Nat \ {0} /\ todo' \subseteq (1 .. next_id') \cup {Diag} /\ req' # None
    BY <2>1, <2>3 DEF None
  <2>5. QED
    BY <2>1, <2>2, <2>4, WaitIsOnPipe, ClientFrame
<1>4. CASE BrokenPipe
  <2>1. /\ at \in {"open", "shutdown", "exit"} /\ at' = "killed" /\ at \in OnPipe
        /\ UNCHANGED pipeVars /\ UNCHANGED <<transport, runs>>
    BY <1>4 DEF BrokenPipe, httpVars, OnPipe
  <2>2. at' \in OnPipe /\ at' # "wait" /\ req = None
    BY <2>1 DEF OnPipe, Plain, RpcTypeOK
  <2>3. QED
    BY <2>1, <2>2, WaitIsOnPipe, ClientFrame DEF pipeVars
<1>5. ASSUME at = "wait" PROVE at \in OnPipe /\ pipe \in Seq(Half) /\ transport # "http"
  BY <1>5, WaitIsOnPipe DEF OnPipe
<1>6. CASE GivesUp
  BY <1>5, <1>6, WaitedPlain DEF GivesUp
<1>7. ASSUME at = "wait", pipe' = Tail(pipe), pipe # <<>>, partial' \in BOOLEAN,
             UNCHANGED <<at, req, polls, next_id, todo, writing, alive, slipped, transport, runs>>
      PROVE  Plain'
  <2>1. pipe' \in Seq(Half) /\ req # None /\ polls > 0
    BY <1>5, <1>7, HalfFacts DEF Plain, RpcTypeOK
  <2>2. QED
    BY <1>5, <1>7, <2>1, WaitIsOnPipe, ClientFrame
<1>8. CASE ReadsHead
  BY <1>7, <1>8 DEF ReadsHead, ClientOnly, httpVars
<1>9. CASE ReadsBody
  <2>1. at = "wait" /\ pipe' \in Seq(Half)
    BY <1>5, <1>9, HalfFacts DEF ReadsBody
  <2>2. QED
    BY <1>9, <2>1, ReturnsPlain, WaitedPlain DEF ReadsBody
<1>10. CASE ReadsRest
  <2>1. at = "wait" /\ pipe' \in Seq(Half) /\ pipe' = Tail(pipe) /\ pipe # <<>>
    BY <1>5, <1>10, HalfFacts DEF ReadsRest
  <2>2. CASE Returns(Null)
    BY <2>1, <2>2, ReturnsPlain
  <2>3. CASE Waited
    BY <2>1, <2>3, WaitedPlain
  <2>4. CASE /\ UNCHANGED <<at, req, polls, partial, result, next_id, todo, writing,
                            alive, calls, slipped, listed>>
             /\ ClientOnly
    <3>1. partial' \in BOOLEAN
      BY <1>5, <2>1, <2>4, WaitIsOnPipe
    <3>2. QED
      BY <1>7, <2>1, <2>4, <3>1 DEF ClientOnly, httpVars
  <2>5. QED
    BY <1>10, <2>2, <2>3, <2>4 DEF ReadsRest
<1>11. CASE Closes
  <2>1. /\ at \in {"close", "open"} /\ at \in OnPipe /\ at' \in {"start", "closed"}
        /\ alive' = FALSE /\ pipe' = <<>> /\ todo' = {} /\ writing' = None
        /\ UNCHANGED <<next_id, req, partial, polls, slipped, transport, runs>>
    BY <1>11 DEF Closes, ClientOnly, httpVars, OnPipe
  <2>2. req = None /\ at' \in OnPipe /\ at' # "wait"
    BY <2>1 DEF Plain, RpcTypeOK, OnPipe
  <2>3. QED
    BY <1>0, <2>1, <2>2, WaitIsOnPipe, HalfFacts, ClientFrame
<1>12. CASE SaysGoodbye
  <2>1. /\ at \in {"shutdown", "exit"} /\ at \in OnPipe /\ at' \in {"exit", "close"}
        /\ next_id' \in {next_id, next_id + 1}
        /\ UNCHANGED <<pipe, todo, writing, alive, req, partial, polls, slipped, transport, runs>>
    BY <1>12 DEF SaysGoodbye, ClientOnly, httpVars, OnPipe
  <2>2. req = None /\ at' \in OnPipe /\ at' # "wait"
    BY <2>1 DEF Plain, RpcTypeOK, OnPipe
  <2>3. next_id \in Nat \ {0} /\ todo \subseteq (1 .. next_id) \cup {Diag}
    BY <2>1, WaitIsOnPipe
  <2>4. next_id' \in Nat \ {0} /\ 1 .. next_id \subseteq 1 .. next_id'
    BY <2>1, <2>3
  <2>5. todo' \subseteq (1 .. next_id') \cup {Diag}
    BY <2>1, <2>3, <2>4, Zenon
  <2>6. QED
    BY <2>1, <2>2, <2>4, <2>5, WaitIsOnPipe, ClientFrame
<1>13. QED
  BY <1>1, <1>2, <1>3, <1>4, <1>6, <1>8, <1>9, <1>10, <1>11, <1>12

(* What the server does with a request that it answers with 400. *)
LEMMA RejectedDidNotRun ==
    ASSUME NEW v, NEW o \in Outcomes(v)
    PROVE  o.status = 400 => ~o.ran
  BY DEF Outcomes

LEMMA HttpPlain ==
    ASSUME Plain, HttpFirst \/ Negotiates \/ HttpRetry \/ HttpLater
    PROVE  Plain'
<1>0. UNCHANGED pipeVars /\ UNCHANGED transport
  BY DEF HttpFirst, Negotiates, HttpRetry, HttpLater, HttpOnly
<1>1. at \in OnHttp /\ transport = "http"
  BY DEF Plain, Typed, HttpFirst, Negotiates, HttpRetry, HttpLater, OnHttp, OnPipe
<1>2. at' \in OnHttp /\ runs' \in 0 .. 1 /\ (at' \in {"negotiate", "retry"} => runs' = 0)
  <2>1. CASE HttpFirst
    <3>1. PICK o \in Outcomes("new") :
                /\ runs' = IF o.ran THEN 1 ELSE 0
                /\ at' = IF FallsBack(o) THEN "negotiate" ELSE "idle"
      BY <2>1 DEF HttpFirst
    <3>2. QED
      BY <3>1, RejectedDidNotRun DEF FallsBack, OnHttp
  <2>2. CASE Negotiates
    <3>1. runs' = runs /\ runs = 0 /\ at' \in {"retry", "idle"}
      BY <2>2 DEF Negotiates, Plain, NotYet
    <3>2. QED
      BY <3>1 DEF OnHttp
  <2>3. CASE HttpRetry
    <3>1. runs = 0 /\ at' = "idle" /\ runs' \in {runs, runs + 1}
      BY <2>3 DEF HttpRetry, Ran, Plain, NotYet
    <3>2. QED
      BY <3>1 DEF OnHttp
  <2>4. CASE HttpLater
    BY <1>1, <2>4 DEF HttpLater
  <2>5. QED
    BY <2>1, <2>2, <2>3, <2>4
<1>3. at' # "wait" /\ at # "wait"
  BY <1>1, <1>2 DEF OnHttp
<1>4. RpcTypeOK'
  BY <1>0, <1>1, <1>2, <1>3 DEF Plain, RpcTypeOK, pipeVars, OnHttp
<1>5. Typed'
  BY <1>0, <1>1, <1>2 DEF Plain, Typed, pipeVars
<1>6. QED
  BY <1>2, <1>4, <1>5 DEF Plain, CarriedOutOnce, NotYet

(* A step keeps what the pipe of the stdio client holds in step. *)
LEMMA ServerInStep ==
    ASSUME Plain, InStep, Server
    PROVE  InStep'
<1> SUFFICES ASSUME transport = "stdio" PROVE InStep'
  BY DEF InStep, Server, Answers, Unasked, WritesBody, ServerDies, ServerOnly
<1>0. /\ UNCHANGED <<transport, at, req, partial, polls>> /\ Awaited' = Awaited
      /\ ~slipped' => ~slipped
  BY DEF Server, Answers, Unasked, WritesBody, ServerDies, ServerOnly, Awaited
<1>1. at = "wait" => polls = 1
  BY DEF InStep
<1>2. CASE slipped'
  BY <1>0, <1>1, <1>2 DEF InStep
<1>3. CASE ~slipped' /\ at \notin {"open", "wait"}
  BY <1>0, <1>3 DEF InStep
<1>4. CASE ~slipped' /\ at = "open"
  <2>1. todo = {} /\ pipe = <<>> /\ writing = None /\ ~slipped
    BY <1>0, <1>4 DEF InStep
  <2>2. CASE ServerDies
    BY <1>0, <1>4, <2>1, <2>2 DEF InStep, ServerDies
  <2>3. QED
    BY <1>4, <2>1, <2>2 DEF Server, Answers, Unasked, WritesBody
<1>5. CASE ~slipped' /\ at = "wait"
  <2> DEFINE h == <<Awaited, "head">>
             b == <<Awaited, "body">>
  <2>1. /\ ~slipped /\ Awaited > 0 /\ todo \subseteq {Awaited} /\ writing \in {None, Awaited}
        /\ \/ ~partial /\ pipe = <<>> /\ writing = None
           \/ ~partial /\ pipe = <<h>> /\ todo = {}
           \/ partial /\ pipe = <<>> /\ todo = {}
           \/ ~partial /\ pipe = <<h, b>> /\ writing = None /\ todo = {}
           \/ partial /\ pipe = <<b>> /\ writing = None /\ todo = {}
    BY <1>0, <1>5 DEF InStep
  <2>2. Append(<<>>, h) = <<h>> /\ Append(<<h>>, b) = <<h, b>> /\ Append(<<>>, b) = <<b>>
    <3>1. h \in {h, b} /\ b \in {h, b}
      OBVIOUS
    <3>2. QED
      BY <3>1, PipeFacts
  <2> HIDE DEF h, b
  <2>3. ASSUME NEW m \in todo, Answers(m)
        PROVE  /\ todo' = {} /\ writing' = Awaited /\ pipe' = <<h>> /\ ~partial
    BY <2>1, <2>2, <2>3 DEF Answers, WritesHead, h
  <2>4. ASSUME WritesBody
        PROVE  /\ UNCHANGED todo /\ writing' = None
               /\ \/ ~partial /\ pipe' = <<h, b>> /\ todo = {}
                  \/ partial /\ pipe' = <<b>> /\ todo = {}
    BY <2>1, <2>2, <2>4 DEF WritesBody, b
  <2>5. ASSUME ServerDies
        PROVE  UNCHANGED pipe /\ todo' = {} /\ writing' = None
    BY <2>5 DEF ServerDies
  <2>6. ~Unasked
    BY <1>5 DEF Unasked
  <2>7. /\ todo' \subseteq {Awaited} /\ writing' \in {None, Awaited}
        /\ \/ ~partial /\ pipe' = <<>> /\ writing' = None
           \/ ~partial /\ pipe' = <<h>> /\ todo' = {}
           \/ partial /\ pipe' = <<>> /\ todo' = {}
           \/ ~partial /\ pipe' = <<h, b>> /\ writing' = None /\ todo' = {}
           \/ partial /\ pipe' = <<b>> /\ writing' = None /\ todo' = {}
    BY <2>1, <2>3, <2>4, <2>5, <2>6 DEF Server
  <2>8. QED
    BY <1>0, <1>1, <1>5, <2>1, <2>7 DEF InStep, h, b
<1>6. QED
  BY <1>2, <1>3, <1>4, <1>5

(* What is left of the one answer, in the wait of a stdio client. *)
LEMMA WaitHolds ==
    ASSUME InStep, transport = "stdio", at = "wait", ~slipped
    PROVE  /\ Awaited > 0
           /\ pipe # <<>> => /\ Head(pipe) = IF partial THEN <<Awaited, "body">> ELSE <<Awaited, "head">>
                             /\ todo = {}
                             /\ partial => Tail(pipe) = <<>> /\ writing = None
                             /\ ~partial => \/ Tail(pipe) = <<>> /\ writing \in {None, Awaited}
                                            \/ Tail(pipe) = <<<<Awaited, "body">>>> /\ writing = None
<1> DEFINE h == <<Awaited, "head">>
           b == <<Awaited, "body">>
<1>1. /\ Awaited > 0 /\ writing \in {None, Awaited}
      /\ \/ ~partial /\ pipe = <<>> /\ writing = None
         \/ ~partial /\ pipe = <<h>> /\ todo = {}
         \/ partial /\ pipe = <<>> /\ todo = {}
         \/ ~partial /\ pipe = <<h, b>> /\ writing = None /\ todo = {}
         \/ partial /\ pipe = <<b>> /\ writing = None /\ todo = {}
  BY DEF InStep
<1>2. /\ Head(<<h>>) = h /\ Tail(<<h>>) = <<>> /\ Head(<<b>>) = b /\ Tail(<<b>>) = <<>>
      /\ Head(<<h, b>>) = h /\ Tail(<<h, b>>) = <<b>>
  <2>1. h \in {h, b} /\ b \in {h, b}
    OBVIOUS
  <2>2. QED
    BY <2>1, PipeFacts
<1> HIDE DEF h, b
<1>3. pipe # <<>> => /\ Head(pipe) = IF partial THEN b ELSE h
                     /\ todo = {}
                     /\ partial => Tail(pipe) = <<>> /\ writing = None
                     /\ ~partial => \/ Tail(pipe) = <<>> /\ writing \in {None, Awaited}
                                    \/ Tail(pipe) = <<b>> /\ writing = None
  BY <1>1, <1>2
<1>4. QED
  BY <1>1, <1>3 DEF h, b

LEMMA ClientInStep ==
    ASSUME Plain, InStep, Client
    PROVE  InStep'
<1>0. UNCHANGED transport
  BY DEF Client, Starts, Queries, Requests, BrokenPipe, GivesUp, ReadsHead, ReadsBody, ReadsRest,
         SaysGoodbye, Closes, HttpFirst, Negotiates, HttpRetry, HttpLater, ClientOnly, HttpOnly, Waited, Returns
<1> SUFFICES ASSUME transport = "stdio" PROVE InStep'
  BY <1>0 DEF InStep
<1>1. ASSUME at' \notin {"wait", "open"} PROVE InStep'
  BY <1>1 DEF InStep
<1>2. ASSUME at' = "open", slipped' \/ (todo' = {} /\ pipe' = <<>> /\ writing' = None) PROVE InStep'
  BY <1>2 DEF InStep
<1>3. ASSUME Returns(Null) PROVE InStep'
  <2>1. slipped' /\ at' \in {"close", "shutdown", "open"}
    BY <1>3 DEF Returns
  <2>2. QED
    BY <1>1, <1>2, <2>1
<1>4. ASSUME at = "wait", Waited PROVE InStep'
  <2>1. ~(polls > 1)
    BY <1>4 DEF InStep
  <2>2. QED
    BY <1>3, <1>4, <2>1 DEF Waited
<1>5. CASE Starts
  <2>1. CASE /\ pipe' = <<>> /\ writing' = None /\ todo' = {1} /\ req' = AnyLine
             /\ partial' = FALSE /\ polls' = 1 /\ at' = "wait"
    <3>1. Awaited' = 1 /\ 1 > 0
      BY <2>1 DEF Awaited
    <3>2. QED
      BY <2>1, <3>1 DEF InStep
  <2>2. CASE at' \in {"start", "killed"}
    BY <1>1, <2>2
  <2>3. QED
    BY <1>5, <2>1, <2>2 DEF Starts
<1>6. CASE Requests
  <2>1. /\ at = "open" /\ at' = "wait" /\ partial' = FALSE /\ polls' = 1 /\ req' = next_id
        /\ todo' = todo \cup {next_id} /\ UNCHANGED <<pipe, writing, slipped>>
    BY <1>6 DEF Requests
  <2>2. Awaited' = next_id /\ next_id > 0
    BY <2>1 DEF Awaited, AnyLine, Plain, Typed
  <2>3. CASE slipped'
    BY <2>1, <2>3 DEF InStep
  <2>4. CASE ~slipped'
    <3>1. todo = {} /\ pipe = <<>> /\ writing = None
      BY <2>1, <2>4 DEF InStep
    <3>2. QED
      BY <2>1, <2>2, <2>4, <3>1 DEF InStep
  <2>5. QED
    BY <2>3, <2>4
<1>7. CASE ReadsHead
  <2>1. /\ at = "wait" /\ pipe # <<>> /\ ~partial /\ pipe' = Tail(pipe) /\ partial' = TRUE
        /\ UNCHANGED <<at, req, polls, todo, writing, slipped>> /\ Awaited' = Awaited
    BY <1>7 DEF ReadsHead, Awaited
  <2>2. CASE slipped
    BY <2>1, <2>2 DEF InStep
  <2>3. CASE ~slipped
    <3>1. /\ Awaited > 0 /\ todo = {} /\ polls = 1
          /\ \/ Tail(pipe) = <<>> /\ writing \in {None, Awaited}
             \/ Tail(pipe) = <<<<Awaited, "body">>>> /\ writing = None
      BY <2>1, <2>3, WaitHolds DEF InStep
    <3>2. QED
      BY <2>1, <2>3, <3>1 DEF InStep
  <2>4. QED
    BY <2>2, <2>3
<1>8. CASE ReadsBody
  <2>1. at = "wait" /\ pipe # <<>> /\ partial /\ pipe' = Tail(pipe)
    BY <1>8 DEF ReadsBody
  <2>2. CASE Waited
    BY <1>4, <2>1, <2>2
  <2>3. CASE Returns(Head(pipe)[1])
    <3>1. at' \in {"close", "shutdown", "open"} /\ UNCHANGED <<todo, writing>> /\ (~slipped' => ~slipped)
      BY <2>3 DEF Returns
    <3>2. ~slipped => todo = {} /\ pipe' = <<>> /\ writing = None
      BY <2>1, WaitHolds
    <3>3. QED
      BY <1>1, <1>2, <3>1, <3>2
  <2>4. QED
    BY <1>8, <2>2, <2>3 DEF ReadsBody
<1>9. CASE GivesUp \/ ReadsRest
  BY <1>3, <1>4, <1>9 DEF GivesUp, ReadsRest
<1>10. CASE Closes
  BY <1>1, <1>10 DEF Closes
<1>11. CASE BrokenPipe
  BY <1>1, <1>11 DEF BrokenPipe
<1>12. ~Queries /\ ~HttpFirst /\ ~Negotiates /\ ~HttpRetry /\ ~HttpLater
  BY DEF Queries, HttpFirst, Negotiates, HttpRetry, HttpLater, Plain, Typed, OnPipe
<1>13. CASE SaysGoodbye
  BY <1>1, <1>13 DEF SaysGoodbye
<1>14. QED
  BY <1>5, <1>6, <1>7, <1>8, <1>9, <1>10, <1>11, <1>12, <1>13 DEF Client

(* The inductive invariant of the clients. *)
THEOREM RpcInvariant == RpcSpec => []RpcIInv
<1>1. RpcInit => RpcIInv
  BY InitPlain DEF RpcIInv, RpcInv, Plain
<1>2. RpcIInv /\ [RpcNext]_rpcVars => RpcIInv'
  <2> SUFFICES ASSUME Plain, InStep, [RpcNext]_rpcVars PROVE Plain' /\ InStep'
    BY DEF RpcIInv, RpcInv, Plain
  <2>1. CASE Client
    BY <2>1, PipeClientPlain, HttpPlain, ClientInStep DEF Client
  <2>2. CASE Server
    BY <2>2, ServerPlain, ServerInStep
  <2>3. CASE UNCHANGED rpcVars
    BY <2>3 DEF rpcVars, Plain, RpcTypeOK, CarriedOutOnce, Typed, NotYet, InStep, Awaited
  <2>4. QED
    BY <2>1, <2>2, <2>3 DEF RpcNext
<1>3. QED
  BY <1>1, <1>2, PTL DEF RpcSpec

(* The state of a client stays of its type, it waits only with a request   *)
(* out and a poll left, and no call over HTTP is carried out twice:        *)
(* mcp_http_request sends again only what the server refused with 400.     *)
THEOREM CallsRunOnce == RpcSpec => []RpcInv
  BY RpcInvariant, PTL DEF RpcIInv

(* An answer that a language server query or, on stdio and as long as      *)
(* nothing has slipped, an MCP request returns is its own.                 *)
THEOREM AnswersAreMatched == RpcSpec => AnswersMatch
<1> DEFINE A == (/\ transport = "lsp" \/ (transport = "stdio" /\ ~slipped)
                 /\ at = "wait" /\ req # AnyLine /\ at' # "wait") => result' \in {Null, req}
<1>1. RpcIInv /\ [RpcNext]_rpcVars => [A]_rpcVars
  <2> SUFFICES ASSUME Plain, InStep, RpcNext,
                      transport = "lsp" \/ (transport = "stdio" /\ ~slipped),
                      at = "wait", req # AnyLine, at' # "wait"
               PROVE  result' \in {Null, req}
    BY DEF RpcIInv, RpcInv, Plain
  <2>1. ~Server
    BY DEF Server, Answers, Unasked, WritesBody, ServerDies, ServerOnly
  <2>2. Waited => result' = Null
    BY DEF Waited, Returns
  <2>3. CASE GivesUp \/ ReadsRest
    BY <2>2, <2>3 DEF GivesUp, ReadsRest, Returns
  <2>4. CASE ReadsBody
    <3>1. CASE Waited
      BY <2>2, <3>1
    <3>2. CASE Wanted(Head(pipe)[1]) /\ Returns(Head(pipe)[1])
      <4>1. result' = Head(pipe)[1]
        BY <3>2 DEF Returns
      <4>2. CASE transport = "lsp"
        BY <3>2, <4>1, <4>2 DEF Wanted
      <4>3. CASE transport = "stdio" /\ ~slipped
        <5>1. Head(pipe) = <<Awaited, "body">>
          BY <2>4, <4>3, WaitHolds DEF ReadsBody
        <5>2. QED
          BY <4>1, <5>1 DEF Awaited
      <4>4. QED
        BY <4>2, <4>3
    <3>3. QED
      BY <2>4, <3>1, <3>2 DEF ReadsBody
  <2>5. QED
    BY <2>1, <2>3, <2>4
       DEF RpcNext, Client, Starts, Queries, Requests, BrokenPipe, ReadsHead, SaysGoodbye, Closes,
           HttpFirst, Negotiates, HttpRetry, HttpLater
<1>2. QED
  BY <1>1, RpcInvariant, PTL DEF RpcSpec, AnswersMatch

==============================================================================
