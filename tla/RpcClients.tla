------------------------------ MODULE RpcClients ------------------------------
(***************************************************************************)
(* The clients that speak JSON-RPC: the language server client             *)
(* (lsp_client.c: a server per query, framed by Content-Length, answers    *)
(* matched by id), the stdio MCP client (mcp_client.c: one server, a line  *)
(* per message, the next line is the answer) and MCP over HTTP             *)
(* (mcp_http.c: one protocol version tried first, an older one negotiated  *)
(* when the server answers 400).  One call is made at a time; the server   *)
(* answers late, in pieces, unasked or not at all, and may die.            *)
(***************************************************************************)
EXTENDS Integers, Sequences, FiniteSets

CONSTANTS Polls,      \* waits of 300 ms in the time limit of an LSP query
          MaxCalls,   \* bound: calls in a behaviour
          MaxNoise    \* bound: messages nobody asked for

ASSUME RpcAssumption == Polls \in Nat \ {0} /\ {MaxCalls, MaxNoise} \subseteq Nat

VARIABLES
    transport,  \* "lsp", "stdio" or "http"
    at,         \* where the call is
    next_id,    \* next_request_id, request_id
    req,        \* the id, or the kind of message, that is waited for
    partial,    \* the first part of a message has been read in this wait
    polls,      \* waits left
    pipe,       \* what the server wrote: a message is a head and a body
    todo,       \* server: requests not yet answered
    writing,    \* server: the message whose body is still to be written
    alive,      \* server: a process is at the other end of the pipes
    result,     \* what the last call returned; Null if nothing
    server,     \* HTTP: "new", "legacy" or "both", the versions the server speaks
    negotiated, legacy, session,    \* HTTP: struct MCPClient
    listed,     \* MCP: tools/list was answered and its tools are registered
    runs,       \* HTTP: how often the server carried out the current call
    calls, noise,
    slipped     \* stdio: a call gave up, or a line came unasked (for the properties)

pipeVars == <<next_id, req, partial, polls, pipe, todo, writing, alive, noise, slipped>>
httpVars == <<negotiated, legacy, session, runs>>
rpcVars  == <<transport, at, next_id, req, partial, polls, pipe, todo, writing, alive, result,
              server, negotiated, legacy, session, listed, runs, calls, noise, slipped>>

Null    == 0
Noise   == -1        \* a notification, a log line, an empty set of diagnostics
Diag    == -2        \* textDocument/publishDiagnostics with findings
AnyLine == -3        \* initialize waits for whatever comes first
None    == -4

RpcInit == /\ transport \in {"lsp", "stdio", "http"}
           /\ at = IF transport = "http" THEN "idle" ELSE "start"
           /\ next_id = 1 /\ req = None /\ partial = FALSE /\ polls = 0
           /\ pipe = <<>> /\ todo = {} /\ writing = None /\ alive = FALSE
           /\ result = Null /\ slipped = FALSE /\ calls = 0 /\ noise = 0 /\ listed = FALSE
           /\ server \in {"new", "legacy", "both"}
           /\ negotiated = FALSE /\ legacy = FALSE /\ session = None /\ runs = 0
-----------------------------------------------------------------------------
(* The server process, on a pipe. *)
ServerOnly == UNCHANGED <<transport, at, next_id, req, partial, polls, result, server, calls, listed>>
              /\ UNCHANGED httpVars

WritesHead(m) == /\ alive /\ writing = None
                 /\ pipe' = Append(pipe, <<m, "head">>) /\ writing' = m

Answers(m) == /\ m \in todo /\ WritesHead(m)
              /\ todo' = todo \ {m}
              /\ UNCHANGED <<alive, noise, slipped>> /\ ServerOnly

Unasked == /\ noise < MaxNoise /\ noise' = noise + 1
           /\ WritesHead(Noise)
           /\ slipped' = TRUE
           /\ UNCHANGED <<todo, alive>> /\ ServerOnly

WritesBody == /\ alive /\ writing # None
              /\ pipe' = Append(pipe, <<writing, "body">>) /\ writing' = None
              /\ UNCHANGED <<todo, alive, noise, slipped>> /\ ServerOnly

ServerDies == /\ alive /\ alive' = FALSE /\ todo' = {} /\ writing' = None
              /\ UNCHANGED <<pipe, noise, slipped>> /\ ServerOnly
-----------------------------------------------------------------------------
ClientOnly == UNCHANGED <<transport, server, noise>> /\ UNCHANGED httpVars

(* lsp_client_spawn, mcp_client_start: a new process with new pipes, and   *)
(* initialize, which takes the first message for its answer.  No server is *)
(* found (lsp), or the command ends at once, before or after initialize is *)
(* written to it.                                                          *)
Starts == /\ at = "start" /\ calls < MaxCalls
          /\ \/ /\ alive' = TRUE /\ pipe' = <<>> /\ writing' = None
                /\ todo' = {1} /\ next_id' = 2
                /\ req' = AnyLine /\ partial' = FALSE /\ polls' = 1
                /\ at' = "wait" /\ UNCHANGED <<result, calls>>
             \/ /\ calls' = calls + 1 /\ result' = Null
                /\ at' \in {"start", "killed"}
                /\ UNCHANGED <<alive, pipe, writing, todo, next_id, req, partial, polls>>
          /\ UNCHANGED <<slipped, listed>> /\ ClientOnly

(* didOpen, which makes the server publish diagnostics; they are all that  *)
(* lsp_preflight_diagnostics listens for, definition and references ask.   *)
Opens(reqs) == todo' = todo \cup {Diag} \cup reqs
Preflight   == Opens({}) /\ req' = Diag /\ UNCHANGED next_id
Definition  == Opens({next_id}) /\ req' = next_id /\ next_id' = next_id + 1

(* tool_lsp_query, with a server started for it. *)
Queries == /\ at = "open" /\ transport = "lsp" /\ alive
           /\ Preflight \/ Definition
           /\ partial' = FALSE /\ polls' = Polls
           /\ at' = "wait" /\ calls' = calls + 1
           /\ UNCHANGED <<pipe, writing, alive, result, slipped, listed>> /\ ClientOnly

(* mcp_client_request: tools/list, which belya_harness_connect_mcp sends   *)
(* once, and tools/call for a tool it found.                               *)
ToList   == 2
Requests == /\ at = "open" /\ transport = "stdio" /\ alive /\ calls < MaxCalls
            /\ listed \/ next_id = ToList
            /\ todo' = todo \cup {next_id} /\ req' = next_id
            /\ next_id' = next_id + 1
            /\ partial' = FALSE /\ polls' = 1
            /\ at' = "wait" /\ calls' = calls + 1
            /\ UNCHANGED <<pipe, writing, alive, result, slipped, listed>> /\ ClientOnly

(* SIGPIPE is not ignored: writing to a dead server ends the agent. *)
BrokenPipe == /\ at \in {"open", "shutdown", "exit"} /\ ~alive
              /\ at' = "killed"
              /\ UNCHANGED pipeVars /\ UNCHANGED <<result, calls, listed>>
              /\ UNCHANGED <<transport, server>> /\ UNCHANGED httpVars

(* The call is over.  A language server is shut down after its query, an   *)
(* MCP server when it did not answer initialize.                           *)
Returns(r) == /\ result' = r
              /\ req' = None /\ partial' = FALSE /\ polls' = 0
              /\ at' = CASE req = AnyLine /\ r = Null -> "close"
                         [] transport = "lsp" /\ req # AnyLine -> "shutdown"
                         [] OTHER -> "open"
              /\ slipped' = (slipped \/ (r = Null))
              /\ listed' = (listed \/ (transport = "stdio" /\ req = ToList /\ r = ToList))
              /\ UNCHANGED <<next_id, todo, writing, alive, calls>> /\ ClientOnly

(* Fault: the first answer is taken, as on the MCP side. *)
Wanted_First(m) == m > 0 \/ (req = AnyLine) \/ (m = req)

(* Whether a whole message is the one this wait is for. *)
Wanted(m) == CASE req = AnyLine            -> TRUE
               [] transport = "stdio"  -> TRUE
               [] OTHER                -> m = req

(* A wait that brought nothing: lsp_recv_payload returned NULL, or another *)
(* message; the last one ends the call.                                    *)
Waited == IF polls > 1
          THEN /\ polls' = polls - 1 /\ partial' = FALSE
               /\ UNCHANGED <<at, req, result, next_id, todo, writing, alive, calls, slipped, listed>>
               /\ ClientOnly
          ELSE Returns(Null)

(* Fault: a wait that ends too early keeps what it has read for the next.  *)
GivesUp_Keeps == /\ at = "wait" /\ pipe = <<>> /\ UNCHANGED pipe
                 /\ UNCHANGED <<at, req, polls, partial, result, next_id, todo, writing, alive, calls, slipped, listed>>
                 /\ ClientOnly

(* The time is up with nothing to read; what was read of a message is      *)
(* thrown away, and its rest will be taken for the start of the next.      *)
GivesUp == /\ at = "wait" /\ pipe = <<>> /\ UNCHANGED pipe
           /\ Waited

ReadsHead == /\ at = "wait" /\ pipe # <<>> /\ Head(pipe)[2] = "head" /\ ~partial
             /\ pipe' = Tail(pipe) /\ partial' = TRUE
             /\ UNCHANGED <<at, req, polls, result, next_id, todo, writing, alive, calls, slipped, listed>>
             /\ ClientOnly

ReadsBody == /\ at = "wait" /\ pipe # <<>> /\ Head(pipe)[2] = "body" /\ partial
             /\ pipe' = Tail(pipe)
             /\ IF Wanted(Head(pipe)[1]) THEN Returns(Head(pipe)[1]) ELSE Waited

(* The rest of a message whose start was thrown away: a line that does not *)
(* parse; for a language server text before the next header, or, if it is  *)
(* longer than the header buffer, a wait that brought nothing.             *)
ReadsRest == /\ at = "wait" /\ pipe # <<>> /\ Head(pipe)[2] = "body" /\ ~partial
             /\ pipe' = Tail(pipe)
             /\ IF transport = "stdio" THEN Returns(Null)
                ELSE \/ Waited
                     \/ /\ UNCHANGED <<at, req, polls, partial, result, next_id, todo, writing,
                                       alive, calls, slipped, listed>>
                        /\ ClientOnly

(* lsp_client_shutdown writes "shutdown", drops what is answered to it,    *)
(* and writes "exit".                                                      *)
SaysGoodbye == /\ at \in {"shutdown", "exit"} /\ alive
               /\ IF at = "shutdown" THEN at' = "exit" /\ next_id' = next_id + 1
                                     ELSE at' = "close" /\ UNCHANGED next_id
               /\ UNCHANGED <<pipe, todo, writing, alive, req, partial, polls, result, calls, slipped, listed>>
               /\ ClientOnly

(* lsp_client_shutdown, mcp_client_close: the pipes are closed, SIGTERM is *)
(* sent, and the process is waited for without blocking.  It may go on     *)
(* running, but at the end of no pipe of the client.                       *)
Closes == /\ at \in {"close", "open"} /\ (at = "open" => transport = "stdio")
          /\ at' = IF transport = "lsp" THEN "start" ELSE "closed"
          /\ alive' = FALSE /\ pipe' = <<>> /\ todo' = {} /\ writing' = None
          /\ UNCHANGED <<next_id, req, partial, polls, result, calls, slipped, listed>> /\ ClientOnly
-----------------------------------------------------------------------------
(* post_once: what the server does with a request of a protocol version,   *)
(* and what the client learns of it.  A request may be carried out and its *)
(* answer lost; any server may refuse it, with 400 for whatever reason.    *)
Speaks(version)   == server \in {version, "both"}
Outcomes(version) == {[status |-> s, ran |-> FALSE] : s \in {0, 400, 401}} \cup
                     (IF Speaks(version) THEN {[status |-> s, ran |-> TRUE] : s \in {0, 200}} ELSE {})

HttpOnly == UNCHANGED pipeVars /\ UNCHANGED <<transport, server>>
Ran(o)        == runs' = IF o.ran THEN runs + 1 ELSE runs
HttpAnswer(o) == IF o.status = 200 THEN 1 ELSE Null

(* Fault: whatever went wrong, the older protocol is tried. *)
FallsBack_AnyError(o) == o.status # 200

(* The one answer that enters the fallback. *)
FallsBack(o) == o.status = 400

(* mcp_http_request, before anything is negotiated: tools/list. *)
HttpFirst == /\ at = "idle" /\ transport = "http" /\ ~negotiated /\ calls < MaxCalls
             /\ calls' = calls + 1
             /\ \E o \in Outcomes("new") :
                   /\ runs' = IF o.ran THEN 1 ELSE 0
                   /\ IF FallsBack(o)
                      THEN at' = "negotiate" /\ UNCHANGED <<result, negotiated, listed>>
                      ELSE /\ at' = "idle" /\ result' = HttpAnswer(o) /\ negotiated' = TRUE
                           /\ listed' = (o.status = 200)
             /\ UNCHANGED <<legacy, session>> /\ HttpOnly

(* negotiate_legacy: initialize, and the session it opens; if that fails   *)
(* the first answer stands and the new version counts as negotiated.       *)
Negotiates == /\ at = "negotiate"
              /\ negotiated' = TRUE
              /\ \E o \in Outcomes("legacy") :
                    IF o.status = 200
                    THEN /\ at' = "retry" /\ legacy' = TRUE /\ UNCHANGED result
                         /\ session' \in {None, 1}
                    ELSE /\ at' = "idle" /\ result' = Null /\ UNCHANGED <<legacy, session>>
              /\ UNCHANGED <<runs, calls, listed>> /\ HttpOnly

Version == IF legacy THEN "legacy" ELSE "new"

(* The call again, in the version that was negotiated. *)
HttpRetry == /\ at = "retry"
             /\ \E o \in Outcomes(Version) : Ran(o) /\ result' = HttpAnswer(o) /\ listed' = (o.status = 200)
             /\ at' = "idle"
             /\ UNCHANGED <<negotiated, legacy, session, calls>> /\ HttpOnly

HttpLater == /\ at = "idle" /\ transport = "http" /\ negotiated /\ listed /\ calls < MaxCalls
             /\ calls' = calls + 1
             /\ \E o \in Outcomes(Version) : /\ runs' = IF o.ran THEN 1 ELSE 0
                                             /\ result' = HttpAnswer(o)
             /\ UNCHANGED <<at, negotiated, legacy, session, listed>> /\ HttpOnly
-----------------------------------------------------------------------------
Client == \/ Starts \/ Queries \/ Requests \/ BrokenPipe \/ GivesUp \/ ReadsHead \/ ReadsBody
          \/ ReadsRest \/ SaysGoodbye \/ Closes \/ HttpFirst \/ Negotiates \/ HttpRetry \/ HttpLater
Server == (\E m \in todo : Answers(m)) \/ Unasked \/ WritesBody \/ ServerDies

RpcNext == Client \/ Server

(* The client runs; the server owes nothing. *)
RpcSpec == RpcInit /\ [][RpcNext]_rpcVars /\ WF_rpcVars(Client)
-----------------------------------------------------------------------------
RpcTypeOK == /\ at \in {"start", "wait", "open", "shutdown", "exit", "close", "closed", "killed",
                       "idle", "negotiate", "retry"}
             /\ polls \in 0 .. Polls + 1 /\ (at = "wait" <=> req # None) /\ (at = "wait" => polls > 0)
             /\ todo \subseteq 1 .. next_id \cup {Diag} /\ runs \in Nat

(* Whatever is late, in pieces, unasked or left over, a language server's  *)
(* answer is returned to the query that asked for it.  On stdio, where no  *)
(* id is compared, an answer belongs to its request as long as no request  *)
(* gave up and no line came unasked: from then on they are out of step.    *)
AnswersMatch ==
    [][(/\ transport = "lsp" \/ (transport = "stdio" /\ ~slipped)
        /\ at = "wait" /\ req # AnyLine /\ at' # "wait") => result' \in {Null, req}]_rpcVars

(* A call is carried out at most once: a request that may have been        *)
(* carried out is not sent again in the older protocol.                    *)
CarriedOutOnce == runs <= 1

(* A client's state is of its type, it waits only with a request out and a *)
(* poll left, and no call is carried out twice.                            *)
RpcInv == RpcTypeOK /\ CarriedOutOnce

(* Every call returns, whether the server answers or not. *)
EveryCallReturns == (at = "wait") ~> (at # "wait")
=============================================================================
