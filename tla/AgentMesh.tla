------------------------------ MODULE AgentMesh ------------------------------
(***************************************************************************)
(* The inter-agent mesh (agent_mesh.c): agents on one host that meet at a  *)
(* Unix socket.  Whoever finds nobody there unlinks the path and becomes   *)
(* the server.  Each agent has a main thread, which starts, consults and   *)
(* stops, and a listener thread, which reads lines, matches responses and  *)
(* answers requests.  A request is written under the lock, a reply is not, *)
(* and both are written in two calls, the frame and its newline.           *)
(***************************************************************************)
EXTENDS Integers, Sequences, SequencesExt, FiniteSets

CONSTANTS Agent,      \* the processes that share the socket path
          Handlers,   \* the agents with a handler (agent_mesh_set_handler)
          Actions,    \* the actions consulted about, "ping" among them
          NoAgent,    \* no socket file at the path
          MaxAsks,    \* bound: consults in a behaviour
          MaxConns,   \* bound: connections in a behaviour
          MaxDeaths   \* bound: crashes from outside

ASSUME MeshAssumption == /\ NoAgent \notin Agent /\ Handlers \subseteq Agent
                         /\ MaxAsks \in Nat /\ MaxConns \in Nat /\ MaxDeaths \in Nat

VARIABLES mesh,      \* struct AgentMesh of each agent
          main,      \* where the main thread of each agent is
          listener,  \* where its listener thread is
          conn,      \* the listener's own descriptor (the local conn)
          path,      \* who bound the socket file that is there now
          backlog,   \* connections not yet accepted, per listening agent
          wire,      \* wire[c][n]: what n has yet to read from connection c
          open,      \* the agents that hold an end of each connection
          asks,      \* consults so far
          question,  \* the question each agent asked last (for the properties)
          result,    \* what agent_mesh_consult returned last
          deaths

vars == <<mesh, main, listener, conn, path, backlog, wire, open, asks,
          question, result, deaths>>

Conn   == 1 .. MaxConns
NoFd   == 0
NL     == [kind |-> "newline"]
NoText == 0          \* NULL; otherwise the question a payload answers

(* A frame carries its id; q is the question it asks or answers.  A long   *)
(* one does not fit the 4096 bytes of the reader's buffer.                 *)
Frame(resp, id, act, q, long) ==
    [kind |-> "frame", resp |-> resp, id |-> id, act |-> act, q |-> q, long |-> long]

Hungup(n, c) == \A m \in Agent \ {n} : m \notin open[c]
Fresh        == {c \in Conn : open[c] = {} /\ \A n \in Agent : /\ wire[c][n] = <<>>
                                                             /\ c \notin {mesh[n].peer_fd, conn[n]}}

InitMesh == [is_server |-> FALSE, listen_fd |-> FALSE, peer_fd |-> NoFd,
             running |-> FALSE, next_msg_id |-> 1, pending_req_id |-> 0,
             pending_response |-> NoText, pending_arrived |-> FALSE]

Init == /\ mesh = [n \in Agent |-> InitMesh]
        /\ main = [n \in Agent |-> "connect"]
        /\ listener = [n \in Agent |-> "off"]
        /\ conn = [n \in Agent |-> NoFd]
        /\ path = NoAgent
        /\ backlog = [n \in Agent |-> <<>>]
        /\ wire = [c \in Conn |-> [n \in Agent |-> <<>>]]
        /\ open = [c \in Conn |-> {}]
        /\ asks = 0
        /\ question = [n \in Agent |-> 0]
        /\ result = [n \in Agent |-> NoText]
        /\ deaths = 0

Go(n, where)   == main' = [main EXCEPT ![n] = where]
Reachable(n)   == path # NoAgent /\ path # n /\ mesh[path].listen_fd
(* The lock is held across the two writes of agent_mesh_send. *)
Unlocked(n)    == main[n] # "written"
Put(c, n, tok) == wire' = [wire EXCEPT ![c] = [m \in Agent |->
                    IF m # n /\ m \in open[c] THEN Append(wire[c][m], tok) ELSE wire[c][m]]]

(* The line in front: everything before the first newline.  json_parse     *)
(* reads the first value and ignores what stands behind it.                *)
Text(n)     == wire[conn[n]][n]
NewlineAt(n) == SelectInSeq(Text(n), LAMBDA t : t = NL)
TooLong(n)  == \E i \in 1 .. Len(Text(n)) :
                  /\ \A j \in 1 .. i : Text(n)[j].kind = "frame"
                  /\ Text(n)[i].long
Rest(n)     == [wire EXCEPT ![conn[n]][n] = SubSeq(@, NewlineAt(n) + 1, Len(@))]
Reading(n)  == /\ listener[n] = "serve" /\ mesh[n].running
               /\ n \in open[conn[n]] /\ NewlineAt(n) > 0 /\ ~TooLong(n)

(* A ping is answered by every agent, other requests need a handler. *)
Answers(n, f) == f.act = "ping" \/ n \in Handlers

(* A process that ends loses its descriptors and its threads; the socket   *)
(* file stays where it is.                                                 *)
Dies(n) ==
    /\ mesh' = [mesh EXCEPT ![n] = InitMesh]
    /\ Go(n, "dead")
    /\ listener' = [listener EXCEPT ![n] = "off"]
    /\ conn' = [conn EXCEPT ![n] = NoFd]
    /\ open' = [c \in Conn |-> IF c \in ToSet(backlog[n]) THEN {} ELSE open[c] \ {n}]
    /\ wire' = [c \in Conn |-> [wire[c] EXCEPT ![n] = <<>>]]
    /\ backlog' = [backlog EXCEPT ![n] = <<>>]
    /\ result' = [result EXCEPT ![n] = NoText]
    /\ UNCHANGED <<path, asks, question>>

------------------------------------------------------------------------------
(* agent_mesh_start *)

(* connect(): the kernel queues the connection before it is accepted. *)
Connects(n) ==
    \E c \in Fresh :
        /\ mesh' = [mesh EXCEPT ![n].is_server = FALSE, ![n].peer_fd = c, ![n].running = TRUE]
        /\ open' = [open EXCEPT ![c] = {n, path}]
        /\ backlog' = [backlog EXCEPT ![path] = Append(@, c)]
        /\ listener' = [listener EXCEPT ![n] = "serve"]
        /\ conn' = [conn EXCEPT ![n] = c]

StartAsClient(n) ==
    /\ main[n] = "connect" /\ Reachable(n)
    /\ Connects(n)
    /\ Go(n, "idle")
    /\ UNCHANGED <<path, wire, asks, question, result, deaths>>

StartUnlinks(n) ==
    /\ main[n] = "connect" /\ ~Reachable(n)
    /\ Go(n, "bind")
    /\ path' = NoAgent
    /\ UNCHANGED <<mesh, listener, conn, backlog, wire, open, asks, question, result, deaths>>

(* bind() fails when the other agent has bound the path since the unlink:  *)
(* start returns false, and belya_harness_init_bounded keeps the mesh.     *)
StartBinds(n) ==
    /\ main[n] = "bind"
    /\ IF path = NoAgent THEN path' = n /\ Go(n, "listen")
                         ELSE path' = path /\ Go(n, "idle")
    /\ UNCHANGED <<mesh, listener, conn, backlog, wire, open, asks, question, result, deaths>>

StartListens(n) ==
    /\ main[n] = "listen"
    /\ mesh' = [mesh EXCEPT ![n].is_server = TRUE, ![n].listen_fd = TRUE, ![n].running = TRUE]
    /\ listener' = [listener EXCEPT ![n] = "accept"]
    /\ Go(n, "idle")
    /\ UNCHANGED <<conn, path, backlog, wire, open, asks, question, result, deaths>>

------------------------------------------------------------------------------
(* agent_mesh_consult and agent_mesh_send *)

(* A mesh whose start failed tries to connect at every consult. *)
Reconnects(n) ==
    /\ main[n] = "idle" /\ mesh[n].peer_fd = NoFd /\ ~mesh[n].is_server
    /\ asks < MaxAsks /\ Reachable(n)
    /\ Connects(n)
    /\ Go(n, "consult")
    /\ UNCHANGED <<path, wire, asks, question, result, deaths>>

Registered(n) == mesh[n].next_msg_id

(* The id of the request to come is registered before it is sent. *)
Arms(n) ==
    /\ main[n] \in {"idle", "consult"} /\ mesh[n].peer_fd # NoFd
    /\ asks < MaxAsks
    /\ mesh' = [mesh EXCEPT ![n].pending_req_id = Registered(n),
                            ![n].pending_arrived = FALSE, ![n].pending_response = NoText]
    /\ Go(n, "armed")
    /\ asks' = asks + 1
    /\ question' = [question EXCEPT ![n] = asks + 1]
    /\ result' = [result EXCEPT ![n] = NoText]
    /\ UNCHANGED <<listener, conn, path, backlog, wire, open, deaths>>

(* The server's client hung up after the id was registered. *)
SendRefused(n) ==
    /\ main[n] = "armed" /\ mesh[n].peer_fd = NoFd
    /\ Go(n, "idle")
    /\ UNCHANGED <<mesh, listener, conn, path, backlog, wire, open, asks, question, result, deaths>>

(* Writing to a connection the other side has closed raises SIGPIPE, which *)
(* nothing in the program ignores: the process ends.                       *)
BrokenPipe(n) ==
    /\ \/ main[n] \in {"armed", "written"} /\ mesh[n].peer_fd # NoFd /\ Hungup(n, mesh[n].peer_fd)
       \/ /\ listener[n] \in {"serve", "newline"} /\ mesh[n].running /\ n \in open[conn[n]]
          /\ Hungup(n, conn[n])
          /\ listener[n] = "serve" => /\ NewlineAt(n) > 1 /\ ~TooLong(n) /\ ~Text(n)[1].resp
                                      /\ Answers(n, Text(n)[1])
    /\ Dies(n)
    /\ UNCHANGED deaths

SendFrame(n) ==
    /\ main[n] = "armed" /\ mesh[n].peer_fd # NoFd /\ ~Hungup(n, mesh[n].peer_fd)
    /\ mesh' = [mesh EXCEPT ![n].next_msg_id = @ + 1]
    /\ \E act \in Actions, long \in BOOLEAN :
           Put(mesh[n].peer_fd, n, Frame(FALSE, mesh[n].next_msg_id, act, question[n], long))
    /\ Go(n, "written")
    /\ UNCHANGED <<listener, conn, path, backlog, open, asks, question, result, deaths>>

SendNewline(n) ==
    /\ main[n] = "written" /\ ~Hungup(n, mesh[n].peer_fd)
    /\ Put(mesh[n].peer_fd, n, NL)
    /\ Go(n, "wait")
    /\ UNCHANGED <<mesh, listener, conn, path, backlog, open, asks, question, result, deaths>>

(* pthread_cond_timedwait ends with the answer or with ETIMEDOUT. *)
WaitEnds(n) ==
    /\ main[n] = "wait"
    /\ result' = [result EXCEPT ![n] = IF mesh[n].pending_arrived
                                       THEN mesh[n].pending_response ELSE NoText]
    /\ mesh' = [mesh EXCEPT ![n].pending_req_id = 0, ![n].pending_arrived = FALSE,
                            ![n].pending_response = IF mesh[n].pending_arrived THEN NoText ELSE @]
    /\ Go(n, "idle")
    /\ UNCHANGED <<listener, conn, path, backlog, wire, open, asks, question, deaths>>

------------------------------------------------------------------------------
(* The listener: mesh_server_worker, mesh_client_worker *)

Accepts(n) ==
    /\ listener[n] = "accept" /\ mesh[n].running /\ backlog[n] # <<>> /\ Unlocked(n)
    /\ conn' = [conn EXCEPT ![n] = Head(backlog[n])]
    /\ backlog' = [backlog EXCEPT ![n] = Tail(@)]
    /\ open' = [c \in Conn |-> IF c = mesh[n].peer_fd THEN open[c] \ {n} ELSE open[c]]
    /\ mesh' = [mesh EXCEPT ![n].peer_fd = Head(backlog[n])]
    /\ listener' = [listener EXCEPT ![n] = "serve"]
    /\ UNCHANGED <<main, path, wire, asks, question, result, deaths>>

(* Fault: any response completes the consult. *)
Matches_Any(n, f) == mesh[n].pending_req_id # 0

Matches(n, f) == f.id = mesh[n].pending_req_id

ReadsResponse(n) ==
    /\ Reading(n) /\ NewlineAt(n) > 1 /\ Text(n)[1].resp /\ Unlocked(n)
    /\ mesh' = IF Matches(n, Text(n)[1])
               THEN [mesh EXCEPT ![n].pending_response = Text(n)[1].q, ![n].pending_arrived = TRUE]
               ELSE mesh
    /\ wire' = Rest(n)
    /\ UNCHANGED <<main, listener, conn, path, backlog, open, asks, question, result, deaths>>

(* The reply is written without the lock, so it may fall between the frame *)
(* and the newline of a request the main thread is writing.                *)
ReadsRequest(n) ==
    /\ Reading(n) /\ NewlineAt(n) > 1 /\ ~Text(n)[1].resp
    /\ LET f == Text(n)[1] IN
         /\ Answers(n, f) => ~Hungup(n, conn[n])
         /\ wire' = [wire EXCEPT ![conn[n]] = [m \in Agent |->
                CASE m = n -> Rest(n)[conn[n]][n]
                  [] m # n /\ m \in open[conn[n]] /\ Answers(n, f)
                       -> Append(@[m], Frame(TRUE, f.id, f.act, f.q, FALSE))
                  [] OTHER -> @[m]]]
         /\ listener' = [listener EXCEPT ![n] = IF Answers(n, f) THEN "newline" ELSE @]
    /\ UNCHANGED <<mesh, main, conn, path, backlog, open, asks, question, result, deaths>>

ReadsEmptyLine(n) ==
    /\ Reading(n) /\ NewlineAt(n) = 1
    /\ wire' = Rest(n)
    /\ UNCHANGED <<mesh, main, listener, conn, path, backlog, open, asks, question, result, deaths>>

ReplyNewline(n) ==
    /\ listener[n] = "newline" /\ (n \in open[conn[n]] => ~Hungup(n, conn[n]))
    /\ IF n \in open[conn[n]] THEN Put(conn[n], n, NL) ELSE UNCHANGED wire
    /\ listener' = [listener EXCEPT ![n] = "serve"]
    /\ UNCHANGED <<mesh, main, conn, path, backlog, open, asks, question, result, deaths>>

(* The inner loop ends: the mesh is being stopped, the other side is gone, *)
(* or the line outgrew the buffer and read() was asked for no bytes.  A    *)
(* server closes the connection and accepts again; the client thread ends  *)
(* and leaves peer_fd as it is.                                            *)
Ended(n) == ~mesh[n].running \/ n \notin open[conn[n]] \/ Hungup(n, conn[n]) \/ TooLong(n)

(* Fault: the server forgets to close the connection it leaves. *)
Closed_Forgets(n, c) == open

Closed(n, c) == [open EXCEPT ![c] = @ \ {n}]

ServerHangsUp(n) ==
    /\ listener[n] = "serve" /\ mesh[n].is_server /\ Unlocked(n)
    /\ Ended(n)
    /\ open' = Closed(n, conn[n])
    /\ mesh' = [mesh EXCEPT ![n].peer_fd = IF @ = conn[n] THEN NoFd ELSE @]
    /\ wire' = [wire EXCEPT ![conn[n]][n] = <<>>]
    /\ conn' = [conn EXCEPT ![n] = NoFd]
    /\ listener' = [listener EXCEPT ![n] = "accept"]
    /\ UNCHANGED <<main, path, backlog, asks, question, result, deaths>>

ClientHangsUp(n) ==
    /\ listener[n] = "serve" /\ ~mesh[n].is_server
    /\ Ended(n)
    /\ listener' = [listener EXCEPT ![n] = "off"]
    /\ UNCHANGED <<mesh, main, conn, path, backlog, wire, open, asks, question, result, deaths>>

AcceptEnds(n) ==
    /\ listener[n] = "accept" /\ ~mesh[n].running
    /\ listener' = [listener EXCEPT ![n] = "off"]
    /\ UNCHANGED <<mesh, main, conn, path, backlog, wire, open, asks, question, result, deaths>>

------------------------------------------------------------------------------
(* agent_mesh_stop, and what happens to a process from outside *)

(* Fault: the threads are not told to end. *)
StopFlags_KeepsRunning(m) == [m EXCEPT !.peer_fd = NoFd, !.listen_fd = FALSE]

StopFlags(m) == [m EXCEPT !.running = FALSE, !.peer_fd = NoFd, !.listen_fd = FALSE]

Stops(n) ==
    /\ main[n] = "idle"
    /\ mesh' = [mesh EXCEPT ![n] = StopFlags(@)]
    /\ open' = [c \in Conn |-> IF c \in ToSet(backlog[n]) THEN {}
                               ELSE IF c = mesh[n].peer_fd THEN open[c] \ {n} ELSE open[c]]
    /\ backlog' = [backlog EXCEPT ![n] = <<>>]
    /\ Go(n, "join")
    /\ UNCHANGED <<listener, conn, path, wire, asks, question, result, deaths>>

(* pthread_join; a server then unlinks the path, whoever has bound it now. *)
Joins(n) ==
    /\ main[n] = "join" /\ listener[n] = "off"
    /\ path' = IF mesh[n].is_server THEN NoAgent ELSE path
    /\ Go(n, "stopped")
    /\ wire' = [c \in Conn |-> [wire[c] EXCEPT ![n] = <<>>]]
    /\ conn' = [conn EXCEPT ![n] = NoFd]
    /\ UNCHANGED <<mesh, listener, backlog, open, asks, question, result, deaths>>

Crash(n) ==
    /\ main[n] \notin {"dead", "stopped"} /\ deaths < MaxDeaths
    /\ Dies(n)
    /\ deaths' = deaths + 1

Restarts(n) ==
    /\ main[n] = "dead"
    /\ Go(n, "connect")
    /\ UNCHANGED <<mesh, listener, conn, path, backlog, wire, open, asks, question, result, deaths>>

Main(n) == \/ StartAsClient(n) \/ StartUnlinks(n) \/ StartBinds(n) \/ StartListens(n)
           \/ SendRefused(n) \/ SendFrame(n) \/ SendNewline(n) \/ WaitEnds(n) \/ Joins(n)

Listens(n) == \/ Accepts(n) \/ ReadsResponse(n) \/ ReadsRequest(n) \/ ReadsEmptyLine(n)
              \/ ReplyNewline(n) \/ ServerHangsUp(n) \/ ClientHangsUp(n) \/ AcceptEnds(n)

Next == \E n \in Agent : \/ Main(n) \/ Listens(n)
                         \/ Reconnects(n) \/ Arms(n) \/ Stops(n)
                         \/ BrokenPipe(n) \/ Crash(n) \/ Restarts(n)

(* Both threads go on when they can; nobody has to ask, stop or die. *)
Fairness == \A n \in Agent : WF_vars(Main(n)) /\ WF_vars(Listens(n)) /\ WF_vars(BrokenPipe(n))

Spec == Init /\ [][Next]_vars /\ Fairness

------------------------------------------------------------------------------
TypeOK ==
    /\ mesh \in [Agent -> [is_server : BOOLEAN, listen_fd : BOOLEAN, peer_fd : {NoFd} \cup Conn,
                           running : BOOLEAN, next_msg_id : 1 .. MaxAsks + 1,
                           pending_req_id : 0 .. MaxAsks, pending_response : 0 .. MaxAsks,
                           pending_arrived : BOOLEAN]]
    /\ main \in [Agent -> {"connect", "bind", "listen", "idle", "consult", "armed", "written",
                           "wait", "join", "stopped", "dead"}]
    /\ listener \in [Agent -> {"off", "accept", "serve", "newline"}]
    /\ conn \in [Agent -> {NoFd} \cup Conn]
    /\ path \in Agent \cup {NoAgent}
    /\ open \in [Conn -> SUBSET Agent]
    /\ asks \in 0 .. MaxAsks
    /\ question \in [Agent -> 0 .. MaxAsks] /\ result \in [Agent -> 0 .. MaxAsks]

(* What agent_mesh_consult returns is the answer to the question of that   *)
(* very call: an answer that comes after its timeout, or after a restart   *)
(* began the ids anew, is never taken for the answer to a later question.  *)
AnswerIsOwn == \A n \in Agent : result[n] \in {NoText, question[n]}

(* An agent holds no connection it has lost sight of: every open end is    *)
(* the peer_fd, the listener's conn or still in the accept queue, and      *)
(* after agent_mesh_stop has joined the thread there is none.              *)
NoLeakedConnection ==
    \A n \in Agent, c \in Conn :
        n \in open[c] => /\ \/ c \in {mesh[n].peer_fd, conn[n]}
                            \/ c \in ToSet(backlog[n])
                         /\ main[n] \notin {"stopped", "dead"}

(* The descriptors and message ids of agent_mesh_t are of their type, and  *)
(* no connection is left open that neither thread knows.                   *)
MeshInv == TypeOK /\ NoLeakedConnection

(* Two agents that consult each other at the same time never wait for each *)
(* other's main thread, and agent_mesh_stop comes back from pthread_join:  *)
(* every call into the mesh returns, or its process ends.                  *)
EveryMeshCallReturns ==
    \A n \in Agent : main[n] \in {"armed", "written", "wait", "join"}
                        ~> main[n] \in {"idle", "stopped", "dead"}
==============================================================================
