---------------------------- MODULE AgentMeshProofs ----------------------------
(***************************************************************************)
(* Safety of the inter-agent mesh, for any number of agents, consults,     *)
(* connections, crashes and restarts.                                      *)
(***************************************************************************)
EXTENDS AgentMesh, SequenceTheorems, WellFoundedInduction, TLAPS

(* A non-empty set of naturals has a least element. *)
LEMMA LeastNatural ==
    ASSUME NEW S \in SUBSET Nat, S # {}
    PROVE  \E x \in S : \A y \in S : x <= y
<1> DEFINE R == OpToRel(<, Nat)
<1>1. \A x, y \in Nat : <<x, y>> \in R <=> x < y
  BY DEF OpToRel
<1>2. IsWellFoundedOn(R, Nat)
  BY NatLessThanWellFounded
<1> HIDE DEF R
<1>3. PICK x \in S : \A y \in S : <<y, x>> \notin R
  BY <1>2, WFMin
<1>4. \A y \in S : ~(y < x)
  BY <1>1, <1>3, Zenon
<1>5. QED
  BY <1>4


MeshRec == [is_server : BOOLEAN, listen_fd : BOOLEAN, peer_fd : {NoFd} \cup Conn,
            running : BOOLEAN, next_msg_id : 1 .. MaxAsks + 1,
            pending_req_id : 0 .. MaxAsks, pending_response : 0 .. MaxAsks,
            pending_arrived : BOOLEAN]
MainAt == {"connect", "bind", "listen", "idle", "consult", "armed", "written",
           "wait", "join", "stopped", "dead"}
ListenerAt == {"off", "accept", "serve", "newline"}

Frames == [kind : {"frame"}, resp : BOOLEAN, id : Nat \ {0}, act : Actions,
           q : 0 .. MaxAsks, long : BOOLEAN]
Token  == Frames \cup {NL}
Toks(s) == {s[i] : i \in 1 .. Len(s)}

(* The types, those of the wires and queues included, and how far the ids  *)
(* have got.                                                               *)
Types ==
    /\ mesh \in [Agent -> MeshRec]
    /\ main \in [Agent -> MainAt]
    /\ listener \in [Agent -> ListenerAt]
    /\ conn \in [Agent -> {NoFd} \cup Conn]
    /\ path \in Agent \cup {NoAgent}
    /\ open \in [Conn -> SUBSET Agent]
    /\ asks \in 0 .. MaxAsks
    /\ question \in [Agent -> 0 .. MaxAsks] /\ result \in [Agent -> 0 .. MaxAsks]
    /\ wire \in [Conn -> [Agent -> Seq(Token)]]
    /\ backlog \in [Agent -> Seq(Conn)]

LEMMA TypesAreTypeOK == Types => TypeOK
  BY DEF Types, TypeOK, MeshRec, MainAt, ListenerAt

Counted == \A n \in Agent :
    /\ mesh[n].next_msg_id <= asks + 1
    /\ main[n] = "armed" => /\ mesh[n].pending_req_id = mesh[n].next_msg_id
                            /\ mesh[n].next_msg_id <= asks
    /\ main[n] = "written" => mesh[n].peer_fd # NoFd
    /\ listener[n] \in {"serve", "newline"} => conn[n] \in Conn

-----------------------------------------------------------------------------
(* Sequences of tokens. *)

LEMMA NoToks == Toks(<<>>) = {}
<1>1. Len(<<>>) = 0
  OBVIOUS
<1>2. \A i \in 1 .. 0 : FALSE
  OBVIOUS
<1>3. QED
  BY <1>1, <1>2 DEF Toks

LEMMA ToksAppend ==
    ASSUME NEW s \in Seq(Token), NEW t \in Token
    PROVE  Append(s, t) \in Seq(Token) /\ Toks(Append(s, t)) = Toks(s) \cup {t}
<1> DEFINE r == Append(s, t)
<1>1. /\ r \in Seq(Token) /\ Len(r) = Len(s) + 1 /\ Len(s) \in Nat
      /\ \A i \in 1 .. Len(s) : r[i] = s[i]
      /\ r[Len(s) + 1] = t
  BY AppendProperties, LenProperties
<1> HIDE DEF r
<1>2. \A i \in 1 .. Len(s) + 1 : i \in 1 .. Len(s) \/ i = Len(s) + 1
  BY <1>1
<1>3. \A i \in 1 .. Len(s) : i \in 1 .. Len(s) + 1
  BY <1>1
<1>4. Len(s) + 1 \in 1 .. Len(s) + 1
  BY <1>1
<1>5. Toks(r) = Toks(s) \cup {t}
  BY <1>1, <1>2, <1>3, <1>4 DEF Toks
<1>6. QED
  BY <1>1, <1>5 DEF r

LEMMA ToksRest ==
    ASSUME NEW s \in Seq(Token), NEW a \in 0 .. Len(s)
    PROVE  /\ SubSeq(s, a + 1, Len(s)) \in Seq(Token)
           /\ Toks(SubSeq(s, a + 1, Len(s))) \subseteq Toks(s)
           /\ SubSeq(s, a + 1, Len(s)) # <<>> => s # <<>>
<1> DEFINE r == SubSeq(s, a + 1, Len(s))
           L == Len(s)
<1>1. L \in Nat /\ a \in Nat /\ a <= L
  BY LenProperties
<1>2. \A i \in a + 1 .. L : s[i] \in Token
  BY <1>1, ElementOfSeq
<1>3. /\ r \in Seq(Token) /\ Len(r) = IF a + 1 <= L THEN L - (a + 1) + 1 ELSE 0
      /\ \A i \in 1 .. L - (a + 1) + 1 : r[i] = s[a + 1 + i - 1]
  BY <1>1, <1>2, SubSeqProperties
<1> HIDE DEF r, L
<1>4. Len(r) = L - a
  BY <1>1, <1>3
<1>5. \A i \in 1 .. L - a : r[i] = s[a + i] /\ a + i \in 1 .. L
  <2>1. L - (a + 1) + 1 = L - a /\ \A i \in 1 .. L - a : a + 1 + i - 1 = a + i /\ a + i \in 1 .. L
    BY <1>1
  <2>2. QED
    BY <1>3, <2>1
<1>6. Toks(r) \subseteq Toks(s)
  BY <1>4, <1>5 DEF Toks, L
<1>7. r # <<>> => s # <<>>
  <2> SUFFICES ASSUME s = <<>> PROVE r = <<>>
    OBVIOUS
  <2>1. L = 0
    BY DEF L
  <2>2. Len(r) = 0
    BY <1>1, <1>4, <2>1
  <2>3. QED
    BY <1>3, <2>2, EmptySeq
<1>8. QED
  BY <1>3, <1>6, <1>7 DEF r, L

(* The line in front of a listener. *)
LEMMA LineFacts ==
    ASSUME NEW n, Text(n) \in Seq(Token)
    PROVE  /\ NewlineAt(n) \in 0 .. Len(Text(n))
           /\ NewlineAt(n) > 1 => /\ Len(Text(n)) >= 1 /\ Text(n)[1] \in Frames
                                  /\ Text(n)[1] \in Toks(Text(n))
<1> DEFINE s == Text(n)
           I == {i \in 1 .. Len(s) : s[i] = NL}
<1>1. Len(s) \in Nat
  BY LenProperties
<1>2. NewlineAt(n) = IF I # {} THEN Min(I) ELSE 0
  BY DEF NewlineAt, SelectInSeq
<1>3. I # {} => Min(I) \in I /\ \A y \in I : Min(I) <= y
  <2>1. I \in SUBSET Nat
    BY <1>1
  <2> HIDE DEF I
  <2>2. QED
    BY <2>1, LeastNatural DEF Min
<1> HIDE DEF s
<1>4. NewlineAt(n) \in 0 .. Len(s)
  BY <1>1, <1>2, <1>3
<1>5. ASSUME NewlineAt(n) > 1
      PROVE  /\ Len(s) >= 1 /\ s[1] \in Frames /\ s[1] \in Toks(s)
  <2>1. I # {} /\ NewlineAt(n) \in I /\ \A y \in I : NewlineAt(n) <= y
    BY <1>2, <1>3, <1>5
  <2>2. 1 \in 1 .. Len(s)
    BY <1>1, <2>1
  <2>3. 1 \notin I
    BY <1>1, <1>5, <2>1
  <2>4. s[1] # NL
    BY <2>2, <2>3
  <2>5. s[1] \in Token
    BY <2>2, ElementOfSeq DEF s
  <2>6. s[1] \in Frames
    BY <2>4, <2>5 DEF Token
  <2>7. QED
    BY <1>1, <2>2, <2>6 DEF Toks
<1>6. QED
  BY <1>4, <1>5 DEF s

LEMMA NewTokens ==
    /\ NL \in Token
    /\ \A r \in BOOLEAN, id \in Nat \ {0}, act \in Actions, q \in 0 .. MaxAsks, long \in BOOLEAN :
          /\ Frame(r, id, act, q, long) \in Frames /\ Frame(r, id, act, q, long) \in Token
          /\ Frame(r, id, act, q, long).resp = r /\ Frame(r, id, act, q, long).id = id
          /\ Frame(r, id, act, q, long).q = q
  BY DEF Token, Frames, Frame

(* What Put leaves on the wires: the token, at the far ends of c. *)
LEMMA PutFacts ==
    ASSUME Types, NEW c \in Conn, NEW n \in Agent, NEW tok \in Token, Put(c, n, tok)
    PROVE  /\ wire' \in [Conn -> [Agent -> Seq(Token)]]
           /\ \A d \in Conn, m \in Agent :
                /\ wire'[d][m] = IF d = c /\ m # n /\ m \in open[c]
                                 THEN Append(wire[d][m], tok) ELSE wire[d][m]
                /\ wire'[d][m] # <<>> => wire[d][m] # <<>> \/ m \in open[d]
                /\ \A f \in Toks(wire'[d][m]) :
                      f \in Toks(wire[d][m]) \/ (f = tok /\ d = c /\ m # n /\ m \in open[c])
<1> DEFINE row == [m \in Agent |-> IF m # n /\ m \in open[c] THEN Append(wire[c][m], tok) ELSE wire[c][m]]
<1>0. wire \in [Conn -> [Agent -> Seq(Token)]]
  BY DEF Types
<1>1. \A d \in Conn, m \in Agent : wire[d][m] \in Seq(Token)
  BY <1>0
<1>2. \A m \in Agent : Append(wire[c][m], tok) \in Seq(Token)
  BY <1>1, ToksAppend
<1>3. row \in [Agent -> Seq(Token)]
  BY <1>1, <1>2
<1>4. wire' = [wire EXCEPT ![c] = row]
  BY DEF Put
<1>5. wire' \in [Conn -> [Agent -> Seq(Token)]]
  <2> HIDE DEF row
  <2> QED
    BY <1>0, <1>3, <1>4
<1>6. ASSUME NEW d \in Conn, NEW m \in Agent
      PROVE  wire'[d][m] = IF d = c /\ m # n /\ m \in open[c]
                           THEN Append(wire[d][m], tok) ELSE wire[d][m]
  <2>1. CASE d = c
    <3>1. wire'[d] = row
      BY <1>0, <1>4, <2>1
    <3>2. QED
      BY <2>1, <3>1
  <2>2. CASE d # c
    <3>1. wire'[d] = wire[d]
      <4> HIDE DEF row
      <4> QED
        BY <1>0, <1>4, <2>2
    <3>2. QED
      BY <2>2, <3>1
  <2>3. QED
    BY <2>1, <2>2
<1>7. ASSUME NEW d \in Conn, NEW m \in Agent
      PROVE  /\ wire'[d][m] # <<>> => wire[d][m] # <<>> \/ m \in open[d]
             /\ \A f \in Toks(wire'[d][m]) :
                   f \in Toks(wire[d][m]) \/ (f = tok /\ d = c /\ m # n /\ m \in open[c])
  <2>1. CASE d = c /\ m # n /\ m \in open[c]
    <3>1. Toks(Append(wire[d][m], tok)) = Toks(wire[d][m]) \cup {tok}
      BY <1>1, ToksAppend
    <3>2. QED
      BY <1>6, <2>1, <3>1
  <2>2. CASE ~(d = c /\ m # n /\ m \in open[c])
    BY <1>6, <2>2
  <2>3. QED
    BY <2>1, <2>2
<1>8. QED
  BY <1>5, <1>6, <1>7

(* What is left once a line has been read. *)
LEMMA RestFacts ==
    ASSUME Types, Counted, NEW n \in Agent, listener[n] = "serve"
    PROVE  /\ conn[n] \in Conn /\ Text(n) \in Seq(Token)
           /\ Rest(n) \in [Conn -> [Agent -> Seq(Token)]]
           /\ \A d \in Conn, m \in Agent :
                /\ Toks(Rest(n)[d][m]) \subseteq Toks(wire[d][m])
                /\ Rest(n)[d][m] # <<>> => wire[d][m] # <<>>
<1> DEFINE c == conn[n]
           s == wire[c][n]
           a == NewlineAt(n)
           u == SubSeq(s, a + 1, Len(s))
           W == Rest(n)
<1>1. c \in Conn /\ wire \in [Conn -> [Agent -> Seq(Token)]]
  BY DEF Counted, Types
<1>2. s \in Seq(Token) /\ Text(n) = s
  BY <1>1 DEF Text
<1>3. a \in 0 .. Len(s)
  BY <1>2, LineFacts
<1> HIDE DEF a
<1>4. u \in Seq(Token) /\ Toks(u) \subseteq Toks(s) /\ (u # <<>> => s # <<>>)
  BY <1>2, <1>3, ToksRest
<1>5. W = [wire EXCEPT ![c] = [wire[c] EXCEPT ![n] = u]]
  BY <1>1 DEF Rest, a
<1> HIDE DEF u, W, c
<1>6. W \in [Conn -> [Agent -> Seq(Token)]]
  BY <1>1, <1>4, <1>5
<1>7. \A d \in Conn, m \in Agent : W[d][m] = IF d = c /\ m = n THEN u ELSE wire[d][m]
  BY <1>1, <1>5
<1>8. \A d \in Conn, m \in Agent : /\ Toks(W[d][m]) \subseteq Toks(wire[d][m])
                                   /\ W[d][m] # <<>> => wire[d][m] # <<>>
  BY <1>4, <1>7
<1>9. QED
  BY <1>1, <1>2, <1>6, <1>8 DEF W, c

(* A reply carries the id and the question of the request it answers. *)
LEMMA RequestFacts ==
    ASSUME Types, Counted, NEW n \in Agent, ReadsRequest(n)
    PROVE  /\ conn[n] \in Conn /\ n \in open[conn[n]]
           /\ Text(n)[1] \in Frames /\ ~Text(n)[1].resp /\ Text(n)[1] \in Toks(wire[conn[n]][n])
           /\ wire' \in [Conn -> [Agent -> Seq(Token)]]
           /\ \A d \in Conn, m \in Agent :
                /\ wire'[d][m] # <<>> => wire[d][m] # <<>> \/ m \in open[d]
                /\ \A f \in Toks(wire'[d][m]) :
                     \/ f \in Toks(wire[d][m])
                     \/ /\ d = conn[n] /\ m # n /\ m \in open[d]
                        /\ f = Frame(TRUE, Text(n)[1].id, Text(n)[1].act, Text(n)[1].q, FALSE)
<1> DEFINE c == conn[n]
           g == Text(n)[1]
           r == Frame(TRUE, g.id, g.act, g.q, FALSE)
           W == Rest(n)
<1>0. listener[n] = "serve" /\ n \in open[c] /\ NewlineAt(n) > 1 /\ ~g.resp
  BY DEF ReadsRequest, Reading
<1>1. /\ c \in Conn /\ Text(n) \in Seq(Token) /\ W \in [Conn -> [Agent -> Seq(Token)]]
      /\ \A d \in Conn, m \in Agent : /\ Toks(W[d][m]) \subseteq Toks(wire[d][m])
                                      /\ W[d][m] # <<>> => wire[d][m] # <<>>
  BY <1>0, RestFacts
<1>2. g \in Frames /\ g \in Toks(Text(n)) /\ Text(n) = wire[c][n]
  BY <1>0, <1>1, LineFacts DEF Text
<1>3. g.id \in Nat \ {0} /\ g.act \in Actions /\ g.q \in 0 .. MaxAsks
  BY <1>2 DEF Frames
<1>4. r \in Token
  BY <1>3, NewTokens
<1> HIDE DEF r, W, g
<1>5. wire \in [Conn -> [Agent -> Seq(Token)]]
  BY DEF Types
<1>6. \A d \in Conn, m \in Agent : wire[d][m] \in Seq(Token)
  BY <1>5
<1>7. \A d \in Conn, m \in Agent : /\ Append(wire[d][m], r) \in Seq(Token)
                                   /\ Toks(Append(wire[d][m], r)) = Toks(wire[d][m]) \cup {r}
  BY <1>4, <1>6, ToksAppend
<1> DEFINE row == [m \in Agent |-> CASE m = n -> W[c][n]
                                     [] m # n /\ m \in open[c] /\ Answers(n, g) -> Append(wire[c][m], r)
                                     [] OTHER -> wire[c][m]]
<1>8. wire' = [wire EXCEPT ![c] = row]
  BY <1>1, <1>5 DEF ReadsRequest, r, g, W
<1>9. \A m \in Agent : \/ row[m] = wire[c][m]
                       \/ m = n /\ row[m] = W[c][n]
                       \/ m # n /\ m \in open[c] /\ row[m] = Append(wire[c][m], r)
  OBVIOUS
<1>10. row \in [Agent -> Seq(Token)]
  <2>1. \A m \in Agent : row[m] \in Seq(Token)
    BY <1>1, <1>6, <1>7, <1>9
  <2>2. row = [m \in Agent |-> row[m]]
    OBVIOUS
  <2> HIDE DEF row
  <2>3. QED
    BY <2>1, <2>2
<1> HIDE DEF row
<1>11. wire' \in [Conn -> [Agent -> Seq(Token)]]
  BY <1>1, <1>5, <1>8, <1>10
<1>12. \A d \in Conn, m \in Agent : wire'[d][m] = IF d = c THEN row[m] ELSE wire[d][m]
  BY <1>5, <1>8
<1>13. ASSUME NEW d \in Conn, NEW m \in Agent
       PROVE  /\ wire'[d][m] # <<>> => wire[d][m] # <<>> \/ m \in open[d]
              /\ \A f \in Toks(wire'[d][m]) :
                   \/ f \in Toks(wire[d][m])
                   \/ d = c /\ m # n /\ m \in open[d] /\ f = r
  <2>1. CASE d # c
    BY <1>12, <2>1
  <2>2. CASE d = c
    <3>1. wire'[d][m] = row[m]
      BY <1>12, <2>2
    <3>2. CASE row[m] = wire[c][m]
      BY <2>2, <3>1, <3>2
    <3>3. CASE m = n /\ row[m] = W[c][n]
      BY <1>1, <2>2, <3>1, <3>3
    <3>4. CASE m # n /\ m \in open[c] /\ row[m] = Append(wire[c][m], r)
      <4>1. Toks(wire'[d][m]) = Toks(wire[d][m]) \cup {r}
        BY <1>7, <2>2, <3>1, <3>4
      <4>2. QED
        BY <2>2, <3>4, <4>1
    <3>5. QED
      BY <1>9, <3>2, <3>3, <3>4
  <2>3. QED
    BY <2>1, <2>2
<1>14. QED
  BY <1>0, <1>1, <1>2, <1>11, <1>13 DEF r, g

-----------------------------------------------------------------------------
(* Types and ids. *)

LEMMA MeshInitially == Init => Types /\ Counted
<1> SUFFICES ASSUME Init PROVE Types /\ Counted
  OBVIOUS
<1>1. InitMesh \in MeshRec
  BY MeshAssumption DEF InitMesh, MeshRec, NoText, NoFd
<1>2. <<>> \in Seq(Token) /\ <<>> \in Seq(Conn) /\ 0 \in 0 .. MaxAsks /\ NoText = 0
  BY MeshAssumption DEF NoText
<1>3. Types
  BY <1>1, <1>2 DEF Init, Types, MainAt, ListenerAt
<1>4. Counted
  <2>1. \A n \in Agent : mesh[n].next_msg_id = 1 /\ main[n] = "connect" /\ listener[n] = "off" /\ asks = 0
    BY DEF Init, InitMesh
  <2>2. QED
    BY <2>1 DEF Counted
<1>5. QED
  BY <1>3, <1>4

LEMMA DiesTypes ==
    ASSUME Types, NEW n \in Agent, Dies(n)
    PROVE  Types'
<1> USE DEF Types
<1>1. InitMesh \in MeshRec /\ "dead" \in MainAt /\ "off" \in ListenerAt
  BY MeshAssumption DEF InitMesh, MeshRec, NoText, NoFd, MainAt, ListenerAt
<1>2. <<>> \in Seq(Token) /\ <<>> \in Seq(Conn) /\ NoText \in 0 .. MaxAsks
  BY MeshAssumption DEF NoText
<1>3. mesh' \in [Agent -> MeshRec] /\ main' \in [Agent -> MainAt] /\ listener' \in [Agent -> ListenerAt]
  BY <1>1 DEF Dies, Go
<1>4. conn' \in [Agent -> {NoFd} \cup Conn] /\ backlog' \in [Agent -> Seq(Conn)]
      /\ result' \in [Agent -> 0 .. MaxAsks]
  BY <1>2 DEF Dies
<1>5. open' \in [Conn -> SUBSET Agent]
  <2>1. \A c \in Conn : (IF c \in ToSet(backlog[n]) THEN {} ELSE open[c] \ {n}) \in SUBSET Agent
    OBVIOUS
  <2>2. QED
    BY <2>1 DEF Dies
<1>6. wire' \in [Conn -> [Agent -> Seq(Token)]]
  <2>1. \A c \in Conn : [wire[c] EXCEPT ![n] = <<>>] \in [Agent -> Seq(Token)]
    BY <1>2
  <2>2. QED
    BY <2>1 DEF Dies
<1>7. QED
  BY <1>3, <1>4, <1>5, <1>6 DEF Dies

LEMMA ConnectsTypes ==
    ASSUME Types, NEW n \in Agent, Connects(n), Reachable(n)
    PROVE  /\ mesh' \in [Agent -> MeshRec] /\ listener' \in [Agent -> ListenerAt]
           /\ conn' \in [Agent -> {NoFd} \cup Conn] /\ backlog' \in [Agent -> Seq(Conn)]
           /\ open' \in [Conn -> SUBSET Agent] /\ conn'[n] \in Conn
           /\ listener'[n] = "serve"
           /\ mesh'[n].next_msg_id = mesh[n].next_msg_id
           /\ \A m \in Agent \ {n} : /\ mesh'[m] = mesh[m] /\ listener'[m] = listener[m]
                                     /\ conn'[m] = conn[m]
<1> USE DEF Types
<1>1. PICK c \in Fresh :
        /\ mesh' = [mesh EXCEPT ![n].is_server = FALSE, ![n].peer_fd = c, ![n].running = TRUE]
        /\ open' = [open EXCEPT ![c] = {n, path}]
        /\ backlog' = [backlog EXCEPT ![path] = Append(@, c)]
        /\ listener' = [listener EXCEPT ![n] = "serve"]
        /\ conn' = [conn EXCEPT ![n] = c]
  BY DEF Connects
<1>2. c \in Conn /\ path \in Agent
  BY DEF Fresh, Reachable
<1>3. mesh' \in [Agent -> MeshRec] /\ mesh'[n].next_msg_id = mesh[n].next_msg_id
      /\ \A m \in Agent \ {n} : mesh'[m] = mesh[m]
  <2> DEFINE r == [mesh[n] EXCEPT !.is_server = FALSE, !.peer_fd = c, !.running = TRUE]
  <2>1. mesh[n] \in MeshRec
    OBVIOUS
  <2>2. r \in MeshRec /\ r.next_msg_id = mesh[n].next_msg_id
    BY <1>2, <2>1 DEF MeshRec
  <2>3. mesh' = [mesh EXCEPT ![n] = r]
    BY <1>1
  <2> HIDE DEF r
  <2>4. QED
    BY <2>2, <2>3
<1>4. backlog[path] \in Seq(Conn)
  BY <1>2
<1>5. Append(backlog[path], c) \in Seq(Conn)
  BY <1>2, <1>4, AppendProperties
<1>6. backlog' \in [Agent -> Seq(Conn)]
  BY <1>1, <1>5
<1>7. QED
  BY <1>1, <1>2, <1>3, <1>6 DEF ListenerAt

(* One field or several of one agent's struct change. *)
LEMMA MeshChanges ==
    ASSUME Types, NEW n \in Agent, NEW r \in MeshRec, mesh' = [mesh EXCEPT ![n] = r]
    PROVE  /\ mesh' \in [Agent -> MeshRec] /\ mesh'[n] = r
           /\ \A m \in Agent \ {n} : mesh'[m] = mesh[m]
  BY DEF Types

LEMMA GoFacts ==
    ASSUME Types, NEW n \in Agent, NEW w \in MainAt, Go(n, w)
    PROVE  /\ main' \in [Agent -> MainAt] /\ main'[n] = w
           /\ \A m \in Agent \ {n} : main'[m] = main[m]
  BY DEF Types, Go

LEMMA StartTypes ==
    ASSUME Types, Counted, NEW n \in Agent,
           \/ StartAsClient(n) \/ StartUnlinks(n) \/ StartBinds(n) \/ StartListens(n) \/ Reconnects(n)
    PROVE  Types' /\ Counted'
<1>0. "idle" \in MainAt /\ "bind" \in MainAt /\ "listen" \in MainAt /\ "consult" \in MainAt
      /\ "accept" \in ListenerAt
  BY DEF MainAt, ListenerAt
<1>1. CASE StartAsClient(n) \/ Reconnects(n)
  <2>1. Connects(n) /\ Reachable(n) /\ (Go(n, "idle") \/ Go(n, "consult"))
        /\ UNCHANGED <<path, wire, asks, question, result, deaths>>
    BY <1>1 DEF StartAsClient, Reconnects
  <2>2. /\ main' \in [Agent -> MainAt] /\ main'[n] \in {"idle", "consult"}
        /\ \A m \in Agent \ {n} : main'[m] = main[m]
    BY <1>0, <2>1, GoFacts
  <2>3. /\ mesh' \in [Agent -> MeshRec] /\ listener' \in [Agent -> ListenerAt]
        /\ conn' \in [Agent -> {NoFd} \cup Conn] /\ backlog' \in [Agent -> Seq(Conn)]
        /\ open' \in [Conn -> SUBSET Agent] /\ conn'[n] \in Conn
        /\ listener'[n] = "serve"
        /\ mesh'[n].next_msg_id = mesh[n].next_msg_id
        /\ \A m \in Agent \ {n} : /\ mesh'[m] = mesh[m] /\ listener'[m] = listener[m]
                                  /\ conn'[m] = conn[m]
    BY <2>1, ConnectsTypes
  <2>4. Types'
    BY <2>1, <2>2, <2>3 DEF Types
  <2>5. Counted'
    BY <2>1, <2>2, <2>3, ZenonT(60) DEF Counted
  <2>6. QED
    BY <2>4, <2>5
<1>2. CASE StartUnlinks(n)
  <2>1. /\ main' \in [Agent -> MainAt] /\ main'[n] = "bind"
        /\ \A m \in Agent \ {n} : main'[m] = main[m]
    BY <1>0, <1>2, GoFacts DEF StartUnlinks
  <2>2. QED
    BY <1>2, <2>1 DEF StartUnlinks, Types, Counted
<1>3. CASE StartBinds(n)
  <2>1. /\ main' \in [Agent -> MainAt] /\ main'[n] \in {"listen", "idle"}
        /\ \A m \in Agent \ {n} : main'[m] = main[m]
    BY <1>0, <1>3, GoFacts DEF StartBinds
  <2>2. path' \in Agent \cup {NoAgent}
    BY <1>3 DEF StartBinds, Types
  <2>3. QED
    BY <1>3, <2>1, <2>2 DEF StartBinds, Types, Counted
<1>4. CASE StartListens(n)
  <2> DEFINE r == [mesh[n] EXCEPT !.is_server = TRUE, !.listen_fd = TRUE, !.running = TRUE]
  <2>0. mesh[n] \in MeshRec
    BY DEF Types
  <2>1. r \in MeshRec /\ r.next_msg_id = mesh[n].next_msg_id
    BY <2>0 DEF MeshRec
  <2>2. mesh' = [mesh EXCEPT ![n] = r]
    BY <1>4 DEF StartListens
  <2> HIDE DEF r
  <2>3. /\ mesh' \in [Agent -> MeshRec] /\ mesh'[n] = r
        /\ \A m \in Agent \ {n} : mesh'[m] = mesh[m]
    BY <2>1, <2>2, MeshChanges
  <2>4. /\ main' \in [Agent -> MainAt] /\ main'[n] = "idle"
        /\ \A m \in Agent \ {n} : main'[m] = main[m]
    BY <1>0, <1>4, GoFacts DEF StartListens
  <2>5. /\ listener' \in [Agent -> ListenerAt] /\ listener'[n] = "accept"
        /\ \A m \in Agent \ {n} : listener'[m] = listener[m]
    BY <1>0, <1>4 DEF StartListens, Types
  <2>6. QED
    BY <1>4, <2>1, <2>3, <2>4, <2>5 DEF StartListens, Types, Counted
<1>5. QED
  BY <1>1, <1>2, <1>3, <1>4

LEMMA ArmsTypes ==
    ASSUME Types, Counted, NEW n \in Agent, Arms(n)
    PROVE  /\ Types' /\ Counted'
           /\ mesh'[n].pending_req_id = mesh[n].next_msg_id /\ ~mesh'[n].pending_arrived
           /\ mesh'[n].next_msg_id = mesh[n].next_msg_id /\ mesh'[n].peer_fd = mesh[n].peer_fd
           /\ mesh'[n].listen_fd = mesh[n].listen_fd /\ result'[n] = NoText /\ main'[n] = "armed"
           /\ \A m \in Agent \ {n} : /\ mesh'[m] = mesh[m] /\ main'[m] = main[m]
                                     /\ question'[m] = question[m] /\ result'[m] = result[m]
<1> DEFINE r == [mesh[n] EXCEPT !.pending_req_id = Registered(n), !.pending_arrived = FALSE,
                                !.pending_response = NoText]
<1>1. /\ asks < MaxAsks /\ asks \in 0 .. MaxAsks /\ MaxAsks \in Nat /\ mesh[n] \in MeshRec
      /\ mesh[n].next_msg_id <= asks + 1 /\ mesh[n].next_msg_id \in 1 .. MaxAsks + 1
  BY MeshAssumption DEF Arms, Types, Counted, MeshRec
<1>2. mesh[n].next_msg_id \in 0 .. MaxAsks /\ asks + 1 \in 0 .. MaxAsks /\ NoText \in 0 .. MaxAsks
      /\ "armed" \in MainAt
  BY <1>1 DEF NoText, MainAt
<1>3. /\ r \in MeshRec /\ r.pending_req_id = mesh[n].next_msg_id /\ r.pending_arrived = FALSE
      /\ r.next_msg_id = mesh[n].next_msg_id /\ r.peer_fd = mesh[n].peer_fd
      /\ r.listen_fd = mesh[n].listen_fd
  BY <1>1, <1>2 DEF MeshRec, Registered
<1>4. mesh' = [mesh EXCEPT ![n] = r]
  BY DEF Arms
<1> HIDE DEF r
<1>5. /\ mesh' \in [Agent -> MeshRec] /\ mesh'[n] = r
      /\ \A m \in Agent \ {n} : mesh'[m] = mesh[m]
  BY <1>3, <1>4, MeshChanges
<1>6. /\ main' \in [Agent -> MainAt] /\ main'[n] = "armed"
      /\ \A m \in Agent \ {n} : main'[m] = main[m]
  BY <1>2, GoFacts DEF Arms
<1>7. /\ question' \in [Agent -> 0 .. MaxAsks] /\ result' \in [Agent -> 0 .. MaxAsks]
      /\ result'[n] = NoText /\ asks' = asks + 1
      /\ \A m \in Agent \ {n} : question'[m] = question[m] /\ result'[m] = result[m]
  BY <1>2 DEF Arms, Types
<1>8. Types'
  BY <1>2, <1>5, <1>6, <1>7 DEF Arms, Types
<1>9. Counted'
  <2>1. ASSUME NEW m \in Agent
        PROVE  /\ mesh'[m].next_msg_id = mesh[m].next_msg_id
               /\ m # n => main'[m] = main[m] /\ mesh'[m] = mesh[m]
    BY <1>3, <1>5, <1>6
  <2>2. \A m \in Agent : mesh[m].next_msg_id \in Int
    BY DEF Types, MeshRec
  <2>3. \A m \in Agent : mesh[m].next_msg_id <= asks' + 1
                         /\ (mesh[m].next_msg_id <= asks => mesh[m].next_msg_id <= asks')
    BY <1>1, <1>7, <2>2 DEF Counted
  <2>4. mesh[n].next_msg_id <= asks'
    BY <1>1, <1>7, <2>2
  <2>5. UNCHANGED <<listener, conn>>
    BY DEF Arms
  <2>6. QED
    BY <1>3, <1>5, <1>6, <2>1, <2>3, <2>4, <2>5 DEF Counted
<1>10. QED
  BY <1>3, <1>5, <1>6, <1>7, <1>8, <1>9

LEMMA SendFrameTypes ==
    ASSUME Types, Counted, NEW n \in Agent, SendFrame(n)
    PROVE  /\ Types' /\ Counted'
           /\ mesh'[n] = [mesh[n] EXCEPT !.next_msg_id = mesh[n].next_msg_id + 1]
           /\ main'[n] = "written"
           /\ \A m \in Agent \ {n} : mesh'[m] = mesh[m] /\ main'[m] = main[m]
           /\ mesh[n].peer_fd \in Conn
           /\ \E t \in Frames :
                /\ ~t.resp /\ t.id = mesh[n].next_msg_id /\ t.q = question[n]
                /\ Put(mesh[n].peer_fd, n, t)
<1> DEFINE r == [mesh[n] EXCEPT !.next_msg_id = mesh[n].next_msg_id + 1]
           k == mesh[n].next_msg_id
<1>1. /\ asks \in 0 .. MaxAsks /\ MaxAsks \in Nat /\ mesh[n] \in MeshRec
      /\ k <= asks /\ k \in 1 .. MaxAsks + 1 /\ question[n] \in 0 .. MaxAsks
      /\ mesh[n].peer_fd \in Conn /\ mesh[n].peer_fd # NoFd
  BY MeshAssumption DEF SendFrame, Types, Counted, MeshRec
<1>2. k + 1 \in 1 .. MaxAsks + 1 /\ k \in Nat \ {0} /\ k + 1 <= asks + 1 /\ "written" \in MainAt
  BY <1>1 DEF MainAt
<1>3. r \in MeshRec /\ r.next_msg_id = k + 1 /\ r.peer_fd = mesh[n].peer_fd
  BY <1>1, <1>2 DEF MeshRec
<1>4. mesh' = [mesh EXCEPT ![n] = r]
  BY DEF SendFrame
<1> HIDE DEF r, k
<1>5. /\ mesh' \in [Agent -> MeshRec] /\ mesh'[n] = r
      /\ \A m \in Agent \ {n} : mesh'[m] = mesh[m]
  BY <1>3, <1>4, MeshChanges
<1>6. /\ main' \in [Agent -> MainAt] /\ main'[n] = "written"
      /\ \A m \in Agent \ {n} : main'[m] = main[m]
  BY <1>2, GoFacts DEF SendFrame
<1>7. PICK act \in Actions, long \in BOOLEAN :
         Put(mesh[n].peer_fd, n, Frame(FALSE, k, act, question[n], long))
  BY DEF SendFrame, k
<1> DEFINE t == Frame(FALSE, k, act, question[n], long)
<1>8. t \in Frames /\ t \in Token /\ t.resp = FALSE /\ t.id = k /\ t.q = question[n]
  BY <1>1, <1>2 DEF Frame, Frames, Token
<1>9. Put(mesh[n].peer_fd, n, t)
  BY <1>7
<1> HIDE DEF t
<1>10. wire' \in [Conn -> [Agent -> Seq(Token)]]
  BY <1>1, <1>8, <1>9, PutFacts
<1>11. UNCHANGED <<listener, conn, path, backlog, open, asks, question, result>>
  BY DEF SendFrame
<1>12. Types'
  BY <1>5, <1>6, <1>10, <1>11 DEF Types
<1>13. Counted'
  BY <1>1, <1>2, <1>3, <1>5, <1>6, <1>11 DEF Counted
<1>14. \E u \in Frames : /\ ~u.resp /\ u.id = k /\ u.q = question[n]
                         /\ Put(mesh[n].peer_fd, n, u)
  BY <1>8, <1>9
<1>15. QED
  BY <1>1, <1>5, <1>6, <1>12, <1>13, <1>14 DEF r, k

LEMMA SendTypes ==
    ASSUME Types, Counted, NEW n \in Agent, SendRefused(n) \/ SendNewline(n)
    PROVE  /\ Types' /\ Counted' /\ main'[n] \in {"idle", "wait"}
           /\ \A m \in Agent \ {n} : main'[m] = main[m]
           /\ mesh[n].peer_fd = NoFd \/ mesh[n].peer_fd \in Conn
<1>0. "idle" \in MainAt /\ "wait" \in MainAt /\ (mesh[n].peer_fd = NoFd \/ mesh[n].peer_fd \in Conn)
  BY DEF MainAt, Types, MeshRec
<1>1. /\ main' \in [Agent -> MainAt] /\ main'[n] \in {"idle", "wait"}
      /\ \A m \in Agent \ {n} : main'[m] = main[m]
  <2>1. CASE SendRefused(n)
    BY <1>0, <2>1, GoFacts DEF SendRefused
  <2>2. CASE SendNewline(n)
    BY <1>0, <2>2, GoFacts DEF SendNewline
  <2>3. QED
    BY <2>1, <2>2
<1>2. UNCHANGED <<mesh, listener, conn, path, backlog, open, asks, question, result, deaths>>
  BY DEF SendRefused, SendNewline
<1>3. wire' \in [Conn -> [Agent -> Seq(Token)]]
  <2>1. CASE SendRefused(n)
    BY <2>1 DEF SendRefused, Types
  <2>2. CASE SendNewline(n)
    <3>1. mesh[n].peer_fd \in Conn /\ Put(mesh[n].peer_fd, n, NL) /\ NL \in Token
      BY <1>0, <2>2, NewTokens DEF SendNewline, Counted
    <3>2. QED
      BY <3>1, PutFacts
  <2>3. QED
    BY <2>1, <2>2
<1>4. Types'
  BY <1>1, <1>2, <1>3 DEF Types
<1>5. Counted'
  BY <1>1, <1>2 DEF Counted
<1>6. QED
  BY <1>0, <1>1, <1>4, <1>5

LEMMA WaitTypes ==
    ASSUME Types, Counted, NEW n \in Agent, WaitEnds(n)
    PROVE  /\ Types' /\ Counted' /\ main'[n] = "idle"
           /\ mesh'[n].next_msg_id = mesh[n].next_msg_id /\ mesh'[n].peer_fd = mesh[n].peer_fd
           /\ mesh'[n].listen_fd = mesh[n].listen_fd
           /\ mesh'[n].pending_req_id = 0 /\ ~mesh'[n].pending_arrived
           /\ result'[n] = IF mesh[n].pending_arrived THEN mesh[n].pending_response ELSE NoText
           /\ \A m \in Agent \ {n} : mesh'[m] = mesh[m] /\ main'[m] = main[m] /\ result'[m] = result[m]
<1> DEFINE p == mesh[n].pending_response
           t == IF mesh[n].pending_arrived THEN NoText ELSE p
           u == IF mesh[n].pending_arrived THEN p ELSE NoText
           r == [mesh[n] EXCEPT !.pending_req_id = 0, !.pending_arrived = FALSE, !.pending_response = t]
<1>1. mesh[n] \in MeshRec
  BY DEF Types
<1>2. p \in 0 .. MaxAsks /\ NoText \in 0 .. MaxAsks /\ 0 \in 0 .. MaxAsks /\ "idle" \in MainAt
  BY <1>1, MeshAssumption DEF MeshRec, NoText, MainAt
<1>3. t \in 0 .. MaxAsks /\ u \in 0 .. MaxAsks
  BY <1>2
<1>4. mesh' = [mesh EXCEPT ![n] = r]
  BY DEF WaitEnds
<1>5. result' = [result EXCEPT ![n] = u]
  BY DEF WaitEnds
<1> HIDE DEF t, u
<1>6. /\ r \in MeshRec /\ r.pending_req_id = 0 /\ r.pending_arrived = FALSE
      /\ r.next_msg_id = mesh[n].next_msg_id /\ r.peer_fd = mesh[n].peer_fd
      /\ r.listen_fd = mesh[n].listen_fd
  BY <1>1, <1>2, <1>3 DEF MeshRec
<1> HIDE DEF r
<1>7. /\ mesh' \in [Agent -> MeshRec] /\ mesh'[n] = r
      /\ \A m \in Agent \ {n} : mesh'[m] = mesh[m]
  BY <1>4, <1>6, MeshChanges
<1>8. /\ main' \in [Agent -> MainAt] /\ main'[n] = "idle"
      /\ \A m \in Agent \ {n} : main'[m] = main[m]
  BY <1>2, GoFacts DEF WaitEnds
<1>9. /\ result' \in [Agent -> 0 .. MaxAsks] /\ result'[n] = u
      /\ \A m \in Agent \ {n} : result'[m] = result[m]
  BY <1>3, <1>5 DEF Types
<1>10. UNCHANGED <<listener, conn, path, backlog, wire, open, asks, question>>
  BY DEF WaitEnds
<1>11. Types'
  BY <1>7, <1>8, <1>9, <1>10 DEF Types
<1>12. Counted'
  BY <1>6, <1>7, <1>8, <1>10 DEF Counted
<1>13. QED
  BY <1>6, <1>7, <1>8, <1>9, <1>11, <1>12 DEF u

(* The queue of connections to accept. *)
Distinct(s) == \A i, j \in 1 .. Len(s) : s[i] = s[j] => i = j

LEMMA QueueFacts ==
    ASSUME NEW s \in Seq(Conn)
    PROVE  /\ ToSet(s) \subseteq Conn
           /\ s = <<>> => ToSet(s) = {}
           /\ \A c \in Conn : /\ Append(s, c) \in Seq(Conn) /\ ToSet(Append(s, c)) = ToSet(s) \cup {c}
                              /\ Distinct(s) /\ c \notin ToSet(s) => Distinct(Append(s, c))
           /\ s # <<>> => /\ Head(s) \in Conn /\ Head(s) \in ToSet(s) /\ Tail(s) \in Seq(Conn)
                          /\ ToSet(Tail(s)) \subseteq ToSet(s)
                          /\ ToSet(s) \subseteq ToSet(Tail(s)) \cup {Head(s)}
                          /\ Distinct(s) => Distinct(Tail(s)) /\ Head(s) \notin ToSet(Tail(s))
<1> DEFINE L == Len(s)
<1>1. L \in Nat /\ DOMAIN s = 1 .. L /\ \A i \in 1 .. L : s[i] \in Conn
  BY LenProperties, ElementOfSeq
<1>2. ToSet(s) = {s[i] : i \in 1 .. L}
  BY <1>1 DEF ToSet
<1>3. ToSet(s) \subseteq Conn
  BY <1>1, <1>2
<1>4. s = <<>> => ToSet(s) = {}
  <2> SUFFICES ASSUME s = <<>> PROVE ToSet(s) = {}
    OBVIOUS
  <2>1. L = 0
    OBVIOUS
  <2>2. \A i \in 1 .. L : FALSE
    BY <2>1
  <2>3. QED
    BY <1>2, <2>2
<1>5. ASSUME NEW c \in Conn
      PROVE  /\ Append(s, c) \in Seq(Conn) /\ ToSet(Append(s, c)) = ToSet(s) \cup {c}
             /\ Distinct(s) /\ c \notin ToSet(s) => Distinct(Append(s, c))
  <2> DEFINE r == Append(s, c)
  <2>1. /\ r \in Seq(Conn) /\ Len(r) = L + 1
        /\ \A i \in 1 .. L : r[i] = s[i]
        /\ r[L + 1] = c
    BY AppendProperties
  <2>2. DOMAIN r = 1 .. L + 1
    BY <2>1, LenProperties
  <2> HIDE DEF r, L
  <2>3. ToSet(r) = {r[i] : i \in 1 .. L + 1}
    BY <2>2 DEF ToSet
  <2>4. /\ \A i \in 1 .. L + 1 : i \in 1 .. L \/ i = L + 1
        /\ \A i \in 1 .. L : i \in 1 .. L + 1
        /\ L + 1 \in 1 .. L + 1
    BY <1>1
  <2>5. ToSet(r) = ToSet(s) \cup {c}
    BY <1>2, <2>1, <2>3, <2>4
  <2>6. ASSUME Distinct(s), c \notin ToSet(s) PROVE Distinct(r)
    <3>1. \A i \in 1 .. L : s[i] # c
      BY <1>2, <2>6
    <3>2. \A i, j \in 1 .. L : s[i] = s[j] => i = j
      BY <2>6 DEF Distinct, L
    <3>3. \A i, j \in 1 .. L + 1 : r[i] = r[j] => i = j
      BY <2>1, <2>4, <3>1, <3>2
    <3>4. QED
      BY <2>1, <3>3 DEF Distinct
  <2>7. QED
    BY <2>1, <2>5, <2>6 DEF r
<1>6. ASSUME s # <<>>
      PROVE  /\ Head(s) \in Conn /\ Head(s) \in ToSet(s) /\ Tail(s) \in Seq(Conn)
             /\ ToSet(Tail(s)) \subseteq ToSet(s)
             /\ ToSet(s) \subseteq ToSet(Tail(s)) \cup {Head(s)}
             /\ Distinct(s) => Distinct(Tail(s)) /\ Head(s) \notin ToSet(Tail(s))
  <2> DEFINE r == Tail(s)
  <2>1. L # 0
    BY <1>6, EmptySeq
  <2>2. /\ Head(s) = s[1] /\ r \in Seq(Conn) /\ Len(r) = L - 1
        /\ \A i \in 1 .. Len(r) : r[i] = s[i + 1]
    BY <1>6, HeadTailProperties
  <2>3. DOMAIN r = 1 .. Len(r)
    BY <2>2, LenProperties
  <2> HIDE DEF r, L
  <2>4. /\ 1 \in 1 .. L
        /\ \A i \in 1 .. L : i = 1 \/ (i - 1 \in 1 .. L - 1 /\ i - 1 + 1 = i)
        /\ \A i \in 1 .. L - 1 : i + 1 \in 1 .. L /\ i + 1 # 1
        /\ \A i, j \in 1 .. L - 1 : i + 1 = j + 1 => i = j
    BY <1>1, <2>1
  <2>5. ToSet(r) = {r[i] : i \in 1 .. L - 1}
    BY <2>2, <2>3 DEF ToSet
  <2>6. \A i \in 1 .. L - 1 : r[i] = s[i + 1]
    BY <2>2
  <2>7. Head(s) \in Conn /\ Head(s) \in ToSet(s)
    BY <1>1, <1>2, <2>2, <2>4
  <2>8. ToSet(r) \subseteq ToSet(s)
    BY <1>2, <2>4, <2>5, <2>6
  <2>9. ToSet(s) \subseteq ToSet(r) \cup {Head(s)}
    <3> SUFFICES ASSUME NEW i \in 1 .. L, i # 1 PROVE s[i] \in ToSet(r)
      BY <1>2, <2>2
    <3>1. i - 1 \in 1 .. L - 1 /\ i - 1 + 1 = i
      BY <2>4
    <3>2. r[i - 1] = s[i]
      BY <2>6, <3>1
    <3>3. QED
      BY <2>5, <3>1, <3>2
  <2>10. ASSUME Distinct(s) PROVE Distinct(r) /\ Head(s) \notin ToSet(r)
    <3>1. \A i, j \in 1 .. L : s[i] = s[j] => i = j
      BY <2>10 DEF Distinct, L
    <3>2. \A i, j \in 1 .. L - 1 : r[i] = r[j] => i = j
      BY <2>4, <2>6, <3>1
    <3>3. \A i \in 1 .. L - 1 : r[i] # s[1]
      BY <2>4, <2>6, <3>1
    <3>4. QED
      BY <2>2, <2>5, <3>2, <3>3 DEF Distinct
  <2>11. QED
    BY <2>2, <2>7, <2>8, <2>9, <2>10 DEF r
<1>7. QED
  BY <1>3, <1>4, <1>5, <1>6

LEMMA AcceptsTypes ==
    ASSUME Types, Counted, NEW n \in Agent, Accepts(n)
    PROVE  /\ Types' /\ Counted' /\ backlog[n] # <<>> /\ Head(backlog[n]) \in Conn
           /\ mesh'[n] = [mesh[n] EXCEPT !.peer_fd = Head(backlog[n])]
           /\ conn'[n] = Head(backlog[n]) /\ backlog'[n] = Tail(backlog[n])
           /\ \A m \in Agent \ {n} : /\ mesh'[m] = mesh[m] /\ conn'[m] = conn[m]
                                     /\ backlog'[m] = backlog[m]
           /\ \A c \in Conn : open'[c] = IF c = mesh[n].peer_fd THEN open[c] \ {n} ELSE open[c]
<1> DEFINE h == Head(backlog[n])
           r == [mesh[n] EXCEPT !.peer_fd = h]
<1>1. mesh[n] \in MeshRec /\ backlog[n] \in Seq(Conn) /\ backlog[n] # <<>> /\ "serve" \in ListenerAt
  BY DEF Types, Accepts, ListenerAt
<1>2. h \in Conn /\ Tail(backlog[n]) \in Seq(Conn)
  BY <1>1, QueueFacts
<1>3. mesh' = [mesh EXCEPT ![n] = r]
  BY DEF Accepts
<1>4. r \in MeshRec /\ r.next_msg_id = mesh[n].next_msg_id /\ r.pending_req_id = mesh[n].pending_req_id
      /\ r.peer_fd = h
  BY <1>1, <1>2 DEF MeshRec
<1>5. h # NoFd
  BY <1>2, MeshAssumption DEF Conn, NoFd
<1> HIDE DEF r
<1>6. /\ mesh' \in [Agent -> MeshRec] /\ mesh'[n] = r
      /\ \A m \in Agent \ {n} : mesh'[m] = mesh[m]
  BY <1>3, <1>4, MeshChanges
<1>7. /\ conn' \in [Agent -> {NoFd} \cup Conn] /\ conn'[n] = h
      /\ \A m \in Agent \ {n} : conn'[m] = conn[m]
  BY <1>2 DEF Accepts, Types
<1>8. /\ backlog' \in [Agent -> Seq(Conn)] /\ backlog'[n] = Tail(backlog[n])
      /\ \A m \in Agent \ {n} : backlog'[m] = backlog[m]
  BY <1>2 DEF Accepts, Types
<1>9. /\ open' \in [Conn -> SUBSET Agent]
      /\ \A c \in Conn : open'[c] = IF c = mesh[n].peer_fd THEN open[c] \ {n} ELSE open[c]
  BY DEF Accepts, Types
<1>10. /\ listener' \in [Agent -> ListenerAt]
       /\ \A m \in Agent \ {n} : listener'[m] = listener[m]
  BY <1>1 DEF Accepts, Types
<1>11. UNCHANGED <<main, path, wire, asks, question, result, deaths>>
  BY DEF Accepts
<1> HIDE DEF h
<1>12. Types'
  BY <1>6, <1>7, <1>8, <1>9, <1>10, <1>11 DEF Types
<1>13. Counted'
  BY <1>2, <1>4, <1>5, <1>6, <1>7, <1>10, <1>11, SMTT(30) DEF Counted
<1>14. QED
  BY <1>1, <1>2, <1>6, <1>7, <1>8, <1>9, <1>12, <1>13 DEF h, r

LEMMA ReadsResponseTypes ==
    ASSUME Types, Counted, NEW n \in Agent, ReadsResponse(n)
    PROVE  /\ Types' /\ Counted'
           /\ conn[n] \in Conn
           /\ \A m \in Agent \ {n} : mesh'[m] = mesh[m]
           /\ \/ mesh'[n] = mesh[n]
              \/ \E g \in Toks(wire[conn[n]][n]) :
                    /\ g \in Frames /\ g.resp /\ g.id = mesh[n].pending_req_id
                    /\ mesh'[n] = [mesh[n] EXCEPT !.pending_response = g.q, !.pending_arrived = TRUE]
           /\ \A d \in Conn, m \in Agent :
                /\ Toks(wire'[d][m]) \subseteq Toks(wire[d][m])
                /\ wire'[d][m] # <<>> => wire[d][m] # <<>>
<1> DEFINE g == Text(n)[1]
           r == [mesh[n] EXCEPT !.pending_response = g.q, !.pending_arrived = TRUE]
<1>0. listener[n] = "serve" /\ NewlineAt(n) > 1 /\ g.resp /\ wire' = Rest(n)
      /\ UNCHANGED <<main, listener, conn, path, backlog, open, asks, question, result>>
  BY DEF ReadsResponse, Reading
<1>1. /\ conn[n] \in Conn /\ Text(n) \in Seq(Token) /\ wire' \in [Conn -> [Agent -> Seq(Token)]]
      /\ \A d \in Conn, m \in Agent : /\ Toks(wire'[d][m]) \subseteq Toks(wire[d][m])
                                      /\ wire'[d][m] # <<>> => wire[d][m] # <<>>
  BY <1>0, RestFacts
<1>2. g \in Frames /\ g \in Toks(Text(n)) /\ Text(n) = wire[conn[n]][n]
  BY <1>0, <1>1, LineFacts DEF Text
<1>3. mesh[n] \in MeshRec /\ g.q \in 0 .. MaxAsks
  BY <1>2 DEF Types, Frames
<1>4. \/ mesh' = [mesh EXCEPT ![n] = r] /\ g.id = mesh[n].pending_req_id
      \/ mesh' = mesh
  <2>1. CASE Matches(n, g)
    BY <2>1 DEF ReadsResponse, Matches
  <2>2. CASE ~Matches(n, g)
    BY <2>2 DEF ReadsResponse
  <2>3. QED
    BY <2>1, <2>2
<1>5. r \in MeshRec /\ r.next_msg_id = mesh[n].next_msg_id /\ r.pending_req_id = mesh[n].pending_req_id
      /\ r.peer_fd = mesh[n].peer_fd
  <2> HIDE DEF g
  <2> QED
    BY <1>3 DEF MeshRec
<1>6. ASSUME mesh' = [mesh EXCEPT ![n] = r], g.id = mesh[n].pending_req_id
      PROVE  /\ mesh' \in [Agent -> MeshRec] /\ mesh'[n] = r
             /\ \A m \in Agent \ {n} : mesh'[m] = mesh[m]
  <2> HIDE DEF r
  <2> QED
    BY <1>5, <1>6, MeshChanges
<1>7. /\ mesh' \in [Agent -> MeshRec]
      /\ \/ mesh'[n] = r /\ g.id = mesh[n].pending_req_id
         \/ mesh'[n] = mesh[n]
      /\ \A m \in Agent \ {n} : mesh'[m] = mesh[m]
  <2> HIDE DEF r, g
  <2>1. CASE mesh' = mesh
    BY <2>1 DEF Types
  <2>2. QED
    BY <1>4, <1>6, <2>1
<1>8. Types'
  BY <1>0, <1>1, <1>7 DEF Types
<1>9. Counted'
  <2>1. \A m \in Agent : /\ mesh'[m].next_msg_id = mesh[m].next_msg_id
                         /\ mesh'[m].pending_req_id = mesh[m].pending_req_id
                         /\ mesh'[m].peer_fd = mesh[m].peer_fd
    <3> HIDE DEF r, g
    <3> QED
      BY <1>5, <1>7
  <2>2. QED
    BY <1>0, <2>1 DEF Counted
<1>10. \/ mesh'[n] = mesh[n]
       \/ \E f \in Toks(wire[conn[n]][n]) :
             /\ f \in Frames /\ f.resp /\ f.id = mesh[n].pending_req_id
             /\ mesh'[n] = [mesh[n] EXCEPT !.pending_response = f.q, !.pending_arrived = TRUE]
  <2> HIDE DEF g
  <2> QED
    BY <1>0, <1>2, <1>7
<1>11. QED
  BY <1>1, <1>7, <1>8, <1>9, <1>10

LEMMA ReadsTypes ==
    ASSUME Types, Counted, NEW n \in Agent, ReadsRequest(n) \/ ReadsEmptyLine(n)
    PROVE  Types' /\ Counted'
<1>1. UNCHANGED <<mesh, main, conn, path, backlog, open, asks, question, result>>
  BY DEF ReadsRequest, ReadsEmptyLine
<1>2. listener[n] = "serve" /\ wire' \in [Conn -> [Agent -> Seq(Token)]]
  <2>1. CASE ReadsRequest(n)
    BY <2>1, RequestFacts DEF ReadsRequest, Reading
  <2>2. CASE ReadsEmptyLine(n)
    BY <2>2, RestFacts DEF ReadsEmptyLine, Reading
  <2>3. QED
    BY <2>1, <2>2, SMTT(30)
<1>3. \E l \in {"newline", "serve"} : listener' = [listener EXCEPT ![n] = l]
  <2>1. CASE ReadsRequest(n)
    <3>1. CASE Answers(n, Text(n)[1])
      BY <2>1, <3>1 DEF ReadsRequest
    <3>2. CASE ~Answers(n, Text(n)[1])
      BY <1>2, <2>1, <3>2 DEF ReadsRequest
    <3>3. QED
      BY <3>1, <3>2
  <2>2. CASE ReadsEmptyLine(n)
    <3>1. listener' = [listener EXCEPT ![n] = "serve"]
      BY <1>2, <2>2 DEF ReadsEmptyLine, Types
    <3>2. QED
      BY <3>1
  <2>3. QED
    BY <2>1, <2>2
<1>4. /\ listener' \in [Agent -> ListenerAt]
      /\ \A m \in Agent \ {n} : listener'[m] = listener[m]
  BY <1>3 DEF Types, ListenerAt
<1>5. Types'
  BY <1>1, <1>2, <1>4 DEF Types
<1>6. Counted'
  BY <1>1, <1>2, <1>4 DEF Counted
<1>7. QED
  BY <1>5, <1>6

LEMMA ReplyTypes ==
    ASSUME Types, Counted, NEW n \in Agent, ReplyNewline(n)
    PROVE  /\ Types' /\ Counted' /\ conn[n] \in Conn
           /\ UNCHANGED wire \/ Put(conn[n], n, NL)
<1>1. conn[n] \in Conn /\ NL \in Token /\ (UNCHANGED wire \/ Put(conn[n], n, NL))
  BY NewTokens DEF ReplyNewline, Counted
<1>2. wire' \in [Conn -> [Agent -> Seq(Token)]]
  BY <1>1, PutFacts DEF Types
<1>3. /\ listener' \in [Agent -> ListenerAt] /\ listener[n] = "newline"
      /\ \A m \in Agent \ {n} : listener'[m] = listener[m]
  BY DEF ReplyNewline, Types, ListenerAt
<1>4. UNCHANGED <<mesh, main, conn, path, backlog, open, asks, question, result>>
  BY DEF ReplyNewline
<1>5. QED
  BY <1>1, <1>2, <1>3, <1>4 DEF Types, Counted

LEMMA EndsTypes ==
    ASSUME Types, Counted, NEW n \in Agent, ClientHangsUp(n) \/ AcceptEnds(n)
    PROVE  Types' /\ Counted'
<1>1. /\ listener' \in [Agent -> ListenerAt] /\ listener'[n] = "off"
      /\ \A m \in Agent \ {n} : listener'[m] = listener[m]
  BY DEF ClientHangsUp, AcceptEnds, Types, ListenerAt
<1>2. UNCHANGED <<mesh, main, conn, path, backlog, wire, open, asks, question, result>>
  BY DEF ClientHangsUp, AcceptEnds
<1>3. QED
  BY <1>1, <1>2 DEF Types, Counted

LEMMA ServerHangsUpTypes ==
    ASSUME Types, Counted, NEW n \in Agent, ServerHangsUp(n)
    PROVE  /\ Types' /\ Counted' /\ conn[n] \in Conn /\ conn'[n] = NoFd
           /\ mesh'[n] = [mesh[n] EXCEPT !.peer_fd = IF @ = conn[n] THEN NoFd ELSE @]
           /\ \A m \in Agent \ {n} : mesh'[m] = mesh[m] /\ conn'[m] = conn[m]
           /\ \A c \in Conn : open'[c] = IF c = conn[n] THEN open[c] \ {n} ELSE open[c]
           /\ \A d \in Conn, m \in Agent :
                /\ Toks(wire'[d][m]) \subseteq Toks(wire[d][m])
                /\ wire'[d][m] # <<>> => wire[d][m] # <<>>
<1> DEFINE c == conn[n]
           p == IF mesh[n].peer_fd = c THEN NoFd ELSE mesh[n].peer_fd
           r == [mesh[n] EXCEPT !.peer_fd = p]
<1>1. mesh[n] \in MeshRec /\ c \in Conn /\ main[n] # "written" /\ "accept" \in ListenerAt
  BY DEF ServerHangsUp, Types, Counted, Unlocked, ListenerAt
<1>2. p \in {NoFd} \cup Conn
  BY <1>1 DEF MeshRec
<1>3. mesh' = [mesh EXCEPT ![n] = r]
  BY DEF ServerHangsUp
<1> HIDE DEF p
<1>4. r \in MeshRec /\ r.next_msg_id = mesh[n].next_msg_id /\ r.pending_req_id = mesh[n].pending_req_id
  BY <1>1, <1>2 DEF MeshRec
<1> HIDE DEF r
<1>5. /\ mesh' \in [Agent -> MeshRec] /\ mesh'[n] = r
      /\ \A m \in Agent \ {n} : mesh'[m] = mesh[m]
  BY <1>3, <1>4, MeshChanges
<1>6. /\ conn' \in [Agent -> {NoFd} \cup Conn] /\ conn'[n] = NoFd
      /\ \A m \in Agent \ {n} : conn'[m] = conn[m]
  BY DEF ServerHangsUp, Types
<1>7. /\ open' \in [Conn -> SUBSET Agent]
      /\ \A d \in Conn : open'[d] = IF d = c THEN open[d] \ {n} ELSE open[d]
  BY <1>1 DEF ServerHangsUp, Closed, Types
<1>8. /\ listener' \in [Agent -> ListenerAt] /\ listener'[n] = "accept"
      /\ \A m \in Agent \ {n} : listener'[m] = listener[m]
  BY <1>1 DEF ServerHangsUp, Types
<1>9. wire' = [wire EXCEPT ![c] = [wire[c] EXCEPT ![n] = <<>>]] /\ wire \in [Conn -> [Agent -> Seq(Token)]]
  BY <1>1 DEF ServerHangsUp, Types
<1> HIDE DEF c
<1>10. wire' \in [Conn -> [Agent -> Seq(Token)]]
  BY <1>1, <1>9
<1>11. \A d \in Conn, m \in Agent : wire'[d][m] = IF d = c /\ m = n THEN <<>> ELSE wire[d][m]
  BY <1>1, <1>9
<1>13. \A d \in Conn, m \in Agent : /\ Toks(wire'[d][m]) \subseteq Toks(wire[d][m])
                                    /\ wire'[d][m] # <<>> => wire[d][m] # <<>>
  BY <1>11, NoToks
<1>14. UNCHANGED <<main, path, backlog, asks, question, result, deaths>>
  BY DEF ServerHangsUp
<1>15. Types'
  BY <1>5, <1>6, <1>7, <1>8, <1>10, <1>14 DEF Types
<1>16. Counted'
  BY <1>1, <1>4, <1>5, <1>6, <1>8, <1>14 DEF Counted
<1>17. mesh'[n] = [mesh[n] EXCEPT !.peer_fd = IF @ = conn[n] THEN NoFd ELSE @]
  BY <1>5 DEF r, p, c
<1>18. QED
  BY <1>1, <1>5, <1>6, <1>7, <1>13, <1>15, <1>16, <1>17 DEF c

(* Joins and Dies empty what an agent has not read, on every connection. *)
LEMMA DrainFacts ==
    ASSUME Types, NEW n \in Agent, wire' = [c \in Conn |-> [wire[c] EXCEPT ![n] = <<>>]]
    PROVE  /\ wire' \in [Conn -> [Agent -> Seq(Token)]]
           /\ \A d \in Conn, m \in Agent :
                /\ Toks(wire'[d][m]) \subseteq Toks(wire[d][m])
                /\ wire'[d][m] # <<>> => wire[d][m] # <<>>
                /\ m = n => wire'[d][m] = <<>>
<1>1. wire \in [Conn -> [Agent -> Seq(Token)]] /\ <<>> \in Seq(Token)
  BY DEF Types
<1>2. \A d \in Conn : wire'[d] = [wire[d] EXCEPT ![n] = <<>>] /\ wire[d] \in [Agent -> Seq(Token)]
  BY <1>1
<1>3. \A d \in Conn : wire'[d] \in [Agent -> Seq(Token)]
  BY <1>1, <1>2
<1>4. \A d \in Conn, m \in Agent : wire'[d][m] = IF m = n THEN <<>> ELSE wire[d][m]
  BY <1>2
<1>5. wire' \in [Conn -> [Agent -> Seq(Token)]]
  BY <1>3
<1>6. QED
  BY <1>4, <1>5, NoToks

LEMMA DiesFacts ==
    ASSUME Types, Counted, NEW n \in Agent, Dies(n)
    PROVE  /\ Types' /\ Counted' /\ mesh'[n] = InitMesh /\ main'[n] = "dead" /\ conn'[n] = NoFd
           /\ result'[n] = NoText /\ backlog'[n] = <<>>
           /\ \A m \in Agent \ {n} : /\ mesh'[m] = mesh[m] /\ main'[m] = main[m] /\ conn'[m] = conn[m]
                                     /\ result'[m] = result[m] /\ backlog'[m] = backlog[m]
           /\ \A c \in Conn : open'[c] = IF c \in ToSet(backlog[n]) THEN {} ELSE open[c] \ {n}
           /\ \A d \in Conn, m \in Agent :
                /\ Toks(wire'[d][m]) \subseteq Toks(wire[d][m])
                /\ wire'[d][m] # <<>> => wire[d][m] # <<>>
                /\ m = n => wire'[d][m] = <<>>
<1>1. Types'
  BY DiesTypes
<1>2. /\ mesh'[n] = InitMesh /\ main'[n] = "dead" /\ conn'[n] = NoFd /\ listener'[n] = "off"
      /\ result'[n] = NoText /\ backlog'[n] = <<>>
  BY DEF Dies, Go, Types
<1>3. \A m \in Agent \ {n} : /\ mesh'[m] = mesh[m] /\ main'[m] = main[m] /\ conn'[m] = conn[m]
                             /\ result'[m] = result[m] /\ backlog'[m] = backlog[m]
                             /\ listener'[m] = listener[m]
  BY DEF Dies, Go, Types
<1>4. \A c \in Conn : open'[c] = IF c \in ToSet(backlog[n]) THEN {} ELSE open[c] \ {n}
  BY DEF Dies
<1>5. \A d \in Conn, m \in Agent : /\ Toks(wire'[d][m]) \subseteq Toks(wire[d][m])
                                   /\ wire'[d][m] # <<>> => wire[d][m] # <<>>
                                   /\ m = n => wire'[d][m] = <<>>
  BY DrainFacts DEF Dies
<1>6. Counted'
  <2>1. asks' = asks /\ asks \in Nat
    BY MeshAssumption DEF Dies, Types
  <2>2. mesh'[n].next_msg_id = 1
    BY <1>2 DEF InitMesh
  <2>3. 1 <= asks + 1
    BY <2>1
  <2>4. QED
    BY <1>2, <1>3, <2>1, <2>2, <2>3 DEF Counted
<1>7. QED
  BY <1>1, <1>2, <1>3, <1>4, <1>5, <1>6

LEMMA StopsTypes ==
    ASSUME Types, Counted, NEW n \in Agent, Stops(n)
    PROVE  /\ Types' /\ Counted' /\ main'[n] = "join" /\ backlog'[n] = <<>>
           /\ mesh'[n] = [mesh[n] EXCEPT !.running = FALSE, !.peer_fd = NoFd, !.listen_fd = FALSE]
           /\ \A m \in Agent \ {n} : /\ mesh'[m] = mesh[m] /\ main'[m] = main[m]
                                     /\ backlog'[m] = backlog[m]
           /\ \A c \in Conn : open'[c] = IF c \in ToSet(backlog[n]) THEN {}
                                         ELSE IF c = mesh[n].peer_fd THEN open[c] \ {n} ELSE open[c]
<1> DEFINE r == [mesh[n] EXCEPT !.running = FALSE, !.peer_fd = NoFd, !.listen_fd = FALSE]
<1>1. mesh[n] \in MeshRec /\ "join" \in MainAt /\ <<>> \in Seq(Conn)
  BY DEF Types, MainAt
<1>2. r \in MeshRec /\ r.next_msg_id = mesh[n].next_msg_id
  BY <1>1 DEF MeshRec
<1>3. mesh' = [mesh EXCEPT ![n] = r]
  BY DEF Stops, StopFlags
<1> HIDE DEF r
<1>4. /\ mesh' \in [Agent -> MeshRec] /\ mesh'[n] = r
      /\ \A m \in Agent \ {n} : mesh'[m] = mesh[m]
  BY <1>2, <1>3, MeshChanges
<1>5. /\ main' \in [Agent -> MainAt] /\ main'[n] = "join"
      /\ \A m \in Agent \ {n} : main'[m] = main[m]
  BY <1>1, GoFacts DEF Stops
<1>6. /\ backlog' \in [Agent -> Seq(Conn)] /\ backlog'[n] = <<>>
      /\ \A m \in Agent \ {n} : backlog'[m] = backlog[m]
  BY <1>1 DEF Stops, Types
<1>7. \A c \in Conn : open'[c] = IF c \in ToSet(backlog[n]) THEN {}
                                 ELSE IF c = mesh[n].peer_fd THEN open[c] \ {n} ELSE open[c]
  BY DEF Stops
<1>8. open' \in [Conn -> SUBSET Agent]
  BY DEF Stops, Types
<1>9. UNCHANGED <<listener, conn, path, wire, asks, question, result>>
  BY DEF Stops
<1>10. Types'
  BY <1>4, <1>5, <1>6, <1>8, <1>9 DEF Types
<1>11. Counted'
  BY <1>2, <1>4, <1>5, <1>9 DEF Counted
<1>12. QED
  BY <1>4, <1>5, <1>6, <1>7, <1>10, <1>11 DEF r

LEMMA JoinsTypes ==
    ASSUME Types, Counted, NEW n \in Agent, Joins(n)
    PROVE  /\ Types' /\ Counted' /\ main[n] = "join" /\ main'[n] = "stopped" /\ conn'[n] = NoFd
           /\ \A m \in Agent \ {n} : main'[m] = main[m] /\ conn'[m] = conn[m]
           /\ \A d \in Conn, m \in Agent :
                /\ Toks(wire'[d][m]) \subseteq Toks(wire[d][m])
                /\ wire'[d][m] # <<>> => wire[d][m] # <<>>
<1>1. /\ main' \in [Agent -> MainAt] /\ main'[n] = "stopped"
      /\ \A m \in Agent \ {n} : main'[m] = main[m]
  BY GoFacts DEF Joins, MainAt
<1>2. /\ conn' \in [Agent -> {NoFd} \cup Conn] /\ conn'[n] = NoFd
      /\ \A m \in Agent \ {n} : conn'[m] = conn[m]
  BY DEF Joins, Types
<1>3. /\ wire' \in [Conn -> [Agent -> Seq(Token)]]
      /\ \A d \in Conn, m \in Agent :
                /\ Toks(wire'[d][m]) \subseteq Toks(wire[d][m])
                /\ wire'[d][m] # <<>> => wire[d][m] # <<>>
  BY DrainFacts DEF Joins
<1>4. path' \in Agent \cup {NoAgent}
  BY DEF Joins, Types
<1>5. listener[n] = "off" /\ UNCHANGED <<mesh, listener, backlog, open, asks, question, result>>
  BY DEF Joins
<1>6. Types'
  BY <1>1, <1>2, <1>3, <1>4, <1>5 DEF Types
<1>7. Counted'
  BY <1>1, <1>2, <1>5 DEF Counted
<1>8. QED
  BY <1>1, <1>2, <1>3, <1>6, <1>7 DEF Joins

LEMMA RestartsTypes ==
    ASSUME Types, Counted, NEW n \in Agent, Restarts(n)
    PROVE  /\ Types' /\ Counted' /\ main'[n] = "connect"
           /\ \A m \in Agent \ {n} : main'[m] = main[m]
<1>1. /\ main' \in [Agent -> MainAt] /\ main'[n] = "connect"
      /\ \A m \in Agent \ {n} : main'[m] = main[m]
  BY GoFacts DEF Restarts, MainAt
<1>2. QED
  BY <1>1 DEF Restarts, Types, Counted

LEMMA TypesStep == Types /\ Counted /\ [Next]_vars => Types' /\ Counted'
<1> SUFFICES ASSUME Types, Counted, [Next]_vars PROVE Types' /\ Counted'
  OBVIOUS
<1>1. CASE UNCHANGED vars
  BY <1>1 DEF vars, Types, Counted
<1>2. ASSUME NEW n \in Agent,
             \/ Main(n) \/ Listens(n) \/ Reconnects(n) \/ Arms(n) \/ Stops(n)
             \/ BrokenPipe(n) \/ Crash(n) \/ Restarts(n)
      PROVE  Types' /\ Counted'
  <2>1. CASE Main(n)
    BY <2>1, StartTypes, SendFrameTypes, SendTypes, WaitTypes, JoinsTypes, Zenon DEF Main
  <2>2. CASE Listens(n)
    BY <2>2, AcceptsTypes, ReadsResponseTypes, ReadsTypes, ReplyTypes, ServerHangsUpTypes, EndsTypes, Zenon
       DEF Listens
  <2>3. CASE Reconnects(n) \/ Arms(n) \/ Stops(n) \/ Restarts(n)
    BY <2>3, StartTypes, ArmsTypes, StopsTypes, RestartsTypes, Zenon
  <2>4. CASE BrokenPipe(n) \/ Crash(n)
    BY <2>4, DiesFacts DEF BrokenPipe, Crash
  <2>5. QED
    BY <1>2, <2>1, <2>2, <2>3, <2>4
<1>3. QED
  BY <1>1, <1>2 DEF Next

-----------------------------------------------------------------------------
(* Which connections an agent holds.  Down is the main thread outside the  *)
(* life of a started mesh: there the agent holds none and takes none.  A   *)
(* listener serves the peer_fd, or the connection that agent_mesh_stop has *)
(* closed under it.  A connection somebody still has in a variable is his, *)
(* or nobody's (it was queued at a server that went away), so that connect *)
(* cannot hand out its number again; a queued one is in one queue, once.   *)
Down == {"connect", "bind", "listen", "join", "stopped", "dead"}

LinkOf(n) ==
    /\ main[n] \in Down => /\ mesh[n].peer_fd = NoFd /\ ~mesh[n].listen_fd
                           /\ \A c \in Conn : n \notin open[c]
    /\ main[n] \in Down \ {"join"} => conn[n] = NoFd
    /\ main[n] # "join" => conn[n] = NoFd \/ conn[n] = mesh[n].peer_fd
    /\ \A c \in Conn : mesh[n].peer_fd = c => n \in open[c] \/ open[c] = {}
    /\ \A c \in Conn : n \in open[c] => \/ c = mesh[n].peer_fd \/ c = conn[n]
                                        \/ c \in ToSet(backlog[n])

QueueOf(n) ==
    /\ Distinct(backlog[n])
    /\ \A c \in ToSet(backlog[n]) :
          /\ n \in open[c] /\ c # mesh[n].peer_fd /\ c # conn[n]
          /\ \A m \in Agent \ {n} : c \notin ToSet(backlog[m])

Links == \A n \in Agent : LinkOf(n) /\ QueueOf(n)

-----------------------------------------------------------------------------
(* Whose the answers are.  A connection has at most two users; a frame on  *)
(* it belongs to the agent it answers, or to the agent at the other end    *)
(* when it asks: its id was given out, and if it is the id waited for it   *)
(* carries the question that is being asked now.                           *)
Uses(n, c)  == n \in open[c] \/ wire[c][n] # <<>>
Mine(n, f)  == /\ f.id < mesh[n].next_msg_id
               /\ f.id = mesh[n].pending_req_id => f.q = question[n]
Pairs       == \A c \in Conn : \A a, b, d \in Agent :
                  Uses(a, c) /\ Uses(b, c) /\ Uses(d, c) => a = b \/ b = d \/ a = d
RequestsOwn == \A c \in Conn : \A m \in Agent : \A n \in open[c] \ {m} :
                  \A f \in Toks(wire[c][m]) \cap Frames : ~f.resp => Mine(n, f)
RepliesOwn  == \A c \in Conn : \A n \in Agent :
                  \A f \in Toks(wire[c][n]) \cap Frames : f.resp => Mine(n, f)
PendingOwn  == \A n \in Agent : mesh[n].pending_arrived => mesh[n].pending_response = question[n]

Owned == Pairs /\ RequestsOwn /\ RepliesOwn /\ PendingOwn /\ AnswerIsOwn

-----------------------------------------------------------------------------
LEMMA LinksInitially == Init => Links
<1> SUFFICES ASSUME Init, NEW n \in Agent PROVE LinkOf(n) /\ QueueOf(n)
  BY DEF Links
<1>1. main[n] = "connect" /\ mesh[n] = InitMesh /\ conn[n] = NoFd /\ backlog[n] = <<>>
      /\ \A c \in Conn : open[c] = {}
  BY DEF Init
<1>2. InitMesh.peer_fd = NoFd /\ ~InitMesh.listen_fd
  BY DEF InitMesh
<1>3. LinkOf(n)
  BY <1>1, <1>2 DEF LinkOf
<1>4. <<>> \in Seq(Conn) /\ Len(<<>>) = 0
  OBVIOUS
<1>5. ToSet(<<>>) = {}
  BY <1>4, QueueFacts
<1>6. Distinct(<<>>)
  BY <1>4 DEF Distinct
<1>7. QED
  BY <1>1, <1>3, <1>5, <1>6 DEF QueueOf

(* The steps that open, close and queue nothing. *)
LEMMA QuietLinks ==
    ASSUME Links, UNCHANGED <<conn, backlog, open>>,
           \A m \in Agent :
              /\ mesh'[m].peer_fd = mesh[m].peer_fd
              /\ mesh'[m].listen_fd = mesh[m].listen_fd \/ main'[m] \notin Down
              /\ \/ main'[m] = main[m]
                 \/ main[m] # "join" /\ main'[m] \notin Down
                 \/ main[m] \in Down \ {"join"} /\ main'[m] \in Down \ {"join"}
    PROVE  Links'
<1> SUFFICES ASSUME NEW n \in Agent PROVE LinkOf(n)' /\ QueueOf(n)'
  BY DEF Links
<1>1. LinkOf(n) /\ QueueOf(n)
  BY DEF Links
<1>2. QueueOf(n)'
  BY <1>1 DEF QueueOf
<1>3. LinkOf(n)'
  <2>1. /\ mesh'[n].peer_fd = mesh[n].peer_fd
        /\ mesh'[n].listen_fd = mesh[n].listen_fd \/ main'[n] \notin Down
        /\ \/ main'[n] = main[n]
           \/ main[n] # "join" /\ main'[n] \notin Down
           \/ main[n] \in Down \ {"join"} /\ main'[n] \in Down \ {"join"}
    OBVIOUS
  <2>2. "join" \in Down
    BY DEF Down
  <2>3. QED
    BY <1>1, <2>1, <2>2 DEF LinkOf
<1>4. QED
  BY <1>2, <1>3

LEMMA DescriptorFacts ==
    ASSUME Types
    PROVE  /\ NoFd \notin Conn
           /\ \A n \in Agent : /\ mesh[n].peer_fd = NoFd \/ mesh[n].peer_fd \in Conn
                               /\ conn[n] = NoFd \/ conn[n] \in Conn
                               /\ backlog[n] \in Seq(Conn)
           /\ path = NoAgent \/ path \in Agent
  BY MeshAssumption DEF Types, MeshRec, NoFd, Conn

LEMMA ConnectsLinks ==
    ASSUME Types, Links, NEW n \in Agent, Connects(n), Reachable(n),
           mesh[n].peer_fd = NoFd, main[n] # "join",
           main'[n] \notin Down, \A m \in Agent \ {n} : main'[m] = main[m]
    PROVE  /\ Links'
           /\ \E c \in Conn :
                /\ \A a \in Agent : wire[c][a] = <<>>
                /\ open'[c] = {n, path}
                /\ \A d \in Conn \ {c} : open'[d] = open[d]
           /\ \E c \in Conn : mesh'[n] = [mesh[n] EXCEPT !.is_server = FALSE, !.peer_fd = c, !.running = TRUE]
           /\ \A m \in Agent \ {n} : mesh'[m] = mesh[m]
<1>1. PICK c \in Fresh :
        /\ mesh' = [mesh EXCEPT ![n].is_server = FALSE, ![n].peer_fd = c, ![n].running = TRUE]
        /\ open' = [open EXCEPT ![c] = {n, path}]
        /\ backlog' = [backlog EXCEPT ![path] = Append(@, c)]
        /\ listener' = [listener EXCEPT ![n] = "serve"]
        /\ conn' = [conn EXCEPT ![n] = c]
  BY DEF Connects
<1>2. /\ c \in Conn /\ open[c] = {}
      /\ \A m \in Agent : wire[c][m] = <<>> /\ c # mesh[m].peer_fd /\ c # conn[m]
  BY DEF Fresh
<1>3. path \in Agent /\ path # n /\ mesh[path].listen_fd
  BY DescriptorFacts DEF Reachable
<1> DEFINE r == [mesh[n] EXCEPT !.is_server = FALSE, !.peer_fd = c, !.running = TRUE]
<1>4. r.peer_fd = c
  BY DEF Types, MeshRec
<1>5. mesh'[n] = r /\ \A m \in Agent \ {n} : mesh'[m] = mesh[m]
  BY <1>1 DEF Types
<1> HIDE DEF r
<1>6. /\ open'[c] = {n, path} /\ \A d \in Conn \ {c} : open'[d] = open[d]
      /\ conn'[n] = c /\ \A m \in Agent \ {n} : conn'[m] = conn[m]
  BY <1>1, <1>2 DEF Types
<1>7. /\ backlog'[path] = Append(backlog[path], c)
      /\ \A m \in Agent \ {path} : backlog'[m] = backlog[m]
  BY <1>1, <1>3 DEF Types
<1>8. \A m \in Agent : LinkOf(m) /\ QueueOf(m)
  BY DEF Links
<1>9. \A m \in Agent : ToSet(backlog[m]) \subseteq Conn /\ c \notin ToSet(backlog[m])
  BY <1>2, <1>8, DescriptorFacts, QueueFacts DEF QueueOf
<1>10. /\ ToSet(backlog'[path]) = ToSet(backlog[path]) \cup {c}
       /\ Distinct(backlog'[path])
  <2>1. backlog[path] \in Seq(Conn) /\ Distinct(backlog[path]) /\ c \notin ToSet(backlog[path])
    BY <1>3, <1>8, <1>9, DescriptorFacts DEF QueueOf
  <2>2. QED
    BY <1>2, <1>7, <2>1, QueueFacts
<1>11. main[path] \notin Down
  BY <1>3, <1>8 DEF LinkOf
<1>12. ASSUME NEW m \in Agent PROVE LinkOf(m)'
  <2>1. ToSet(backlog[m]) \subseteq ToSet(backlog'[m])
    BY <1>3, <1>7, <1>10
  <2>2. CASE m = n
    <3>1. mesh'[n].peer_fd = c /\ conn'[n] = c
      BY <1>4, <1>5, <1>6
    <3>2. conn[n] = NoFd /\ NoFd \notin Conn
      BY <1>8, DescriptorFacts DEF LinkOf
    <3>3. \A d \in Conn : n \in open'[d] => d = c \/ d \in ToSet(backlog'[n])
      BY <1>6, <1>8, <2>1, <2>2, <3>2 DEF LinkOf
    <3>4. "join" \in Down
      BY DEF Down
    <3>5. n \in open'[c]
      BY <1>6
    <3>6. QED
      BY <2>2, <3>1, <3>3, <3>4, <3>5 DEF LinkOf
  <2>3. CASE m # n /\ m # path
    <3>1. /\ mesh'[m] = mesh[m] /\ main'[m] = main[m] /\ conn'[m] = conn[m]
          /\ backlog'[m] = backlog[m] /\ mesh[m].peer_fd # c
      BY <1>2, <1>5, <1>6, <1>7, <2>3
    <3>2. \A d \in Conn : (m \in open'[d] <=> m \in open[d]) /\ (d # c => open'[d] = open[d])
      BY <1>2, <1>6, <2>3
    <3>3. QED
      BY <1>8, <3>1, <3>2 DEF LinkOf
  <2>4. CASE m = path
    <3>1. /\ mesh'[m] = mesh[m] /\ main'[m] = main[m] /\ conn'[m] = conn[m]
          /\ mesh[m].peer_fd # c /\ main[m] \notin Down
      BY <1>2, <1>3, <1>5, <1>6, <1>11, <2>4
    <3>2. \A d \in Conn \ {c} : open'[d] = open[d]
      BY <1>6
    <3>3. c \in ToSet(backlog'[m])
      BY <1>10, <2>4
    <3>4. QED
      BY <1>8, <2>1, <3>1, <3>2, <3>3 DEF LinkOf
  <2>5. QED
    BY <2>2, <2>3, <2>4
<1>13. ASSUME NEW m \in Agent PROVE QueueOf(m)'
  <2>1. Distinct(backlog'[m])
    BY <1>7, <1>8, <1>10 DEF QueueOf
  <2>2. \A k \in Agent : /\ ToSet(backlog'[k]) \subseteq ToSet(backlog[k]) \cup {c}
                         /\ c \in ToSet(backlog'[k]) => k = path
    BY <1>3, <1>7, <1>9, <1>10
  <2>3. ASSUME NEW d \in ToSet(backlog'[m])
        PROVE  /\ m \in open'[d] /\ d # mesh'[m].peer_fd /\ d # conn'[m]
               /\ \A k \in Agent \ {m} : d \notin ToSet(backlog'[k])
    <3>1. CASE d = c
      <4>1. m = path
        BY <2>2, <2>3, <3>1
      <4>2. mesh'[m] = mesh[m] /\ conn'[m] = conn[m]
        BY <1>3, <1>5, <1>6, <4>1
      <4>3. QED
        BY <1>2, <1>6, <2>2, <3>1, <4>1, <4>2
    <3>2. CASE d # c
      <4>1. d \in ToSet(backlog[m]) /\ d \in Conn
        BY <1>9, <2>2, <3>2
      <4>2. m \in open[d] /\ d # mesh[m].peer_fd /\ d # conn[m]
            /\ \A k \in Agent \ {m} : d \notin ToSet(backlog[k])
        BY <1>8, <4>1 DEF QueueOf
      <4>3. d # mesh'[m].peer_fd /\ d # conn'[m]
        BY <1>4, <1>5, <1>6, <3>2, <4>2
      <4>4. QED
        BY <1>6, <2>2, <3>2, <4>1, <4>2, <4>3
    <3>3. QED
      BY <3>1, <3>2
  <2>4. QED
    BY <2>1, <2>3 DEF QueueOf
<1>14. Links'
  BY <1>12, <1>13 DEF Links
<1>15. QED
  BY <1>2, <1>5, <1>6, <1>14 DEF r

LEMMA AcceptsLinks ==
    ASSUME Types, Counted, Links, NEW n \in Agent, Accepts(n)
    PROVE  Links'
<1> DEFINE h == Head(backlog[n])
           p == mesh[n].peer_fd
<1>1. /\ backlog[n] # <<>> /\ h \in Conn
      /\ mesh'[n] = [mesh[n] EXCEPT !.peer_fd = h]
      /\ conn'[n] = h /\ backlog'[n] = Tail(backlog[n])
      /\ \A m \in Agent \ {n} : mesh'[m] = mesh[m] /\ conn'[m] = conn[m] /\ backlog'[m] = backlog[m]
      /\ \A c \in Conn : open'[c] = IF c = p THEN open[c] \ {n} ELSE open[c]
  BY AcceptsTypes
<1>2. main' = main
  BY DEF Accepts
<1>3. \A m \in Agent : LinkOf(m) /\ QueueOf(m)
  BY DEF Links
<1>4. /\ h \in ToSet(backlog[n]) /\ ToSet(backlog[n]) \subseteq Conn
      /\ ToSet(backlog'[n]) \subseteq ToSet(backlog[n])
      /\ ToSet(backlog[n]) \subseteq ToSet(backlog'[n]) \cup {h}
      /\ Distinct(backlog'[n]) /\ h \notin ToSet(backlog'[n])
  <2>1. backlog[n] \in Seq(Conn) /\ Distinct(backlog[n])
    BY <1>3, DescriptorFacts DEF QueueOf
  <2>2. QED
    BY <1>1, <2>1, QueueFacts
<1>5. mesh'[n].peer_fd = h /\ mesh'[n].listen_fd = mesh[n].listen_fd
  BY <1>1 DEF Types, MeshRec
<1>6. n \in open[h] /\ h # p /\ h # conn[n]
  BY <1>3, <1>4 DEF QueueOf
<1>7. main[n] \notin Down /\ "join" \in Down
  BY <1>1, <1>3, <1>6 DEF LinkOf, Down
<1> HIDE DEF h, p
<1>8. ASSUME NEW m \in Agent PROVE LinkOf(m)'
  <2>1. CASE m = n
    <3>1. n \in open'[h]
      BY <1>1, <1>6
    <3>2. conn[n] = NoFd \/ conn[n] = p
      BY <1>3, <1>7 DEF LinkOf, p
    <3>3. ASSUME NEW c \in Conn, n \in open'[c]
          PROVE  c = h \/ c \in ToSet(backlog'[n])
      <4>1. n \in open[c] /\ c # p
        BY <1>1, <3>3
      <4>2. c # conn[n]
        BY <3>2, <4>1, DescriptorFacts
      <4>3. c \in ToSet(backlog[n])
        BY <1>3, <4>1, <4>2 DEF LinkOf, p
      <4>4. QED
        BY <1>4, <4>3
    <3>4. QED
      BY <1>1, <1>2, <1>5, <1>7, <2>1, <3>1, <3>3 DEF LinkOf
  <2>2. CASE m # n
    <3>1. mesh'[m] = mesh[m] /\ conn'[m] = conn[m] /\ backlog'[m] = backlog[m] /\ main'[m] = main[m]
      BY <1>1, <1>2, <2>2
    <3>2. \A c \in Conn : (m \in open'[c] <=> m \in open[c]) /\ (open[c] = {} => open'[c] = {})
      BY <1>1, <2>2
    <3>3. QED
      BY <1>3, <3>1, <3>2 DEF LinkOf
  <2>3. QED
    BY <2>1, <2>2
<1>9. ASSUME NEW m \in Agent PROVE QueueOf(m)'
  <2>1. Distinct(backlog'[m])
    BY <1>1, <1>3, <1>4 DEF QueueOf
  <2>2. \A k \in Agent : ToSet(backlog'[k]) \subseteq ToSet(backlog[k])
    BY <1>1, <1>4
  <2>3. ASSUME NEW d \in ToSet(backlog'[m])
        PROVE  /\ m \in open'[d] /\ d # mesh'[m].peer_fd /\ d # conn'[m]
               /\ \A k \in Agent \ {m} : d \notin ToSet(backlog'[k])
    <3>1. d \in ToSet(backlog[m]) /\ d \in Conn
      BY <2>2, <2>3, QueueFacts, DescriptorFacts
    <3>2. m \in open[d] /\ d # mesh[m].peer_fd /\ d # conn[m]
          /\ \A k \in Agent \ {m} : d \notin ToSet(backlog[k])
      BY <1>3, <3>1 DEF QueueOf
    <3>3. m = n => d # h
      BY <1>4, <2>3
    <3>4. d # mesh'[m].peer_fd /\ d # conn'[m]
      BY <1>1, <1>5, <3>2, <3>3
    <3>5. m \in open'[d]
      BY <1>1, <3>1, <3>2, ZenonT(60) DEF p
    <3>6. QED
      BY <2>2, <3>2, <3>4, <3>5
  <2>4. QED
    BY <2>1, <2>3 DEF QueueOf
<1>10. QED
  BY <1>8, <1>9 DEF Links

LEMMA ServerHangsUpLinks ==
    ASSUME Types, Counted, Links, NEW n \in Agent, ServerHangsUp(n)
    PROVE  Links'
<1> DEFINE h == conn[n]
<1>1. /\ h \in Conn /\ conn'[n] = NoFd
      /\ mesh'[n] = [mesh[n] EXCEPT !.peer_fd = IF @ = h THEN NoFd ELSE @]
      /\ \A m \in Agent \ {n} : mesh'[m] = mesh[m] /\ conn'[m] = conn[m]
      /\ \A c \in Conn : open'[c] = IF c = h THEN open[c] \ {n} ELSE open[c]
  BY ServerHangsUpTypes
<1>2. main' = main /\ backlog' = backlog
  BY DEF ServerHangsUp
<1>3. \A m \in Agent : LinkOf(m) /\ QueueOf(m)
  BY DEF Links
<1>4. /\ mesh'[n].peer_fd = IF mesh[n].peer_fd = h THEN NoFd ELSE mesh[n].peer_fd
      /\ mesh'[n].listen_fd = mesh[n].listen_fd
  BY <1>1 DEF Types, MeshRec
<1>5. "join" \in Down
  BY DEF Down
<1> HIDE DEF h
<1>6. ASSUME NEW m \in Agent PROVE LinkOf(m)'
  <2>1. CASE m = n
    <3>1. CASE main[n] \in Down
      <4>1. mesh[n].peer_fd = NoFd /\ ~mesh[n].listen_fd /\ \A c \in Conn : n \notin open[c]
        BY <1>3, <3>1 DEF LinkOf
      <4>2. mesh'[n].peer_fd = NoFd /\ \A c \in Conn : n \notin open'[c]
        BY <1>1, <1>4, <4>1
      <4>3. QED
        BY <1>1, <1>2, <1>4, <2>1, <4>1, <4>2, DescriptorFacts, ZenonT(60) DEF LinkOf
    <3>2. CASE main[n] \notin Down
      <4>1. mesh[n].peer_fd = h
        BY <1>1, <1>3, <1>5, <3>2, DescriptorFacts DEF LinkOf, h
      <4>2. mesh'[n].peer_fd = NoFd
        BY <1>4, <4>1
      <4>3. \A c \in Conn : n \in open'[c] => c \in ToSet(backlog[n])
        BY <1>1, <1>3, <4>1, ZenonT(60) DEF LinkOf, h
      <4>4. QED
        BY <1>1, <1>2, <1>5, <2>1, <3>2, <4>2, <4>3, DescriptorFacts, ZenonT(60) DEF LinkOf
    <3>3. QED
      BY <3>1, <3>2
  <2>2. CASE m # n
    <3>1. mesh'[m] = mesh[m] /\ conn'[m] = conn[m] /\ backlog'[m] = backlog[m] /\ main'[m] = main[m]
      BY <1>1, <1>2, <2>2
    <3>2. \A c \in Conn : (m \in open'[c] <=> m \in open[c]) /\ (open[c] = {} => open'[c] = {})
      BY <1>1, <2>2
    <3>3. QED
      BY <1>3, <3>1, <3>2 DEF LinkOf
  <2>3. QED
    BY <2>1, <2>2
<1>7. ASSUME NEW m \in Agent PROVE QueueOf(m)'
  <2>1. ASSUME NEW d \in ToSet(backlog[m])
        PROVE  m \in open'[d] /\ d # mesh'[m].peer_fd /\ d # conn'[m]
    <3>1. d \in Conn /\ m \in open[d] /\ d # mesh[m].peer_fd /\ d # conn[m] /\ d # NoFd
      BY <1>3, QueueFacts, DescriptorFacts, SMTT(30) DEF QueueOf
    <3>2. m \in open'[d]
      BY <1>1, <3>1 DEF h
    <3>3. QED
      BY <1>1, <1>4, <3>1, <3>2
  <2>2. QED
    BY <1>2, <1>3, <2>1 DEF QueueOf
<1>8. QED
  BY <1>6, <1>7 DEF Links

LEMMA StopsLinks ==
    ASSUME Types, Counted, Links, NEW n \in Agent, Stops(n)
    PROVE  Links'
<1>1. /\ main'[n] = "join" /\ backlog'[n] = <<>>
      /\ mesh'[n] = [mesh[n] EXCEPT !.running = FALSE, !.peer_fd = NoFd, !.listen_fd = FALSE]
      /\ \A m \in Agent \ {n} : mesh'[m] = mesh[m] /\ main'[m] = main[m] /\ backlog'[m] = backlog[m]
      /\ \A c \in Conn : open'[c] = IF c \in ToSet(backlog[n]) THEN {}
                                    ELSE IF c = mesh[n].peer_fd THEN open[c] \ {n} ELSE open[c]
  BY StopsTypes
<1>2. conn' = conn /\ main[n] = "idle"
  BY DEF Stops
<1>3. \A m \in Agent : LinkOf(m) /\ QueueOf(m)
  BY DEF Links
<1>4. mesh'[n].peer_fd = NoFd /\ ~mesh'[n].listen_fd
  BY <1>1 DEF Types, MeshRec
<1>5. ToSet(backlog'[n]) = {} /\ Distinct(backlog'[n])
  <2>1. <<>> \in Seq(Conn) /\ Len(<<>>) = 0
    OBVIOUS
  <2>2. Distinct(<<>>)
    BY <2>1 DEF Distinct
  <2>3. QED
    BY <1>1, <2>1, <2>2, QueueFacts
<1>6. ASSUME NEW c \in Conn PROVE n \notin open'[c]
  <2>1. conn[n] = NoFd \/ conn[n] = mesh[n].peer_fd
    BY <1>2, <1>3 DEF LinkOf
  <2>2. n \in open[c] => c = mesh[n].peer_fd \/ c \in ToSet(backlog[n])
    BY <1>3, <2>1, DescriptorFacts DEF LinkOf
  <2>3. QED
    BY <1>1, <2>2
<1>7. ASSUME NEW m \in Agent PROVE LinkOf(m)'
  <2>1. CASE m = n
    BY <1>1, <1>4, <1>6, <2>1, DescriptorFacts DEF LinkOf
  <2>2. CASE m # n
    <3>1. mesh'[m] = mesh[m] /\ conn'[m] = conn[m] /\ backlog'[m] = backlog[m] /\ main'[m] = main[m]
      BY <1>1, <1>2, <2>2
    <3>2. \A c \in Conn : /\ m \in open'[c] => m \in open[c]
                          /\ m \in open[c] => m \in open'[c] \/ open'[c] = {}
                          /\ open[c] = {} => open'[c] = {}
      BY <1>1, <2>2
    <3>3. QED
      BY <1>3, <3>1, <3>2 DEF LinkOf
  <2>3. QED
    BY <2>1, <2>2
<1>8. ASSUME NEW m \in Agent PROVE QueueOf(m)'
  <2>1. CASE m = n
    BY <1>5, <2>1 DEF QueueOf
  <2>2. CASE m # n
    <3>1. mesh'[m] = mesh[m] /\ conn'[m] = conn[m] /\ backlog'[m] = backlog[m]
      BY <1>1, <1>2, <2>2
    <3>2. \A k \in Agent : ToSet(backlog'[k]) \subseteq ToSet(backlog[k])
      BY <1>1, <1>5
    <3>3. ASSUME NEW d \in ToSet(backlog[m]) PROVE m \in open'[d]
      <4>1. d \in Conn /\ m \in open[d] /\ d \notin ToSet(backlog[n])
        BY <1>3, <2>2, QueueFacts, DescriptorFacts DEF QueueOf
      <4>2. QED
        BY <1>1, <2>2, <4>1
    <3>4. QED
      BY <1>3, <3>1, <3>2, <3>3 DEF QueueOf
  <2>3. QED
    BY <2>1, <2>2
<1>9. QED
  BY <1>7, <1>8 DEF Links

LEMMA JoinsLinks ==
    ASSUME Types, Counted, Links, NEW n \in Agent, Joins(n)
    PROVE  Links'
<1>1. /\ main[n] = "join" /\ main'[n] = "stopped" /\ conn'[n] = NoFd
      /\ \A m \in Agent \ {n} : main'[m] = main[m] /\ conn'[m] = conn[m]
  BY JoinsTypes
<1>2. mesh' = mesh /\ backlog' = backlog /\ open' = open
  BY DEF Joins
<1>3. \A m \in Agent : LinkOf(m) /\ QueueOf(m)
  BY DEF Links
<1>4. ASSUME NEW m \in Agent PROVE LinkOf(m)'
  <2>1. "join" \in Down
    BY DEF Down
  <2>2. CASE m = n
    BY <1>1, <1>2, <1>3, <2>1, <2>2 DEF LinkOf
  <2>3. CASE m # n
    BY <1>1, <1>2, <1>3, <2>3 DEF LinkOf
  <2>4. QED
    BY <2>2, <2>3
<1>5. ASSUME NEW m \in Agent PROVE QueueOf(m)'
  <2>1. \A d \in ToSet(backlog[m]) : d # NoFd /\ d # conn[m]
    BY <1>3, QueueFacts, DescriptorFacts, ZenonT(60) DEF QueueOf
  <2>2. QED
    BY <1>1, <1>2, <1>3, <2>1 DEF QueueOf
<1>6. QED
  BY <1>4, <1>5 DEF Links

LEMMA DiesLinks ==
    ASSUME Types, Counted, Links, NEW n \in Agent, Dies(n)
    PROVE  Links'
<1>1. /\ mesh'[n] = InitMesh /\ main'[n] = "dead" /\ conn'[n] = NoFd /\ backlog'[n] = <<>>
      /\ \A m \in Agent \ {n} : /\ mesh'[m] = mesh[m] /\ main'[m] = main[m] /\ conn'[m] = conn[m]
                                /\ backlog'[m] = backlog[m]
      /\ \A c \in Conn : open'[c] = IF c \in ToSet(backlog[n]) THEN {} ELSE open[c] \ {n}
  BY DiesFacts
<1>3. \A m \in Agent : LinkOf(m) /\ QueueOf(m)
  BY DEF Links
<1>4. mesh'[n].peer_fd = NoFd /\ ~mesh'[n].listen_fd
  BY <1>1 DEF InitMesh
<1>5. ToSet(backlog'[n]) = {} /\ Distinct(backlog'[n])
  <2>1. <<>> \in Seq(Conn) /\ Len(<<>>) = 0
    OBVIOUS
  <2>2. Distinct(<<>>)
    BY <2>1 DEF Distinct
  <2>3. QED
    BY <1>1, <2>1, <2>2, QueueFacts
<1>6. \A c \in Conn : n \notin open'[c]
  BY <1>1
<1>7. ASSUME NEW m \in Agent PROVE LinkOf(m)'
  <2>1. CASE m = n
    BY <1>1, <1>4, <1>6, <2>1, DescriptorFacts DEF LinkOf
  <2>2. CASE m # n
    <3>1. mesh'[m] = mesh[m] /\ conn'[m] = conn[m] /\ backlog'[m] = backlog[m] /\ main'[m] = main[m]
      BY <1>1, <2>2
    <3>2. \A c \in Conn : /\ m \in open'[c] => m \in open[c]
                          /\ m \in open[c] => m \in open'[c] \/ open'[c] = {}
                          /\ open[c] = {} => open'[c] = {}
      BY <1>1, <2>2
    <3>3. QED
      BY <1>3, <3>1, <3>2 DEF LinkOf
  <2>3. QED
    BY <2>1, <2>2
<1>8. ASSUME NEW m \in Agent PROVE QueueOf(m)'
  <2>1. CASE m = n
    BY <1>5, <2>1 DEF QueueOf
  <2>2. CASE m # n
    <3>1. mesh'[m] = mesh[m] /\ conn'[m] = conn[m] /\ backlog'[m] = backlog[m]
      BY <1>1, <2>2
    <3>2. \A k \in Agent : ToSet(backlog'[k]) \subseteq ToSet(backlog[k])
      BY <1>1, <1>5
    <3>3. ASSUME NEW d \in ToSet(backlog[m]) PROVE m \in open'[d]
      <4>1. d \in Conn /\ m \in open[d] /\ d \notin ToSet(backlog[n])
        BY <1>3, <2>2, QueueFacts, DescriptorFacts DEF QueueOf
      <4>2. QED
        BY <1>1, <2>2, <4>1
    <3>4. QED
      BY <1>3, <3>1, <3>2, <3>3 DEF QueueOf
  <2>3. QED
    BY <2>1, <2>2
<1>9. QED
  BY <1>7, <1>8 DEF Links

(* agent_mesh_start connects, or a consult connects anew. *)
LEMMA JoiningFacts ==
    ASSUME Types, Links, NEW n \in Agent, StartAsClient(n) \/ Reconnects(n)
    PROVE  /\ Connects(n) /\ Reachable(n) /\ mesh[n].peer_fd = NoFd /\ main[n] # "join"
           /\ main'[n] \notin Down /\ \A m \in Agent \ {n} : main'[m] = main[m]
           /\ UNCHANGED <<wire, question, result>>
<1>1. Connects(n) /\ Reachable(n) /\ (Go(n, "idle") \/ Go(n, "consult"))
      /\ UNCHANGED <<wire, question, result>>
  BY DEF StartAsClient, Reconnects
<1>2. main'[n] \in {"idle", "consult"} /\ \A m \in Agent \ {n} : main'[m] = main[m]
  BY <1>1, GoFacts DEF MainAt
<1>3. mesh[n].peer_fd = NoFd /\ main[n] # "join"
  BY DEF Links, LinkOf, Down, StartAsClient, Reconnects
<1>4. QED
  BY <1>1, <1>2, <1>3 DEF Down

LEMMA LinksStep == Types /\ Counted /\ Links /\ [Next]_vars => Links'
<1> SUFFICES ASSUME Types, Counted, Links, [Next]_vars PROVE Links'
  OBVIOUS
<1>1. CASE UNCHANGED vars
  BY <1>1, QuietLinks DEF vars
<1>2. ASSUME NEW n \in Agent,
             \/ Main(n) \/ Listens(n) \/ Reconnects(n) \/ Arms(n) \/ Stops(n)
             \/ BrokenPipe(n) \/ Crash(n) \/ Restarts(n)
      PROVE  Links'
  <2>1. CASE StartAsClient(n) \/ Reconnects(n)
    BY <2>1, JoiningFacts, ConnectsLinks
  <2>2. CASE StartUnlinks(n)
    <3>1. main[n] = "connect" /\ main'[n] = "bind" /\ \A m \in Agent \ {n} : main'[m] = main[m]
      BY <2>2, GoFacts DEF StartUnlinks, MainAt
    <3>2. UNCHANGED <<mesh, conn, backlog, open>>
      BY <2>2 DEF StartUnlinks
    <3>3. "connect" \in Down \ {"join"} /\ "bind" \in Down \ {"join"}
      BY DEF Down
    <3>4. QED
      BY <3>1, <3>2, <3>3, QuietLinks
  <2>3. CASE StartBinds(n)
    <3>1. main[n] = "bind" /\ main'[n] \in {"listen", "idle"} /\ \A m \in Agent \ {n} : main'[m] = main[m]
      BY <2>3, GoFacts DEF StartBinds, MainAt
    <3>2. UNCHANGED <<mesh, conn, backlog, open>>
      BY <2>3 DEF StartBinds
    <3>3. "bind" \in Down \ {"join"} /\ "listen" \in Down \ {"join"} /\ "idle" \notin Down
      BY DEF Down
    <3>4. QED
      BY <3>1, <3>2, <3>3, QuietLinks
  <2>4. CASE StartListens(n)
    <3> DEFINE r == [mesh[n] EXCEPT !.is_server = TRUE, !.listen_fd = TRUE, !.running = TRUE]
    <3>1. r.peer_fd = mesh[n].peer_fd
      BY DEF Types, MeshRec
    <3>2. mesh'[n] = r /\ \A m \in Agent \ {n} : mesh'[m] = mesh[m]
      BY <2>4 DEF StartListens, Types
    <3>3. main[n] = "listen" /\ main'[n] = "idle" /\ \A m \in Agent \ {n} : main'[m] = main[m]
      BY <2>4, GoFacts DEF StartListens, MainAt
    <3>4. UNCHANGED <<conn, backlog, open>>
      BY <2>4 DEF StartListens
    <3>5. "idle" \notin Down
      BY DEF Down
    <3> HIDE DEF r
    <3>6. QED
      BY <3>1, <3>2, <3>3, <3>4, <3>5, QuietLinks
  <2>5. CASE Arms(n)
    <3>1. UNCHANGED <<conn, backlog, open>> /\ main[n] # "join" /\ "armed" \notin Down
      BY <2>5 DEF Arms, Down
    <3>2. QED
      BY <2>5, <3>1, ArmsTypes, QuietLinks
  <2>6. CASE SendRefused(n) \/ SendNewline(n)
    <3>1. UNCHANGED <<mesh, conn, backlog, open>> /\ main[n] # "join"
      BY <2>6 DEF SendRefused, SendNewline
    <3>2. main'[n] \notin Down /\ \A m \in Agent \ {n} : main'[m] = main[m]
      BY <2>6, SendTypes DEF Down
    <3>3. QED
      BY <3>1, <3>2, QuietLinks
  <2>7. CASE SendFrame(n)
    <3>1. UNCHANGED <<conn, backlog, open>> /\ main[n] # "join" /\ "written" \notin Down
      BY <2>7 DEF SendFrame, Down
    <3>2. /\ main'[n] = "written" /\ \A m \in Agent \ {n} : mesh'[m] = mesh[m] /\ main'[m] = main[m]
          /\ mesh'[n] = [mesh[n] EXCEPT !.next_msg_id = mesh[n].next_msg_id + 1]
      BY <2>7, SendFrameTypes
    <3>3. mesh'[n].peer_fd = mesh[n].peer_fd /\ mesh'[n].listen_fd = mesh[n].listen_fd
      BY <3>2 DEF Types, MeshRec
    <3>4. QED
      BY <3>1, <3>2, <3>3, QuietLinks
  <2>8. CASE WaitEnds(n)
    <3>1. UNCHANGED <<conn, backlog, open>> /\ main[n] # "join" /\ "idle" \notin Down
      BY <2>8 DEF WaitEnds, Down
    <3>2. QED
      BY <2>8, <3>1, WaitTypes, QuietLinks
  <2>9. CASE ReadsResponse(n)
    <3>1. UNCHANGED <<conn, backlog, open, main>>
      BY <2>9 DEF ReadsResponse
    <3>2. /\ \A m \in Agent \ {n} : mesh'[m] = mesh[m]
          /\ \/ mesh'[n] = mesh[n]
             \/ \E q : mesh'[n] = [mesh[n] EXCEPT !.pending_response = q, !.pending_arrived = TRUE]
      BY <2>9, ReadsResponseTypes
    <3>3. mesh'[n].peer_fd = mesh[n].peer_fd /\ mesh'[n].listen_fd = mesh[n].listen_fd
      BY <3>2, ZenonT(60) DEF Types, MeshRec
    <3>4. QED
      BY <3>1, <3>2, <3>3, QuietLinks
  <2>10. CASE ReadsRequest(n) \/ ReadsEmptyLine(n) \/ ReplyNewline(n) \/ ClientHangsUp(n) \/ AcceptEnds(n)
    <3>1. UNCHANGED <<mesh, main, conn, backlog, open>>
      BY <2>10 DEF ReadsRequest, ReadsEmptyLine, ReplyNewline, ClientHangsUp, AcceptEnds
    <3>2. QED
      BY <3>1, QuietLinks
  <2>11. CASE Restarts(n)
    <3>1. UNCHANGED <<mesh, conn, backlog, open>> /\ main[n] = "dead"
      BY <2>11 DEF Restarts
    <3>2. "dead" \in Down \ {"join"} /\ "connect" \in Down \ {"join"}
      BY DEF Down
    <3>3. QED
      BY <2>11, <3>1, <3>2, RestartsTypes, QuietLinks
  <2>12. CASE Accepts(n) \/ ServerHangsUp(n) \/ Stops(n) \/ Joins(n)
    BY <2>12, AcceptsLinks, ServerHangsUpLinks, StopsLinks, JoinsLinks
  <2>13. CASE BrokenPipe(n) \/ Crash(n)
    BY <2>13, DiesLinks DEF BrokenPipe, Crash
  <2>14. QED
    BY <1>2, <2>1, <2>2, <2>3, <2>4, <2>5, <2>6, <2>7, <2>8, <2>9, <2>10, <2>11, <2>12, <2>13
       DEF Main, Listens
<1>3. QED
  BY <1>1, <1>2 DEF Next

(* However the agents start, consult, stop, crash and come back, an end of *)
(* a connection that is open is one its owner still has in hand: as its    *)
(* peer_fd, as its listener's conn or in its accept queue.  No sequence of *)
(* agent_mesh_start, mesh_server_worker and agent_mesh_stop leaks one.     *)
THEOREM NoConnectionLeaks == Spec => []MeshInv
<1>1. Init => Types /\ Counted /\ Links
  BY MeshInitially, LinksInitially
<1>2. (Types /\ Counted /\ Links) /\ [Next]_vars => (Types /\ Counted /\ Links)'
  BY TypesStep, LinksStep
<1>3. Types /\ Counted /\ Links => MeshInv
  <2> SUFFICES ASSUME Types, Links PROVE NoLeakedConnection
    BY TypesAreTypeOK DEF MeshInv
  <2>1. QED
    BY DEF Links, LinkOf, Down, NoLeakedConnection
<1>4. QED
  BY <1>1, <1>2, <1>3, PTL DEF Spec

-----------------------------------------------------------------------------
LEMMA OwnedInitially == Init => Owned
<1> SUFFICES ASSUME Init PROVE Owned
  OBVIOUS
<1>1. /\ \A c \in Conn : open[c] = {} /\ \A m \in Agent : wire[c][m] = <<>>
      /\ \A m \in Agent : mesh[m] = InitMesh /\ result[m] = NoText
  BY DEF Init
<1>2. ~InitMesh.pending_arrived
  BY DEF InitMesh
<1>3. Pairs /\ RequestsOwn /\ RepliesOwn
  BY <1>1, NoToks DEF Pairs, Uses, RequestsOwn, RepliesOwn
<1>4. PendingOwn /\ AnswerIsOwn
  BY <1>1, <1>2 DEF PendingOwn, AnswerIsOwn
<1>5. QED
  BY <1>3, <1>4 DEF Owned

LEMMA PairsKept ==
    ASSUME Pairs, \A c \in Conn, a \in Agent : Uses(a, c)' => Uses(a, c)
    PROVE  Pairs'
  BY DEF Pairs

(* The frames that stay where they are still belong to the same agents. *)
LEMMA FramesKept ==
    ASSUME RequestsOwn, RepliesOwn,
           \A c \in Conn, m \in Agent : Toks(wire'[c][m]) \cap Frames \subseteq Toks(wire[c][m]),
           \A c \in Conn : open'[c] \subseteq open[c],
           \A m \in Agent : \/ \A f \in Frames : Mine(m, f) => Mine(m, f)'
                            \/ \A c \in Conn : m \notin open'[c] /\ Toks(wire'[c][m]) = {},
           open' \in [Conn -> SUBSET Agent]
    PROVE  RequestsOwn' /\ RepliesOwn'
<1>1. ASSUME NEW c \in Conn, NEW m \in Agent, NEW n \in open'[c] \ {m},
             NEW f \in Toks(wire'[c][m]) \cap Frames, ~f.resp
      PROVE  Mine(n, f)'
  <2>1. n \in Agent /\ n \in open[c] \ {m} /\ f \in Toks(wire[c][m]) \cap Frames
    OBVIOUS
  <2>2. Mine(n, f)
    BY <1>1, <2>1 DEF RequestsOwn
  <2>3. QED
    BY <2>1, <2>2
<1>2. ASSUME NEW c \in Conn, NEW n \in Agent, NEW f \in Toks(wire'[c][n]) \cap Frames, f.resp
      PROVE  Mine(n, f)'
  <2>1. f \in Toks(wire[c][n]) \cap Frames /\ Toks(wire'[c][n]) # {}
    OBVIOUS
  <2>2. Mine(n, f)
    BY <1>2, <2>1 DEF RepliesOwn
  <2>3. QED
    BY <2>1, <2>2
<1>3. QED
  BY <1>1, <1>2 DEF RequestsOwn, RepliesOwn

(* The steps that write no frame and touch no pending request. *)
LEMMA OwnedKept ==
    ASSUME Owned, Types', UNCHANGED <<question, result>>,
           \A c \in Conn, m \in Agent : /\ Toks(wire'[c][m]) \cap Frames \subseteq Toks(wire[c][m])
                                        /\ wire'[c][m] # <<>> => Uses(m, c),
           \A c \in Conn : open'[c] \subseteq open[c],
           \A m \in Agent : /\ mesh'[m].next_msg_id = mesh[m].next_msg_id
                            /\ mesh'[m].pending_req_id = mesh[m].pending_req_id
                            /\ mesh'[m].pending_arrived = mesh[m].pending_arrived
                            /\ mesh'[m].pending_response = mesh[m].pending_response
    PROVE  Owned'
<1>1. Pairs'
  <2>1. \A c \in Conn, a \in Agent : Uses(a, c)' => Uses(a, c)
    BY DEF Uses
  <2>2. QED
    BY <2>1, PairsKept DEF Owned
<1>2. \A m \in Agent : \A f \in Frames : Mine(m, f) => Mine(m, f)'
  BY DEF Mine
<1>3. RequestsOwn' /\ RepliesOwn'
  BY <1>2, FramesKept DEF Owned, Types
<1>4. PendingOwn'
  BY DEF Owned, PendingOwn
<1>5. AnswerIsOwn'
  BY DEF Owned, AnswerIsOwn
<1>6. QED
  BY <1>1, <1>3, <1>4, <1>5 DEF Owned

LEMMA NewlineIsNoFrame == NL \notin Frames
<1>1. NL.kind = "newline" /\ \A f \in Frames : f.kind = "frame"
  BY DEF NL, Frames
<1>2. "newline" # "frame"
  OBVIOUS
<1>3. QED
  BY <1>1, <1>2

LEMMA JoiningOwned ==
    ASSUME Types, Counted, Links, Owned, Types', NEW n \in Agent, StartAsClient(n) \/ Reconnects(n)
    PROVE  Owned'
<1>1. /\ Connects(n) /\ Reachable(n) /\ mesh[n].peer_fd = NoFd /\ main[n] # "join"
      /\ main'[n] \notin Down /\ \A m \in Agent \ {n} : main'[m] = main[m]
      /\ UNCHANGED <<wire, question, result>>
  BY JoiningFacts
<1>2. PICK c \in Conn : /\ \A a \in Agent : wire[c][a] = <<>>
                        /\ open'[c] = {n, path}
                        /\ \A d \in Conn \ {c} : open'[d] = open[d]
  BY <1>1, ConnectsLinks
<1>3. /\ \E e \in Conn : mesh'[n] = [mesh[n] EXCEPT !.is_server = FALSE, !.peer_fd = e, !.running = TRUE]
      /\ \A m \in Agent \ {n} : mesh'[m] = mesh[m]
  BY <1>1, ConnectsLinks
<1>4. \A m \in Agent : /\ mesh'[m].next_msg_id = mesh[m].next_msg_id
                       /\ mesh'[m].pending_req_id = mesh[m].pending_req_id
                       /\ mesh'[m].pending_arrived = mesh[m].pending_arrived
                       /\ mesh'[m].pending_response = mesh[m].pending_response
  <2>1. mesh[n] \in MeshRec
    BY DEF Types
  <2>2. QED
    BY <1>3, <2>1, ZenonT(60) DEF MeshRec
<1>5. Pairs'
  <2> SUFFICES ASSUME NEW e \in Conn, NEW a \in Agent, NEW b \in Agent, NEW d \in Agent,
                      Uses(a, e)', Uses(b, e)', Uses(d, e)'
               PROVE  a = b \/ b = d \/ a = d
    BY DEF Pairs
  <2>1. CASE e = c
    BY <1>1, <1>2, <2>1 DEF Uses
  <2>2. CASE e # c
    <3>1. Uses(a, e) /\ Uses(b, e) /\ Uses(d, e)
      BY <1>1, <1>2, <2>2 DEF Uses
    <3>2. QED
      BY <3>1 DEF Owned, Pairs
  <2>3. QED
    BY <2>1, <2>2
<1>6. \A m \in Agent : \A f \in Frames : Mine(m, f) => Mine(m, f)'
  BY <1>1, <1>4 DEF Mine
<1>7. RequestsOwn'
  <2> SUFFICES ASSUME NEW e \in Conn, NEW m \in Agent, NEW k \in open'[e] \ {m},
                      NEW f \in Toks(wire'[e][m]) \cap Frames, ~f.resp
               PROVE  Mine(k, f)'
    BY DEF RequestsOwn
  <2>1. e # c
    BY <1>1, <1>2, NoToks
  <2>2. k \in Agent /\ k \in open[e] \ {m} /\ f \in Toks(wire[e][m]) \cap Frames
    BY <1>1, <1>2, <2>1 DEF Types
  <2>3. Mine(k, f)
    BY <2>2 DEF Owned, RequestsOwn
  <2>4. QED
    BY <1>6, <2>2, <2>3
<1>8. RepliesOwn'
  BY <1>1, <1>6 DEF Owned, RepliesOwn
<1>9. PendingOwn' /\ AnswerIsOwn'
  BY <1>1, <1>4 DEF Owned, PendingOwn, AnswerIsOwn
<1>10. QED
  BY <1>5, <1>7, <1>8, <1>9 DEF Owned

LEMMA ArmsOwned ==
    ASSUME Types, Counted, Owned, Types', NEW n \in Agent, Arms(n)
    PROVE  Owned'
<1>1. /\ mesh'[n].pending_req_id = mesh[n].next_msg_id /\ ~mesh'[n].pending_arrived
      /\ mesh'[n].next_msg_id = mesh[n].next_msg_id /\ result'[n] = NoText
      /\ \A m \in Agent \ {n} : /\ mesh'[m] = mesh[m]
                                /\ question'[m] = question[m] /\ result'[m] = result[m]
  BY ArmsTypes
<1>2. UNCHANGED <<wire, open>>
  BY DEF Arms
<1>3. Pairs'
  BY <1>2 DEF Owned, Pairs, Uses
<1>4. ASSUME NEW m \in Agent, NEW f \in Frames, Mine(m, f) PROVE Mine(m, f)'
  <2>1. CASE m = n
    <3>1. f.id \in Int /\ mesh[n].next_msg_id \in Int /\ f.id < mesh[n].next_msg_id
      BY <1>4, <2>1 DEF Mine, Frames, Types, MeshRec
    <3>2. f.id # mesh[n].next_msg_id
      BY <3>1
    <3>3. QED
      BY <1>1, <2>1, <3>1, <3>2 DEF Mine
  <2>2. CASE m # n
    BY <1>1, <1>4, <2>2 DEF Mine
  <2>3. QED
    BY <2>1, <2>2
<1>5. RequestsOwn' /\ RepliesOwn'
  BY <1>2, <1>4, FramesKept DEF Owned, Types
<1>6. PendingOwn' /\ AnswerIsOwn'
  BY <1>1 DEF Owned, PendingOwn, AnswerIsOwn
<1>7. QED
  BY <1>3, <1>5, <1>6 DEF Owned

LEMMA WaitOwned ==
    ASSUME Types, Counted, Owned, Types', NEW n \in Agent, WaitEnds(n)
    PROVE  Owned'
<1>1. /\ mesh'[n].next_msg_id = mesh[n].next_msg_id
      /\ mesh'[n].pending_req_id = 0 /\ ~mesh'[n].pending_arrived
      /\ result'[n] = IF mesh[n].pending_arrived THEN mesh[n].pending_response ELSE NoText
      /\ \A m \in Agent \ {n} : mesh'[m] = mesh[m] /\ result'[m] = result[m]
  BY WaitTypes
<1>2. UNCHANGED <<wire, open, question>>
  BY DEF WaitEnds
<1>3. Pairs'
  BY <1>2 DEF Owned, Pairs, Uses
<1>4. ASSUME NEW m \in Agent, NEW f \in Frames, Mine(m, f) PROVE Mine(m, f)'
  <2>1. f.id # 0
    BY DEF Frames
  <2>2. QED
    BY <1>1, <1>2, <1>4, <2>1 DEF Mine
<1>5. RequestsOwn' /\ RepliesOwn'
  BY <1>2, <1>4, FramesKept DEF Owned, Types
<1>6. PendingOwn'
  BY <1>1, <1>2 DEF Owned, PendingOwn
<1>7. result'[n] \in {NoText, question[n]}
  BY <1>1 DEF Owned, PendingOwn
<1>8. AnswerIsOwn'
  BY <1>1, <1>2, <1>7 DEF Owned, AnswerIsOwn
<1>9. QED
  BY <1>3, <1>5, <1>6, <1>8 DEF Owned

LEMMA SendFrameOwned ==
    ASSUME Types, Counted, Links, Owned, Types', NEW n \in Agent, SendFrame(n)
    PROVE  Owned'
<1> DEFINE c == mesh[n].peer_fd
<1>1. /\ mesh'[n] = [mesh[n] EXCEPT !.next_msg_id = mesh[n].next_msg_id + 1]
      /\ \A m \in Agent \ {n} : mesh'[m] = mesh[m]
      /\ c \in Conn /\ main[n] = "armed"
  BY SendFrameTypes DEF SendFrame
<1>2. PICK t \in Frames : /\ ~t.resp /\ t.id = mesh[n].next_msg_id /\ t.q = question[n]
                          /\ Put(c, n, t)
  BY SendFrameTypes
<1>3. \A d \in Conn, m \in Agent :
         /\ wire'[d][m] # <<>> => wire[d][m] # <<>> \/ m \in open[d]
         /\ \A f \in Toks(wire'[d][m]) :
               f \in Toks(wire[d][m]) \/ (f = t /\ d = c /\ m # n /\ m \in open[c])
  <2>1. t \in Token
    BY DEF Token
  <2>2. QED
    BY <1>1, <1>2, <2>1, PutFacts
<1>4. UNCHANGED <<open, question, result>> /\ ~Hungup(n, c)
  BY DEF SendFrame
<1>5. n \in open[c]
  BY <1>1, <1>4 DEF Links, LinkOf, Hungup
<1>6. /\ mesh'[n].next_msg_id = mesh[n].next_msg_id + 1
      /\ mesh'[n].pending_req_id = mesh[n].pending_req_id
      /\ mesh'[n].pending_arrived = mesh[n].pending_arrived
      /\ mesh'[n].pending_response = mesh[n].pending_response
      /\ mesh[n].next_msg_id \in Nat
  BY <1>1, MeshAssumption, SMTT(30) DEF Types, MeshRec
<1> HIDE DEF c
<1>7. Pairs'
  <2>1. \A d \in Conn, a \in Agent : Uses(a, d)' => Uses(a, d)
    BY <1>3, <1>4 DEF Uses
  <2>2. QED
    BY <2>1, PairsKept DEF Owned
<1>8. ASSUME NEW m \in Agent, NEW f \in Frames, Mine(m, f) PROVE Mine(m, f)'
  <2>1. CASE m = n
    <3>1. f.id < mesh[n].next_msg_id /\ f.id \in Nat
      BY <1>8, <2>1 DEF Mine, Frames
    <3>2. f.id < mesh'[n].next_msg_id
      BY <1>6, <3>1
    <3>3. QED
      BY <1>4, <1>6, <1>8, <2>1, <3>2 DEF Mine
  <2>2. CASE m # n
    BY <1>1, <1>4, <1>8, <2>2 DEF Mine
  <2>3. QED
    BY <2>1, <2>2
<1>9. Mine(n, t)'
  <2>1. t.id < mesh'[n].next_msg_id
    BY <1>2, <1>6
  <2>2. QED
    BY <1>2, <1>4, <2>1 DEF Mine
<1>10. RequestsOwn'
  <2> SUFFICES ASSUME NEW d \in Conn, NEW m \in Agent, NEW k \in open'[d] \ {m},
                      NEW f \in Toks(wire'[d][m]) \cap Frames, ~f.resp
               PROVE  Mine(k, f)'
    BY DEF RequestsOwn
  <2>1. k \in Agent /\ k \in open[d] \ {m}
    BY <1>4 DEF Types
  <2>2. CASE f \in Toks(wire[d][m])
    <3>1. Mine(k, f)
      BY <2>1, <2>2 DEF Owned, RequestsOwn
    <3>2. QED
      BY <1>8, <2>1, <3>1
  <2>3. CASE f = t /\ d = c /\ m # n /\ m \in open[c]
    <3>1. k = n
      BY <1>1, <1>5, <2>1, <2>3 DEF Owned, Pairs, Uses
    <3>2. QED
      BY <1>9, <2>3, <3>1
  <2>4. QED
    BY <1>3, <2>2, <2>3
<1>11. RepliesOwn'
  <2> SUFFICES ASSUME NEW d \in Conn, NEW m \in Agent,
                      NEW f \in Toks(wire'[d][m]) \cap Frames, f.resp
               PROVE  Mine(m, f)'
    BY DEF RepliesOwn
  <2>1. f \in Toks(wire[d][m])
    BY <1>2, <1>3
  <2>2. Mine(m, f)
    BY <2>1 DEF Owned, RepliesOwn
  <2>3. QED
    BY <1>8, <2>2
<1>12. PendingOwn' /\ AnswerIsOwn'
  BY <1>1, <1>4, <1>6 DEF Owned, PendingOwn, AnswerIsOwn
<1>13. QED
  BY <1>7, <1>10, <1>11, <1>12 DEF Owned

LEMMA ReadsResponseOwned ==
    ASSUME Types, Counted, Owned, Types', NEW n \in Agent, ReadsResponse(n)
    PROVE  Owned'
<1>1. /\ conn[n] \in Conn
      /\ \A m \in Agent \ {n} : mesh'[m] = mesh[m]
      /\ \/ mesh'[n] = mesh[n]
         \/ \E g \in Toks(wire[conn[n]][n]) :
               /\ g \in Frames /\ g.resp /\ g.id = mesh[n].pending_req_id
               /\ mesh'[n] = [mesh[n] EXCEPT !.pending_response = g.q, !.pending_arrived = TRUE]
      /\ \A d \in Conn, m \in Agent :
            /\ Toks(wire'[d][m]) \subseteq Toks(wire[d][m])
            /\ wire'[d][m] # <<>> => wire[d][m] # <<>>
  BY ReadsResponseTypes
<1>2. UNCHANGED <<open, question, result>>
  BY DEF ReadsResponse
<1>3. mesh[n] \in MeshRec
  BY DEF Types
<1>4. /\ mesh'[n].next_msg_id = mesh[n].next_msg_id
      /\ mesh'[n].pending_req_id = mesh[n].pending_req_id
  BY <1>1, <1>3, ZenonT(60) DEF MeshRec
<1>5. mesh'[n].pending_arrived => mesh'[n].pending_response = question[n]
  <2>1. CASE mesh'[n] = mesh[n]
    BY <2>1 DEF Owned, PendingOwn
  <2>2. ASSUME NEW g \in Toks(wire[conn[n]][n]), g \in Frames, g.resp, g.id = mesh[n].pending_req_id,
               mesh'[n] = [mesh[n] EXCEPT !.pending_response = g.q, !.pending_arrived = TRUE]
        PROVE  mesh'[n].pending_response = question[n]
    <3>1. Mine(n, g)
      BY <1>1, <2>2 DEF Owned, RepliesOwn
    <3>2. g.q = question[n]
      BY <2>2, <3>1 DEF Mine
    <3>3. QED
      BY <1>3, <2>2, <3>2 DEF MeshRec
  <2>3. QED
    BY <1>1, <2>1, <2>2
<1>6. Pairs'
  <2>1. \A d \in Conn, a \in Agent : Uses(a, d)' => Uses(a, d)
    BY <1>1, <1>2 DEF Uses
  <2>2. QED
    BY <2>1, PairsKept DEF Owned
<1>7. \A m \in Agent : \A f \in Frames : Mine(m, f) => Mine(m, f)'
  BY <1>1, <1>2, <1>4 DEF Mine
<1>8. RequestsOwn' /\ RepliesOwn'
  BY <1>1, <1>2, <1>7, FramesKept DEF Owned, Types
<1>9. PendingOwn' /\ AnswerIsOwn'
  BY <1>1, <1>2, <1>5 DEF Owned, PendingOwn, AnswerIsOwn
<1>10. QED
  BY <1>6, <1>8, <1>9 DEF Owned

(* The reply goes to the only other user of the connection, who asked. *)
LEMMA ReadsRequestOwned ==
    ASSUME Types, Counted, Owned, Types', NEW n \in Agent, ReadsRequest(n)
    PROVE  Owned'
<1> DEFINE g == Text(n)[1]
           r == Frame(TRUE, g.id, g.act, g.q, FALSE)
<1>1. /\ conn[n] \in Conn /\ n \in open[conn[n]]
      /\ g \in Frames /\ ~g.resp /\ g \in Toks(wire[conn[n]][n])
      /\ \A d \in Conn, m \in Agent :
           /\ wire'[d][m] # <<>> => wire[d][m] # <<>> \/ m \in open[d]
           /\ \A f \in Toks(wire'[d][m]) :
                \/ f \in Toks(wire[d][m])
                \/ d = conn[n] /\ m # n /\ m \in open[d] /\ f = r
  BY RequestFacts
<1>2. UNCHANGED <<mesh, open, question, result>>
  BY DEF ReadsRequest
<1>3. r.resp = TRUE /\ r.id = g.id /\ r.q = g.q
  BY DEF Frame
<1> HIDE DEF g, r
<1>4. Pairs'
  <2>1. \A d \in Conn, a \in Agent : Uses(a, d)' => Uses(a, d)
    BY <1>1, <1>2 DEF Uses
  <2>2. QED
    BY <2>1, PairsKept DEF Owned
<1>5. \A m \in Agent, f \in Frames : Mine(m, f) => Mine(m, f)'
  BY <1>2 DEF Mine
<1>6. RequestsOwn'
  <2> SUFFICES ASSUME NEW d \in Conn, NEW m \in Agent, NEW k \in open'[d] \ {m},
                      NEW f \in Toks(wire'[d][m]) \cap Frames, ~f.resp
               PROVE  Mine(k, f)'
    BY DEF RequestsOwn
  <2>1. f \in Toks(wire[d][m]) /\ k \in open[d] \ {m} /\ k \in Agent
    BY <1>1, <1>2, <1>3 DEF Types
  <2>2. Mine(k, f)
    BY <2>1 DEF Owned, RequestsOwn
  <2>3. QED
    BY <1>5, <2>1, <2>2
<1>7. RepliesOwn'
  <2> SUFFICES ASSUME NEW d \in Conn, NEW m \in Agent,
                      NEW f \in Toks(wire'[d][m]) \cap Frames, f.resp
               PROVE  Mine(m, f)'
    BY DEF RepliesOwn
  <2>1. CASE f \in Toks(wire[d][m])
    <3>1. Mine(m, f)
      BY <2>1 DEF Owned, RepliesOwn
    <3>2. QED
      BY <1>5, <3>1
  <2>2. CASE d = conn[n] /\ m # n /\ m \in open[d] /\ f = r
    <3>1. Mine(m, g)
      BY <1>1, <2>2 DEF Owned, RequestsOwn
    <3>2. Mine(m, f)
      BY <1>3, <2>2, <3>1 DEF Mine
    <3>3. QED
      BY <1>5, <3>2
  <2>3. QED
    BY <1>1, <2>1, <2>2
<1>8. PendingOwn' /\ AnswerIsOwn'
  BY <1>2 DEF Owned, PendingOwn, AnswerIsOwn
<1>9. QED
  BY <1>4, <1>6, <1>7, <1>8 DEF Owned

LEMMA DiesOwned ==
    ASSUME Types, Counted, Owned, NEW n \in Agent, Dies(n)
    PROVE  Owned'
<1>1. /\ Types' /\ mesh'[n] = InitMesh /\ result'[n] = NoText
      /\ \A m \in Agent \ {n} : mesh'[m] = mesh[m] /\ result'[m] = result[m]
      /\ \A c \in Conn : open'[c] = IF c \in ToSet(backlog[n]) THEN {} ELSE open[c] \ {n}
      /\ \A d \in Conn, m \in Agent :
           /\ Toks(wire'[d][m]) \subseteq Toks(wire[d][m])
           /\ wire'[d][m] # <<>> => wire[d][m] # <<>>
           /\ m = n => wire'[d][m] = <<>>
  BY DiesFacts
<1>2. question' = question /\ ~InitMesh.pending_arrived
  BY DEF Dies, InitMesh
<1>3. \A c \in Conn : open'[c] \subseteq open[c] /\ n \notin open'[c]
  BY <1>1
<1>4. Pairs'
  <2>1. \A d \in Conn, a \in Agent : Uses(a, d)' => Uses(a, d)
    BY <1>1, <1>3 DEF Uses
  <2>2. QED
    BY <2>1, PairsKept DEF Owned
<1>5. \A m \in Agent : \/ \A f \in Frames : Mine(m, f) => Mine(m, f)'
                       \/ \A c \in Conn : m \notin open'[c] /\ Toks(wire'[c][m]) = {}
  BY <1>1, <1>2, <1>3, NoToks DEF Mine
<1>6. RequestsOwn' /\ RepliesOwn'
  BY <1>1, <1>3, <1>5, FramesKept DEF Owned, Types
<1>7. PendingOwn' /\ AnswerIsOwn'
  BY <1>1, <1>2 DEF Owned, PendingOwn, AnswerIsOwn
<1>8. QED
  BY <1>4, <1>6, <1>7 DEF Owned

(* The steps of OwnedKept: what each leaves of the wires and the struct. *)
LEMMA PassiveOwned ==
    ASSUME Types, Counted, Owned, Types', NEW n \in Agent,
           \/ StartUnlinks(n) \/ StartBinds(n) \/ StartListens(n) \/ SendRefused(n) \/ SendNewline(n)
           \/ Joins(n) \/ Accepts(n) \/ ReadsEmptyLine(n) \/ ReplyNewline(n) \/ ServerHangsUp(n)
           \/ ClientHangsUp(n) \/ AcceptEnds(n) \/ Stops(n) \/ Restarts(n)
    PROVE  Owned'
<1>1. UNCHANGED <<question, result>>
  BY DEF StartUnlinks, StartBinds, StartListens, SendRefused, SendNewline, Joins, Accepts,
         ReadsEmptyLine, ReplyNewline, ServerHangsUp, ClientHangsUp, AcceptEnds, Stops, Restarts
<1> DEFINE Kept(m) == /\ mesh'[m].next_msg_id = mesh[m].next_msg_id
                      /\ mesh'[m].pending_req_id = mesh[m].pending_req_id
                      /\ mesh'[m].pending_arrived = mesh[m].pending_arrived
                      /\ mesh'[m].pending_response = mesh[m].pending_response
           Calm(c, m) == /\ Toks(wire'[c][m]) \cap Frames \subseteq Toks(wire[c][m])
                         /\ wire'[c][m] # <<>> => Uses(m, c)
<1>2. mesh[n] \in MeshRec
  BY DEF Types
<1>3. \A m \in Agent : Kept(m)
  <2>1. CASE StartListens(n)
    <3>1. /\ mesh'[n] = [mesh[n] EXCEPT !.is_server = TRUE, !.listen_fd = TRUE, !.running = TRUE]
          /\ \A m \in Agent \ {n} : mesh'[m] = mesh[m]
      BY <2>1 DEF StartListens, Types
    <3>2. QED
      BY <1>2, <3>1, ZenonT(60) DEF MeshRec
  <2>2. CASE Accepts(n)
    <3>1. /\ mesh'[n] = [mesh[n] EXCEPT !.peer_fd = Head(backlog[n])]
          /\ \A m \in Agent \ {n} : mesh'[m] = mesh[m]
      BY <2>2, AcceptsTypes
    <3>2. QED
      BY <1>2, <3>1 DEF MeshRec
  <2>3. CASE ServerHangsUp(n)
    <3>1. /\ \E p : mesh'[n] = [mesh[n] EXCEPT !.peer_fd = p]
          /\ \A m \in Agent \ {n} : mesh'[m] = mesh[m]
      BY <2>3, ServerHangsUpTypes, ZenonT(60)
    <3>2. QED
      BY <1>2, <3>1 DEF MeshRec
  <2>4. CASE Stops(n)
    <3>1. /\ mesh'[n] = [mesh[n] EXCEPT !.running = FALSE, !.peer_fd = NoFd, !.listen_fd = FALSE]
          /\ \A m \in Agent \ {n} : mesh'[m] = mesh[m]
      BY <2>4, StopsTypes
    <3>2. QED
      BY <1>2, <3>1, ZenonT(60) DEF MeshRec
  <2>5. CASE \/ StartUnlinks(n) \/ StartBinds(n) \/ SendRefused(n) \/ SendNewline(n) \/ Joins(n)
             \/ ReadsEmptyLine(n) \/ ReplyNewline(n) \/ ClientHangsUp(n) \/ AcceptEnds(n) \/ Restarts(n)
    <3>1. mesh' = mesh
      BY <2>5 DEF StartUnlinks, StartBinds, SendRefused, SendNewline, Joins,
                  ReadsEmptyLine, ReplyNewline, ClientHangsUp, AcceptEnds, Restarts
    <3>2. QED
      BY <3>1
  <2>6. QED
    BY <2>1, <2>2, <2>3, <2>4, <2>5
<1>4. \A c \in Conn : open'[c] \subseteq open[c]
  <2>1. CASE Accepts(n)
    BY <2>1, AcceptsTypes
  <2>2. CASE ServerHangsUp(n)
    BY <2>2, ServerHangsUpTypes
  <2>3. CASE Stops(n)
    BY <2>3, StopsTypes
  <2>4. CASE ~Accepts(n) /\ ~ServerHangsUp(n) /\ ~Stops(n)
    <3>1. open' = open
      BY <2>4 DEF StartUnlinks, StartBinds, StartListens, SendRefused, SendNewline, Joins,
                  ReadsEmptyLine, ReplyNewline, ClientHangsUp, AcceptEnds, Restarts
    <3>2. QED
      BY <3>1
  <2>5. QED
    BY <2>1, <2>2, <2>3, <2>4
<1>5. \A c \in Conn, m \in Agent : Calm(c, m)
  <2>1. ASSUME NEW d \in Conn, Put(d, n, NL) PROVE \A c \in Conn, m \in Agent : Calm(c, m)
    <3>0. NL \in Token
      BY NewTokens
    <3>1. \A c \in Conn, m \in Agent :
             /\ wire'[c][m] # <<>> => wire[c][m] # <<>> \/ m \in open[c]
             /\ \A f \in Toks(wire'[c][m]) : f \in Toks(wire[c][m]) \/ f = NL
      <4>1. \A c \in Conn, m \in Agent :
               /\ wire'[c][m] # <<>> => wire[c][m] # <<>> \/ m \in open[c]
               /\ \A f \in Toks(wire'[c][m]) :
                     f \in Toks(wire[c][m]) \/ (f = NL /\ c = d /\ m # n /\ m \in open[d])
        BY <2>1, <3>0, PutFacts
      <4>2. QED
        BY <4>1
    <3>2. QED
      BY <3>1, NewlineIsNoFrame DEF Uses
  <2>2. ASSUME \A c \in Conn, m \in Agent : /\ Toks(wire'[c][m]) \subseteq Toks(wire[c][m])
                                            /\ wire'[c][m] # <<>> => wire[c][m] # <<>>
        PROVE  \A c \in Conn, m \in Agent : Calm(c, m)
    BY <2>2 DEF Uses
  <2>3. ASSUME wire' = wire PROVE \A c \in Conn, m \in Agent : Calm(c, m)
    BY <2>3 DEF Uses
  <2> HIDE DEF Calm
  <2>4. CASE SendNewline(n)
    <3>1. mesh[n].peer_fd \in Conn /\ Put(mesh[n].peer_fd, n, NL)
      BY <2>4, DescriptorFacts DEF SendNewline, Counted
    <3>2. QED
      BY <2>1, <3>1
  <2>5. CASE ReplyNewline(n)
    BY <2>1, <2>3, <2>5, ReplyTypes
  <2>6. CASE Joins(n) \/ ServerHangsUp(n)
    BY <2>2, <2>6, JoinsTypes, ServerHangsUpTypes
  <2>7. CASE ReadsEmptyLine(n)
    <3>1. listener[n] = "serve" /\ wire' = Rest(n)
      BY <2>7 DEF ReadsEmptyLine, Reading
    <3>2. QED
      BY <2>2, <3>1, RestFacts
  <2>8. CASE \/ StartUnlinks(n) \/ StartBinds(n) \/ StartListens(n) \/ SendRefused(n)
             \/ Accepts(n) \/ ClientHangsUp(n) \/ AcceptEnds(n) \/ Stops(n) \/ Restarts(n)
    <3>1. wire' = wire
      BY <2>8 DEF StartUnlinks, StartBinds, StartListens, SendRefused,
                  Accepts, ClientHangsUp, AcceptEnds, Stops, Restarts
    <3>2. QED
      BY <2>3, <3>1
  <2>9. QED
    BY <2>4, <2>5, <2>6, <2>7, <2>8
<1>6. QED
  BY <1>1, <1>3, <1>4, <1>5, OwnedKept

LEMMA OwnedStep == Types /\ Counted /\ Links /\ Owned /\ [Next]_vars => Owned'
<1> SUFFICES ASSUME Types, Counted, Links, Owned, [Next]_vars PROVE Owned'
  OBVIOUS
<1>0. Types'
  BY TypesStep
<1>1. CASE UNCHANGED vars
  BY <1>0, <1>1, OwnedKept DEF vars, Uses
<1>2. ASSUME NEW n \in Agent,
             \/ Main(n) \/ Listens(n) \/ Reconnects(n) \/ Arms(n) \/ Stops(n)
             \/ BrokenPipe(n) \/ Crash(n) \/ Restarts(n)
      PROVE  Owned'
  <2>1. CASE StartAsClient(n) \/ Reconnects(n)
    BY <1>0, <2>1, JoiningOwned
  <2>2. CASE Arms(n) \/ SendFrame(n) \/ WaitEnds(n)
    BY <1>0, <2>2, ArmsOwned, SendFrameOwned, WaitOwned
  <2>3. CASE ReadsResponse(n) \/ ReadsRequest(n)
    BY <1>0, <2>3, ReadsResponseOwned, ReadsRequestOwned
  <2>4. CASE BrokenPipe(n) \/ Crash(n)
    BY <2>4, DiesOwned DEF BrokenPipe, Crash
  <2>5. CASE \/ StartUnlinks(n) \/ StartBinds(n) \/ StartListens(n) \/ SendRefused(n) \/ SendNewline(n)
             \/ Joins(n) \/ Accepts(n) \/ ReadsEmptyLine(n) \/ ReplyNewline(n) \/ ServerHangsUp(n)
             \/ ClientHangsUp(n) \/ AcceptEnds(n) \/ Stops(n) \/ Restarts(n)
    BY <1>0, <2>5, PassiveOwned
  <2>6. QED
    BY <1>2, <2>1, <2>2, <2>3, <2>4, <2>5 DEF Main, Listens
<1>3. QED
  BY <1>1, <1>2 DEF Next

(* What agent_mesh_consult returns is nothing or the answer to the question *)
(* of that call, for any number of agents: not an answer that comes after   *)
(* its timeout, not one to a process that died and began its ids anew, and  *)
(* not one that belongs to whoever used the descriptor before.              *)
THEOREM AnswersAreOwn == Spec => []AnswerIsOwn
<1>1. Init => Types /\ Counted /\ Links /\ Owned
  BY MeshInitially, LinksInitially, OwnedInitially
<1>2. (Types /\ Counted /\ Links /\ Owned) /\ [Next]_vars => (Types /\ Counted /\ Links /\ Owned)'
  BY TypesStep, LinksStep, OwnedStep
<1>3. Types /\ Counted /\ Links /\ Owned => AnswerIsOwn
  BY DEF Owned
<1>4. QED
  BY <1>1, <1>2, <1>3, PTL DEF Spec

=============================================================================
