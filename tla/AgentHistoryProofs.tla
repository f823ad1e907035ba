--------------------------- MODULE AgentHistoryProofs ---------------------------
(***************************************************************************)
(* The conversation stays well formed, for any limits, any number of turns *)
(* and any number of tool calls in an answer.                              *)
(***************************************************************************)
EXTENDS AgentHistory, SequenceTheorems, WellFoundedInduction, TLAPS

(* A non-empty set of naturals has a least element. *)
LEMMA LeastNatural ==
    ASSUME NEW S \in SUBSET Nat, S # {}
    PROVE  \E x \in S : \A y \in S : x <= y
<1> DEFINE R == OpToRel(<, Nat)
<1>1. \A x, y \in Nat : <<x, y>> \in R <=> x < y
  BY DEF OpToRel
<1>2. IsWellFoundedOn(R, Nat)
  BY NatLessThanWellFounded
<1> HIDE DEF R
<1>3. PICK x \in S : \A y \in S : <<y, x>> \notin R
  BY <1>2, WFMin
<1>4. \A y \in S : ~(y < x)
  BY <1>1, <1>3, Zenon
<1>5. QED
  BY <1>4


Kind    == {"system", "user", "assistant", "error", "summary", "tool"}
Message == [kind : Kind, uid : Nat, n : Nat]

LEMMA HistoryDef == History = Seq(Message)
  BY DEF History, Message, Kind

LEMMA MsgType == \A k \in Kind, u \in Nat, n \in Nat : Msg(k, u, n) \in Message
  BY DEF Msg, Message

LEMMA SystemType == /\ System \in Message /\ Summary \in Message
                    /\ System.kind = "system" /\ System.n = 0
                    /\ Summary.kind = "summary" /\ Summary.n = 0
  BY DEF System, Summary, Msg, Message, Kind

(* What is true of every history the program holds.  Grounded alone is not *)
(* inductive: a window that begins between a call and its result must not  *)
(* begin on another message, so the results of an answer stand together,   *)
(* and behind two messages at least.  U are the unrecorded answers.        *)
Behind(a, m) == a.kind = "assistant" /\ a.uid = m.uid /\ a.n >= m.n

Linked(h, U) ==
    \A i \in 1 .. Len(h) : h[i].kind = "tool" =>
        /\ h[i].n \in 1 .. i - 2
        /\ h[i].uid \notin U => Behind(h[i - h[i].n], h[i])
        /\ \A k \in 1 .. h[i].n : h[i - h[i].n + k] = Msg("tool", h[i].uid, k)

WellFormed(h, U) ==
    /\ h \in Seq(Message)
    /\ Len(h) > 0 => h[1].kind = "system"
    /\ \A i \in 1 .. Len(h) : h[i].n <= MaxCalls
    /\ Linked(h, U)

LEMMA LinkedIsGrounded == \A h : WellFormed(h, unrecorded) => Grounded(h)
<1> SUFFICES ASSUME NEW h, WellFormed(h, unrecorded), NEW i \in DOMAIN h, h[i].kind = "tool"
             PROVE  /\ i > h[i].n
                    /\ h[i].uid \notin unrecorded => Behind(h[i - h[i].n], h[i])
                    /\ \A k \in 1 .. h[i].n : h[i - h[i].n + k] = Msg("tool", h[i].uid, k)
  BY DEF Grounded, Behind
<1>1. i \in 1 .. Len(h)
  BY LenProperties DEF WellFormed
<1>2. h[i].n \in 1 .. i - 2
  BY <1>1 DEF WellFormed, Linked
<1>3. QED
  BY <1>1, <1>2 DEF WellFormed, Linked

-----------------------------------------------------------------------------
(* Compaction. *)

LEMMA WindowStartsOnACall ==
    ASSUME NEW h \in Seq(Message), NEW i \in 1 .. Len(h) + 1
    PROVE  /\ WindowStart(h, i) \in i .. Len(h) + 1
           /\ \A x \in i .. WindowStart(h, i) - 1 : h[x].kind = "tool"
           /\ WindowStart(h, i) > Len(h) \/ h[WindowStart(h, i)].kind # "tool"
<1> DEFINE S == {j \in i .. Len(h) + 1 : j > Len(h) \/ h[j].kind # "tool"}
<1>1. Len(h) \in Nat
  BY LenProperties
<1>2. S \in SUBSET Nat /\ Len(h) + 1 \in S
  BY <1>1
<1>3. PICK j \in S : \A y \in S : j <= y
  <2> HIDE DEF S
  <2> QED
    BY <1>2, LeastNatural
<1>4. \A x \in i .. j - 1 : h[x].kind = "tool"
  BY <1>1, <1>3
<1>5. \E w \in i .. Len(h) + 1 : /\ \A x \in i .. w - 1 : h[x].kind = "tool"
                                 /\ w > Len(h) \/ h[w].kind # "tool"
  BY <1>3, <1>4
<1>6. QED
  BY <1>5 DEF WindowStart

(* A history made of p messages, none of them a tool result, and the part  *)
(* of a well-formed one from a message on that is not a tool result.       *)
Window(r, h, p, w) ==
    /\ p \in Nat \ {0} /\ w \in 1 .. Len(h) + 1
    /\ r \in Seq(Message) /\ Len(r) = p + Len(h) - w + 1
    /\ r[1].kind = "system"
    /\ \A i \in 1 .. p : r[i].kind # "tool" /\ r[i].n <= MaxCalls
    /\ \A i \in p + 1 .. Len(r) : r[i] = h[w + i - p - 1]
    /\ w > Len(h) \/ h[w].kind # "tool"

LEMMA WindowIsWellFormed ==
    ASSUME NEW U, NEW h, NEW r, NEW p, NEW w, WellFormed(h, U), Window(r, h, p, w)
    PROVE  WellFormed(r, U)
<1>1. Len(h) \in Nat /\ Len(r) \in Nat /\ p \in Nat /\ w \in Nat
  BY LenProperties DEF WellFormed, Window
<1>2. \A i \in 1 .. Len(r) : r[i].n <= MaxCalls
  <2> SUFFICES ASSUME NEW i \in 1 .. Len(r)
               PROVE  r[i].n <= MaxCalls
    OBVIOUS
  <2>1. CASE i <= p
    BY <2>1, <1>1 DEF Window
  <2>2. CASE i > p
    <3>1. w + i - p - 1 \in 1 .. Len(h) /\ r[i] = h[w + i - p - 1]
      BY <2>2, <1>1 DEF Window
    <3>2. QED
      BY <3>1 DEF WellFormed
  <2>3. QED
    BY <2>1, <2>2, <1>1
<1>3. ASSUME NEW i \in 1 .. Len(r), r[i].kind = "tool"
      PROVE  /\ r[i].n \in 1 .. i - 2
             /\ r[i].uid \notin U => Behind(r[i - r[i].n], r[i])
             /\ \A k \in 1 .. r[i].n : r[i - r[i].n + k] = Msg("tool", r[i].uid, k)
  <2> DEFINE j == w + i - p - 1
             n == r[i].n
  <2>1. i > p
    BY <1>1, <1>3 DEF Window
  <2>w. w \in 1 .. Len(h) + 1 /\ Len(r) = p + Len(h) - w + 1
    BY DEF Window
  <2>x. i \in p + 1 .. Len(r) /\ j \in 1 .. Len(h)
    BY <1>1, <2>1, <2>w
  <2>2. j \in 1 .. Len(h) /\ r[i] = h[j]
    BY <2>x DEF Window
  <2>3. /\ n \in 1 .. j - 2
        /\ r[i].uid \notin U => Behind(h[j - n], r[i])
        /\ \A k \in 1 .. n : h[j - n + k] = Msg("tool", r[i].uid, k)
    BY <1>3, <2>2 DEF WellFormed, Linked
  <2>n. n = r[i].n
    OBVIOUS
  <2>a. j = w + i - p - 1 /\ Len(r) = p + Len(h) - w + 1 /\ i \in Nat
    BY <1>1 DEF Window
  <2>b. n \in Nat /\ j \in Nat /\ n >= 1 /\ n < j /\ j <= Len(h)
    BY <1>1, <2>2, <2>3, SMTT(30)
  <2> HIDE DEF j, n
  <2>4. j - n >= w
    <3> SUFFICES ASSUME j - n < w
                 PROVE  FALSE
      BY <1>1, <2>b
    <3>1. w - (j - n) \in 1 .. n /\ w <= Len(h)
      BY <1>1, <2>1, <2>a, <2>b
    <3>2. h[j - n + (w - (j - n))] = Msg("tool", r[i].uid, w - (j - n))
      BY <2>3, <3>1
    <3>3. j - n + (w - (j - n)) = w
      BY <1>1, <2>b
    <3>4. h[w].kind = "tool"
      BY <3>2, <3>3 DEF Msg
    <3>5. QED
      BY <1>1, <3>1, <3>4 DEF Window
  <2>5. \A k \in 0 .. n : i - n + k \in p + 1 .. Len(r) /\ w + (i - n + k) - p - 1 = j - n + k
    BY <1>1, <2>1, <2>4, <2>a, <2>b
  <2>6. \A k \in 0 .. n : r[i - n + k] = h[j - n + k]
    BY <2>5 DEF Window
  <2>7. r[i - n] = h[j - n]
    <3>1. 0 \in 0 .. n /\ i - n + 0 = i - n /\ j - n + 0 = j - n
      BY <2>a, <2>b
    <3>2. QED
      BY <3>1, <2>6
  <2>c. p >= 1
    BY <1>1 DEF Window
  <2>8. n \in 1 .. i - 2
    BY <1>1, <2>4, <2>a, <2>b, <2>c
  <2>9. \A k \in 1 .. n : r[i - n + k] = Msg("tool", r[i].uid, k)
    BY <2>3, <2>6
  <2>10. QED
    BY <2>3, <2>7, <2>8, <2>9, <2>n
<1>4. Linked(r, U)
  BY <1>3 DEF Linked
<1>5. QED
  BY <1>2, <1>4 DEF WellFormed, Window

LEMMA SecondIsNoResult ==
    ASSUME NEW U, NEW h, WellFormed(h, U), Len(h) >= 2
    PROVE  h[1].kind # "tool" /\ h[2].kind # "tool"
<1>1. Len(h) \in Nat /\ 1 \in 1 .. Len(h) /\ 2 \in 1 .. Len(h)
  BY LenProperties DEF WellFormed
<1>2. h[1].kind = "system"
  BY <1>1 DEF WellFormed
<1>3. ASSUME h[2].kind = "tool"
      PROVE  FALSE
  <2>1. h[2].n \in 1 .. 2 - 2
    BY <1>1, <1>3 DEF WellFormed, Linked
  <2>2. QED
    BY <2>1
<1>4. QED
  BY <1>2, <1>3

(* The part of a history behind a position, behind other messages. *)
LEMMA ConcatWindow ==
    ASSUME NEW h \in Seq(Message), NEW q \in Seq(Message), NEW w \in 1 .. Len(h) + 1
    PROVE  /\ q \o SubSeq(h, w, Len(h)) \in Seq(Message)
           /\ Len(q \o SubSeq(h, w, Len(h))) = Len(q) + Len(h) - w + 1
           /\ \A i \in 1 .. Len(q) : (q \o SubSeq(h, w, Len(h)))[i] = q[i]
           /\ \A i \in Len(q) + 1 .. Len(q) + Len(h) - w + 1 :
                  (q \o SubSeq(h, w, Len(h)))[i] = h[w + i - Len(q) - 1]
<1> DEFINE u == SubSeq(h, w, Len(h))
           r == q \o u
<1>1. Len(h) \in Nat /\ Len(q) \in Nat /\ w \in Nat /\ w <= Len(h) + 1 /\ w >= 1
  BY LenProperties
<1>2. \A i \in w .. Len(h) : h[i] \in Message
  BY <1>1, ElementOfSeq
<1>3. /\ u \in Seq(Message)
      /\ Len(u) = IF w <= Len(h) THEN Len(h) - w + 1 ELSE 0
      /\ \A i \in 1 .. Len(h) - w + 1 : u[i] = h[w + i - 1]
  BY <1>1, <1>2, SubSeqProperties
<1>4. Len(u) = Len(h) - w + 1
  BY <1>1, <1>3
<1> HIDE DEF u
<1>5. /\ r \in Seq(Message) /\ Len(r) = Len(q) + Len(u)
      /\ \A i \in 1 .. Len(q) + Len(u) : r[i] = IF i <= Len(q) THEN q[i] ELSE u[i - Len(q)]
  BY <1>3, ConcatProperties
<1> HIDE DEF r
<1>6. \A i \in 1 .. Len(q) : r[i] = q[i]
  BY <1>1, <1>4, <1>5, SMTT(30)
<1>7. ASSUME NEW i \in Len(q) + 1 .. Len(q) + Len(h) - w + 1
      PROVE  r[i] = h[w + i - Len(q) - 1]
  <2>1. i - Len(q) \in 1 .. Len(h) - w + 1 /\ w + (i - Len(q)) - 1 = w + i - Len(q) - 1
    BY <1>1
  <2>a. i \in 1 .. Len(q) + Len(u) /\ ~(i <= Len(q))
    BY <1>1, <1>4
  <2>2. r[i] = u[i - Len(q)]
    BY <1>5, <2>a
  <2>3. QED
    BY <1>3, <2>1, <2>2
<1>8. Len(q) + Len(u) = Len(q) + Len(h) - w + 1
  BY <1>1, <1>4
<1>9. QED
  BY <1>5, <1>6, <1>7, <1>8 DEF r, u

(* What the middle-out compaction makes of a longer history. *)
LEMMA MiddleOutWindow ==
    ASSUME NEW U, NEW h, NEW keep \in Nat \ {0}, WellFormed(h, U), Len(h) > 2 + keep
    PROVE  LET r == middle_out(h, keep)
               w == WindowStart(h, Len(h) - keep + 1) IN
           /\ Window(r, h, 3, w)
           /\ w >= Len(h) - keep + 1
           /\ \A x \in Len(h) - keep + 1 .. w - 1 : h[x].kind = "tool"
           /\ r[1] = h[1] /\ r[2] = h[2] /\ r[3] = Summary
<1> DEFINE w == WindowStart(h, Len(h) - keep + 1)
           q == <<h[1], h[2], Summary>>
           r == middle_out(h, keep)
<1>1. h \in Seq(Message) /\ Len(h) \in Nat /\ MaxCalls \in Nat
  BY LenProperties, HistoryAssumption DEF WellFormed
<1>2. Len(h) - keep + 1 \in 1 .. Len(h) + 1 /\ 1 \in 1 .. Len(h) /\ 2 \in 1 .. Len(h)
  BY <1>1
<1>3. /\ w \in Len(h) - keep + 1 .. Len(h) + 1
      /\ \A x \in Len(h) - keep + 1 .. w - 1 : h[x].kind = "tool"
      /\ w > Len(h) \/ h[w].kind # "tool"
  BY <1>1, <1>2, WindowStartsOnACall
<1>4. h[1] \in Message /\ h[2] \in Message /\ Summary \in Message
  BY <1>1, <1>2, ElementOfSeq, SystemType
<1>5. q \in Seq(Message) /\ Len(q) = 3 /\ q[1] = h[1] /\ q[2] = h[2] /\ q[3] = Summary
  BY <1>4
<1>a. ~(Len(h) <= 2 + keep)
  BY <1>1
<1>6. r = q \o SubSeq(h, w, Len(h))
  BY <1>a, Zenon DEF middle_out
<1>7. w \in 1 .. Len(h) + 1 /\ w >= Len(h) - keep + 1
  BY <1>1, <1>2, <1>3
<1> HIDE DEF w, q, r
<1>b. /\ r \in Seq(Message) /\ Len(r) = Len(q) + Len(h) - w + 1
      /\ \A i \in 1 .. Len(q) : r[i] = q[i]
      /\ \A i \in Len(q) + 1 .. Len(q) + Len(h) - w + 1 : r[i] = h[w + i - Len(q) - 1]
  BY <1>1, <1>5, <1>6, <1>7, ConcatWindow, ZenonT(60)
<1>8. /\ r \in Seq(Message) /\ Len(r) = 3 + Len(h) - w + 1
      /\ \A i \in 1 .. 3 : r[i] = q[i]
      /\ \A i \in 3 + 1 .. 3 + Len(h) - w + 1 : r[i] = h[w + i - 3 - 1]
  BY <1>5, <1>b
<1>9. r[1] = h[1] /\ r[2] = h[2] /\ r[3] = Summary
  BY <1>5, <1>8
<1>10. /\ h[1].kind = "system" /\ h[1].n <= MaxCalls
       /\ h[2].kind # "tool" /\ h[2].n <= MaxCalls
       /\ Summary.kind # "tool" /\ Summary.n <= MaxCalls
  BY <1>1, <1>2, SecondIsNoResult, SystemType DEF WellFormed
<1>11. \A i \in 1 .. 3 : r[i].kind # "tool" /\ r[i].n <= MaxCalls
  <2>1. \A i \in 1 .. 3 : i = 1 \/ i = 2 \/ i = 3
    OBVIOUS
  <2>2. QED
    BY <2>1, <1>9, <1>10
<1>c. Len(r) = 3 + Len(h) - w + 1 /\ 3 \in Nat \ {0} /\ r[1].kind = "system"
      /\ \A i \in 3 + 1 .. Len(r) : r[i] = h[w + i - 3 - 1]
  BY <1>8, <1>9, <1>10
<1>12. Window(r, h, 3, w)
  BY <1>3, <1>7, <1>8, <1>c, <1>11, Zenon DEF Window
<1>13. QED
  BY <1>3, <1>7, <1>9, <1>12 DEF r, w

LEMMA CompactWindow ==
    ASSUME NEW U, NEW h, NEW keep \in Nat \ {0}, WellFormed(h, U), Len(h) > 1 + keep
    PROVE  Window(compact_history(h, keep), h, 1, WindowStart(h, Len(h) - keep + 1))
<1> DEFINE w == WindowStart(h, Len(h) - keep + 1)
           q == <<h[1]>>
           r == compact_history(h, keep)
<1>1. h \in Seq(Message) /\ Len(h) \in Nat
  BY LenProperties DEF WellFormed
<1>2. Len(h) - keep + 1 \in 1 .. Len(h) + 1 /\ 1 \in 1 .. Len(h)
  BY <1>1
<1>3. w \in Len(h) - keep + 1 .. Len(h) + 1 /\ (w > Len(h) \/ h[w].kind # "tool")
  BY <1>1, <1>2, WindowStartsOnACall
<1>4. h[1] \in Message
  BY <1>1, <1>2, ElementOfSeq
<1>5. q \in Seq(Message) /\ Len(q) = 1 /\ q[1] = h[1]
  BY <1>4
<1>a. ~(Len(h) <= 1 + keep)
  BY <1>1
<1>6. r = q \o SubSeq(h, w, Len(h))
  BY <1>a, Zenon DEF compact_history
<1>7. w \in 1 .. Len(h) + 1
  BY <1>1, <1>2, <1>3
<1> HIDE DEF w, q, r
<1>b. /\ r \in Seq(Message) /\ Len(r) = Len(q) + Len(h) - w + 1
      /\ \A i \in 1 .. Len(q) : r[i] = q[i]
      /\ \A i \in Len(q) + 1 .. Len(q) + Len(h) - w + 1 : r[i] = h[w + i - Len(q) - 1]
  BY <1>1, <1>5, <1>6, <1>7, ConcatWindow, ZenonT(60)
<1>8. /\ r \in Seq(Message) /\ Len(r) = 1 + Len(h) - w + 1
      /\ \A i \in 1 .. 1 : r[i] = q[i]
      /\ \A i \in 1 + 1 .. 1 + Len(h) - w + 1 : r[i] = h[w + i - 1 - 1]
  BY <1>5, <1>b
<1>9. r[1].kind = "system" /\ r[1].n <= MaxCalls
  BY <1>2, <1>5, <1>8 DEF WellFormed
<1>10. \A i \in 1 .. 1 : r[i].kind # "tool" /\ r[i].n <= MaxCalls
  <2>1. \A i \in 1 .. 1 : i = 1
    OBVIOUS
  <2>2. QED
    BY <2>1, <1>9
<1>11. Window(r, h, 1, w)
  BY <1>3, <1>7, <1>8, <1>9, <1>10 DEF Window
<1>12. QED
  BY <1>11 DEF r, w

(* Both compactions, any cut and any new message that is not a result keep *)
(* a history well formed.                                                  *)
LEMMA MiddleOutKeeps ==
    ASSUME NEW U, NEW h, NEW keep \in Nat \ {0}, WellFormed(h, U)
    PROVE  WellFormed(middle_out(h, keep), U)
<1>1. Len(h) \in Nat
  BY LenProperties DEF WellFormed
<1>2. CASE Len(h) <= 2 + keep
  BY <1>2 DEF middle_out
<1>3. CASE Len(h) > 2 + keep
  BY <1>3, MiddleOutWindow, WindowIsWellFormed
<1>4. QED
  BY <1>1, <1>2, <1>3

LEMMA CompactKeeps ==
    ASSUME NEW U, NEW h, NEW keep \in Nat \ {0}, WellFormed(h, U)
    PROVE  WellFormed(compact_history(h, keep), U)
<1>1. Len(h) \in Nat
  BY LenProperties DEF WellFormed
<1>2. CASE Len(h) <= 1 + keep
  BY <1>2 DEF compact_history
<1>3. CASE Len(h) > 1 + keep
  BY <1>3, CompactWindow, WindowIsWellFormed
<1>4. QED
  BY <1>1, <1>2, <1>3

LEMMA PrefixKeeps ==
    ASSUME NEW U, NEW h, WellFormed(h, U), NEW c \in 1 .. Len(h)
    PROVE  WellFormed(SubSeq(h, 1, c), U) /\ Len(SubSeq(h, 1, c)) = c
<1> DEFINE r == SubSeq(h, 1, c)
<1>1. h \in Seq(Message) /\ Len(h) \in Nat /\ c \in Nat /\ 1 <= c /\ c <= Len(h)
  BY LenProperties DEF WellFormed
<1>2. \A i \in 1 .. c : h[i] \in Message
  BY <1>1, ElementOfSeq
<1>3. /\ r \in Seq(Message) /\ Len(r) = c
      /\ \A i \in 1 .. c - 1 + 1 : r[i] = h[1 + i - 1]
  BY <1>1, <1>2, SubSeqProperties
<1> HIDE DEF r
<1>4. \A i \in 1 .. c : r[i] = h[i]
  <2>1. c - 1 + 1 = c /\ \A i \in 1 .. c : 1 + i - 1 = i
    BY <1>1
  <2>2. QED
    BY <2>1, <1>3
<1>5. \A i \in 1 .. c : i \in 1 .. Len(h)
  BY <1>1
<1>6. \A i \in 1 .. c : r[i].n <= MaxCalls
  BY <1>4, <1>5 DEF WellFormed
<1>7. r[1].kind = "system"
  BY <1>1, <1>4 DEF WellFormed
<1>8. ASSUME NEW i \in 1 .. c, r[i].kind = "tool"
      PROVE  /\ r[i].n \in 1 .. i - 2
             /\ r[i].uid \notin U => Behind(r[i - r[i].n], r[i])
             /\ \A k \in 1 .. r[i].n : r[i - r[i].n + k] = Msg("tool", r[i].uid, k)
  <2> DEFINE n == h[i].n
  <2>1. r[i] = h[i] /\ h[i].kind = "tool" /\ i \in 1 .. Len(h)
    BY <1>4, <1>5, <1>8
  <2>2. /\ n \in 1 .. i - 2
        /\ h[i].uid \notin U => Behind(h[i - n], h[i])
        /\ \A k \in 1 .. n : h[i - n + k] = Msg("tool", h[i].uid, k)
    BY <2>1 DEF WellFormed, Linked
  <2>3. n = r[i].n
    BY <2>1
  <2> HIDE DEF n
  <2>4. i - n \in 1 .. c /\ \A k \in 1 .. n : i - n + k \in 1 .. c
    BY <1>1, <2>2, SMTT(30)
  <2>5. r[i - n] = h[i - n] /\ \A k \in 1 .. n : r[i - n + k] = h[i - n + k]
    BY <1>4, <2>4
  <2>6. QED
    BY <2>1, <2>2, <2>3, <2>5
<1>9. QED
  BY <1>3, <1>6, <1>7, <1>8 DEF WellFormed, Linked, r

LEMMA AppendKeeps ==
    ASSUME NEW U, NEW h, WellFormed(h, U), h # <<>>, NEW m \in Message, m.n <= MaxCalls,
           m.kind = "tool" =>
              /\ m.n \in 1 .. Len(h) - 1
              /\ m.uid \notin U => Behind(h[Len(h) + 1 - m.n], m)
              /\ m = Msg("tool", m.uid, m.n)
              /\ \A k \in 1 .. m.n - 1 : h[Len(h) + 1 - m.n + k] = Msg("tool", m.uid, k)
    PROVE  WellFormed(Append(h, m), U) /\ Append(h, m) # <<>>
<1> DEFINE r == Append(h, m)
           L == Len(h)
<1>1. h \in Seq(Message) /\ L \in Nat /\ L > 0
  BY LenProperties, EmptySeq DEF WellFormed
<1>2. /\ r \in Seq(Message) /\ r # <<>> /\ Len(r) = L + 1
      /\ \A i \in 1 .. L : r[i] = h[i]
      /\ r[L + 1] = m
  BY <1>1, AppendProperties
<1> HIDE DEF r, L
<1>3. \A i \in 1 .. L + 1 : i \in 1 .. L \/ i = L + 1
  BY <1>1
<1>4. \A i \in 1 .. L + 1 : r[i].n <= MaxCalls
  BY <1>2, <1>3 DEF WellFormed, L
<1>5. r[1].kind = "system"
  BY <1>1, <1>2 DEF WellFormed, L
<1>6. ASSUME NEW i \in 1 .. L + 1, r[i].kind = "tool"
      PROVE  /\ r[i].n \in 1 .. i - 2
             /\ r[i].uid \notin U => Behind(r[i - r[i].n], r[i])
             /\ \A k \in 1 .. r[i].n : r[i - r[i].n + k] = Msg("tool", r[i].uid, k)
  <2> DEFINE n == r[i].n
  <2>1. CASE i \in 1 .. L
    <3>1. r[i] = h[i] /\ h[i].kind = "tool"
      BY <1>2, <1>6, <2>1
    <3>2. /\ n \in 1 .. i - 2
          /\ h[i].uid \notin U => Behind(h[i - n], h[i])
          /\ \A k \in 1 .. n : h[i - n + k] = Msg("tool", h[i].uid, k)
      BY <2>1, <3>1 DEF WellFormed, Linked, L
    <3>3. n = r[i].n
      OBVIOUS
    <3> HIDE DEF n
    <3>4. i - n \in 1 .. L /\ \A k \in 1 .. n : i - n + k \in 1 .. L
      BY <1>1, <2>1, <3>2
    <3>5. r[i - n] = h[i - n] /\ \A k \in 1 .. n : r[i - n + k] = h[i - n + k]
      BY <1>2, <3>4
    <3>6. QED
      BY <3>1, <3>2, <3>3, <3>5
  <2>2. CASE i = L + 1
    <3>1. r[i] = m /\ m.kind = "tool" /\ n = m.n
      BY <1>2, <1>6, <2>2
    <3>2. /\ n \in 1 .. L - 1
          /\ m.uid \notin U => Behind(h[L + 1 - n], m)
          /\ m = Msg("tool", m.uid, n)
          /\ \A k \in 1 .. n - 1 : h[L + 1 - n + k] = Msg("tool", m.uid, k)
      BY <3>1 DEF L
    <3>3. n = r[i].n
      OBVIOUS
    <3> HIDE DEF n
    <3>a. n \in Nat /\ n >= 1 /\ n <= L - 1
      BY <1>1, <3>2
    <3>4. L + 1 - n \in 1 .. L /\ \A k \in 1 .. n - 1 : L + 1 - n + k \in 1 .. L
      BY <1>1, <3>a
    <3>5. r[L + 1 - n] = h[L + 1 - n] /\ \A k \in 1 .. n - 1 : r[L + 1 - n + k] = h[L + 1 - n + k]
      BY <1>2, <3>4
    <3>6. r[L + 1 - n + n] = m
      <4>1. L + 1 - n + n = L + 1
        BY <1>1, <3>a
      <4>2. QED
        BY <1>2, <4>1
    <3>7. \A k \in 1 .. n : k \in 1 .. n - 1 \/ k = n
      BY <3>a
    <3>8. \A k \in 1 .. n : r[L + 1 - n + k] = Msg("tool", m.uid, k)
      BY <3>2, <3>5, <3>6, <3>7
    <3>9. n \in 1 .. L + 1 - 2
      BY <1>1, <3>a
    <3>b. r[i].uid = m.uid /\ r[i] = m
      BY <3>1
    <3>c. i - n = L + 1 - n /\ i - 2 = L + 1 - 2
      BY <1>1, <2>2, <3>a
    <3>10. \A k \in 1 .. n : r[i - n + k] = Msg("tool", r[i].uid, k)
      BY <3>8, <3>b, <3>c
    <3>11. /\ n \in 1 .. i - 2
           /\ r[i].uid \notin U => Behind(r[i - n], r[i])
      BY <3>2, <3>5, <3>9, <3>b, <3>c
    <3>12. QED
      BY <3>3, <3>10, <3>11
  <2>3. QED
    BY <1>3, <2>1, <2>2
<1>7. QED
  BY <1>2, <1>4, <1>5, <1>6 DEF WellFormed, Linked, r


-----------------------------------------------------------------------------
(* The invariant. *)

Formed == /\ messages # <<>> /\ WellFormed(messages, unrecorded)
          /\ sessions \in [SessionId -> Seq(Message)]
          /\ \A s \in SessionId : WellFormed(sessions[s], unrecorded)

(* The message behind which the results of the current answer stand. *)
Caller == messages[Len(messages) - answered]

(* While tools run, the results that are there already stand together, and *)
(* behind the answer that called them if it was recorded; more is called.  *)
Calling == /\ pc # "idle" => Len(messages) >= 2
           /\ \A u \in unrecorded : u < fresh
           /\ pc # "tools" => answered = 0
           /\ pc = "tools" =>
                /\ answered + 2 <= Len(messages)
                /\ answered < resp.n /\ resp.n <= MaxCalls
                /\ resp.uid \notin unrecorded =>
                     Caller.kind = "assistant" /\ Caller.uid = resp.uid /\ Caller.n = resp.n
                /\ \A k \in 1 .. answered :
                     messages[Len(messages) - answered + k] = Msg("tool", resp.uid, k)

HistoryIInv == TypeOK /\ Formed /\ Calling

LEMMA FirstHistory ==
    ASSUME NEW U
    PROVE  <<System>> # <<>> /\ WellFormed(<<System>>, U) /\ WellFormed(<<>>, U)
<1>1. <<System>> \in Seq(Message) /\ Len(<<System>>) = 1 /\ <<System>>[1] = System
  BY SystemType
<1>2. \A i \in 1 .. 1 : i = 1
  OBVIOUS
<1>3. WellFormed(<<System>>, U)
  BY <1>1, <1>2, SystemType, HistoryAssumption DEF WellFormed, Linked
<1>4. WellFormed(<<>>, U)
  BY EmptySeq DEF WellFormed, Linked
<1>5. QED
  BY <1>1, <1>3, <1>4

LEMMA HistoryInitially == Init => HistoryIInv
<1> SUFFICES ASSUME Init PROVE HistoryIInv
  OBVIOUS
<1>1. Formed
  <2>1. <<>> \in Seq(Message)
    OBVIOUS
  <2>2. QED
    BY <2>1, FirstHistory DEF Init, Formed
<1>2. Calling
  BY DEF Init, Calling
<1>3. <<System>> \in History /\ <<>> \in History
  BY SystemType, HistoryDef
<1>4. TypeOK
  BY <1>3, FirstHistory, HistoryAssumption DEF Init, TypeOK, TokenLevel, NoCalls
<1>5. QED
  BY <1>1, <1>2, <1>4 DEF HistoryIInv

LEMMA NewMessage ==
    ASSUME Formed, NEW k \in Kind \ {"tool"}, NEW u \in Nat, NEW n \in 0 .. MaxCalls
    PROVE  /\ WellFormed(Append(messages, Msg(k, u, n)), unrecorded)
           /\ Append(messages, Msg(k, u, n)) # <<>>
<1>1. Msg(k, u, n) \in Message /\ Msg(k, u, n).kind # "tool" /\ Msg(k, u, n).n = n
  <2>1. n \in Nat
    BY HistoryAssumption
  <2>2. QED
    BY <2>1 DEF Msg, Message
<1>2. n <= MaxCalls
  BY HistoryAssumption
<1>3. QED
  BY <1>1, <1>2, AppendKeeps DEF Formed

(* Where a turn goes on or ends, the session it saves is the history. *)
LEMMA TurnGoesOn ==
    ASSUME TypeOK, Formed, WellFormed(messages', unrecorded), GoOn \/ EndTurn
    PROVE  /\ sessions' \in [SessionId -> Seq(Message)]
           /\ \A s \in SessionId : WellFormed(sessions'[s], unrecorded)
           /\ pc' \in {"force", "idle", "save"}
           /\ steps' \in 0 .. Steps[front]
<1>1. messages' \in Seq(Message)
  BY DEF WellFormed
<1>2. sessions' = sessions \/ sessions' = [sessions EXCEPT !["telegram_active"] = messages']
  BY DEF GoOn, EndTurn, save_session
<1>3. /\ sessions' \in [SessionId -> Seq(Message)]
      /\ \A s \in SessionId : WellFormed(sessions'[s], unrecorded)
  BY <1>1, <1>2 DEF Formed
<1>4. steps \in 0 .. Steps[front] /\ Steps[front] \in Nat
  BY HistoryAssumption DEF TypeOK
<1>5. steps' = 0 \/ steps' = steps \/ (steps > 0 /\ steps' = steps - 1)
  BY <1>4 DEF GoOn, EndTurn
<1>6. QED
  BY <1>3, <1>4, <1>5 DEF GoOn, EndTurn

LEMMA TextAnswerKeeps ==
    ASSUME HistoryIInv, NEW k \in {"assistant", "error", "failed"}, TextAnswer(k)
    PROVE  /\ Formed' /\ pc' \in {"force", "idle", "save"} /\ steps' \in 0 .. Steps[front]
           /\ Len(messages') >= Len(messages)
<1> DEFINE failed == k = "failed"
           heard == IF failed THEN messages ELSE Append(messages, Msg(k, fresh, 0))
<1>1. fresh \in Nat /\ fresh + 1 \in Nat /\ 0 \in 0 .. MaxCalls
  BY HistoryAssumption DEF HistoryIInv, TypeOK
<1>2. WellFormed(heard, unrecorded) /\ heard # <<>>
  BY <1>1, NewMessage DEF HistoryIInv, Formed, Kind
<1>a. heard \in Seq(Message) /\ Len(heard) >= Len(messages) /\ Len(messages) \in Nat
  <2>1. messages \in Seq(Message) /\ Len(messages) \in Nat
    BY LenProperties DEF HistoryIInv, Formed, WellFormed
  <2>2. k # "failed" => Msg(k, fresh, 0) \in Message
    BY <1>1 DEF Msg, Message, Kind
  <2>3. QED
    BY <2>1, <2>2, AppendProperties
<1>3. Msg("user", fresh + 1, 0) \in Message /\ Msg("user", fresh + 1, 0).kind = "user"
      /\ Msg("user", fresh + 1, 0).n = 0
  BY <1>1 DEF Msg, Message, Kind
<1> HIDE DEF heard
<1>4. WellFormed(Append(heard, Msg("user", fresh + 1, 0)), unrecorded)
      /\ Append(heard, Msg("user", fresh + 1, 0)) # <<>>
  BY <1>1, <1>2, <1>3, AppendKeeps
<1>5. messages' = heard \/ messages' = Append(heard, Msg("user", fresh + 1, 0))
  BY DEF TextAnswer, heard
<1>6. WellFormed(messages', unrecorded) /\ messages' # <<>>
  BY <1>2, <1>4, <1>5
<1>7. (GoOn \/ EndTurn) /\ unrecorded' = unrecorded
  BY DEF TextAnswer, respVars
<1>8. Len(messages') >= Len(messages)
  BY <1>3, <1>5, <1>a, AppendProperties, LenProperties
<1>9. QED
  BY <1>6, <1>7, <1>8, TurnGoesOn DEF HistoryIInv, Formed

LEMMA ToolResultKeeps ==
    ASSUME HistoryIInv, NEW did, ToolResult(did)
    PROVE  /\ Formed' /\ Calling'
           /\ pc' \in {"force", "idle", "save", "tools"} /\ steps' \in 0 .. Steps[front]
           /\ answered' \in 0 .. MaxCalls
<1> DEFINE L == Len(messages)
           m == Msg("tool", resp.uid, answered + 1)
           c == Caller
<1>1. /\ messages \in Seq(Message) /\ L \in Nat /\ answered \in Nat /\ MaxCalls \in Nat
      /\ messages # <<>> /\ WellFormed(messages, unrecorded) /\ pc = "tools"
      /\ resp.uid \in Nat /\ resp.n \in Nat
      /\ unrecorded' = unrecorded /\ fresh' = fresh
  BY LenProperties, HistoryAssumption DEF HistoryIInv, Formed, WellFormed, TypeOK, ToolResult
<1>2. /\ answered + 2 <= L /\ answered < resp.n /\ resp.n <= MaxCalls
      /\ resp.uid \notin unrecorded => c.kind = "assistant" /\ c.uid = resp.uid /\ c.n = resp.n
      /\ \A k \in 1 .. answered : messages[L - answered + k] = Msg("tool", resp.uid, k)
      /\ \A u \in unrecorded : u < fresh
  BY <1>1 DEF HistoryIInv, Calling
<1>3. L - answered \in 1 .. L /\ c = messages[L - answered]
  BY <1>1, <1>2 DEF Caller
<1>6. /\ m \in Message /\ m.kind = "tool" /\ m.uid = resp.uid /\ m.n = answered + 1
      /\ answered + 1 <= MaxCalls /\ answered + 1 \in 1 .. L - 1
  BY <1>1, <1>2, SMTT(30) DEF Msg, Message, Kind
<1>7. L + 1 - (answered + 1) = L - answered /\ answered + 1 - 1 = answered
  BY <1>1
<1>8. c = Caller
  OBVIOUS
<1>9. m = Msg("tool", m.uid, m.n)
  BY <1>6
<1> HIDE DEF m, c
<1>10. WellFormed(Append(messages, m), unrecorded) /\ Append(messages, m) # <<>>
  <2>1. m.n \in 1 .. L - 1 /\ (m.uid \notin unrecorded => Behind(messages[L + 1 - m.n], m))
    BY <1>1, <1>2, <1>3, <1>6, <1>7 DEF Behind
  <2>2. \A k \in 1 .. m.n - 1 : messages[L + 1 - m.n + k] = Msg("tool", m.uid, k)
    <3>1. m.n - 1 = answered /\ L + 1 - m.n = L - answered /\ m.uid = resp.uid
      BY <1>1, <1>6
    <3>2. QED
      BY <1>2, <3>1
  <2>3. QED
    BY <1>1, <1>6, <1>9, <2>1, <2>2, AppendKeeps
<1>11. messages' = Append(messages, m)
  BY DEF ToolResult, m
<1>12. /\ WellFormed(messages', unrecorded) /\ messages' # <<>>
       /\ Len(messages') = L + 1
       /\ \A i \in 1 .. L : messages'[i] = messages[i]
       /\ messages'[L + 1] = m
  BY <1>1, <1>6, <1>10, <1>11, AppendProperties
<1>13. CASE LastCall
  <2>1. answered' = 0 /\ GoOn /\ Len(messages') >= 2
    BY <1>1, <1>2, <1>12, <1>13 DEF ToolResult
  <2>2. QED
    BY <1>1, <1>2, <1>12, <2>1, TurnGoesOn DEF HistoryIInv, Formed, Calling
<1>14. CASE ~LastCall
  <2>1. /\ answered' = answered + 1 /\ pc' = "tools" /\ steps' = steps /\ sessions' = sessions
        /\ resp' = resp
    BY <1>1, <1>14 DEF ToolResult
  <2>3. L + 1 - (answered + 1) = L - answered
    BY <1>1
  <2>4. Caller' = c
    <3>1. Caller' = messages'[Len(messages') - answered']
      BY DEF Caller
    <3>2. Len(messages') - answered' = L - answered
      BY <1>12, <2>1, <2>3
    <3>3. QED
      BY <1>3, <1>12, <3>1, <3>2
  <2>5. answered' + 2 <= Len(messages') /\ answered' < resp.n /\ Len(messages') >= 2
    BY <1>1, <1>2, <1>12, <1>14, <2>1 DEF LastCall
  <2>6. ASSUME NEW k \in 1 .. answered + 1
        PROVE  messages'[L + 1 - (answered + 1) + k] = Msg("tool", resp.uid, k)
    <3>1. CASE k = answered + 1
      <4>1. L - answered + k = L + 1
        BY <1>1, <3>1
      <4>2. QED
        BY <1>12, <2>3, <3>1, <4>1 DEF m
    <3>2. CASE k # answered + 1
      <4>1. k \in 1 .. answered /\ L - answered + k \in 1 .. L
        BY <1>1, <1>2, <3>2
      <4>2. QED
        BY <1>2, <1>12, <2>3, <4>1
    <3>3. QED
      BY <3>1, <3>2
  <2>7. Calling'
    <3>1. \A k \in 1 .. answered' : messages'[Len(messages') - answered' + k] = Msg("tool", resp.uid, k)
      <4>1. Len(messages') - answered' = L + 1 - (answered + 1) /\ 1 .. answered' = 1 .. answered + 1
        BY <1>12, <2>1
      <4>2. QED
        BY <2>6, <4>1
    <3>2. QED
      BY <1>1, <1>2, <2>1, <2>4, <2>5, <3>1 DEF Calling
  <2>8. steps' \in 0 .. Steps[front] /\ answered' \in 0 .. MaxCalls
    BY <1>1, <1>6, <2>1 DEF HistoryIInv, TypeOK
  <2>9. QED
    BY <1>1, <1>12, <2>1, <2>7, <2>8 DEF HistoryIInv, Formed
<1>15. QED
  BY <1>13, <1>14


(* An action that adds nothing to a call in progress. *)
LEMMA QuietTurn ==
    ASSUME HistoryIInv, pc # "tools", pc' # "tools", answered' = answered,
           fresh' \in {fresh, fresh + 1, fresh + 2}, unrecorded' = unrecorded,
           pc' = "idle" \/ Len(messages') >= 2
    PROVE  Calling'
  BY DEF HistoryIInv, TypeOK, Calling

(* A new message makes the conversation longer by one. *)
LEMMA OneLonger ==
    ASSUME HistoryIInv, NEW k, NEW u, NEW n
    PROVE  /\ Len(Append(messages, Msg(k, u, n))) = Len(messages) + 1
           /\ Len(messages) \in Nat /\ Len(messages) >= 1
           /\ pc # "idle" => Len(messages) >= 2
<1>1. messages \in Seq(Message) /\ messages # <<>>
  BY DEF HistoryIInv, Formed, WellFormed
<1>2. Len(Append(messages, Msg(k, u, n))) = Len(messages) + 1
  BY <1>1
<1>3. QED
  BY <1>1, <1>2, LenProperties, EmptySeq DEF HistoryIInv, Calling

(* The less is recorded, the less is asked of the results. *)
LEMMA MoreUnrecorded ==
    ASSUME NEW U, NEW u, NEW h, WellFormed(h, U)
    PROVE  WellFormed(h, U \cup {u})
  BY DEF WellFormed, Linked

LEMMA FormedStep ==
    ASSUME HistoryIInv, [Next]_vars
    PROVE  Formed' /\ Calling'
<1> USE DEF HistoryIInv
<1>0. fresh \in Nat /\ 0 \in 0 .. MaxCalls /\ MaxCalls \in Nat
  BY HistoryAssumption DEF TypeOK
<1>l. pc = "idle" \/ Len(messages) >= 2
  BY DEF Calling
<1>1. CASE AutoSave
  <2>1. messages' = messages /\ WellFormed(messages, unrecorded) /\ messages \in Seq(Message)
    BY <1>1 DEF AutoSave, Formed, WellFormed
  <2>2. sessions' = sessions \/ sessions' = [sessions EXCEPT !["auto_current"] = messages]
    BY <1>1 DEF AutoSave, save_session
  <2>3. Formed'
    BY <1>1, <2>1, <2>2 DEF Formed, AutoSave, respVars
  <2>4. QED
    BY <1>1, <1>l, <2>3, QuietTurn DEF AutoSave, respVars
<1>2. CASE AutoCompact
  <2> DEFINE keep == AutoWindow
  <2>1. AutoKeep \in Nat
    BY HistoryAssumption DEF AutoKeep, CountKeep
  <2>2. keep \in Nat \ {0}
    BY <2>1 DEF AutoWindow
  <2>3. messages' = messages \/ messages' = middle_out(messages, keep)
    BY <1>2 DEF AutoCompact
  <2> HIDE DEF keep
  <2>l. Len(messages) \in Nat /\ Len(messages) >= 2
    BY <1>2, <1>l, LenProperties DEF Formed, WellFormed, AutoCompact
  <2>4. WellFormed(messages', unrecorded) /\ Len(messages') >= 2
    <3>1. WellFormed(middle_out(messages, keep), unrecorded)
      BY <2>2, MiddleOutKeeps DEF Formed
    <3>2. Len(middle_out(messages, keep)) >= 2
      <4>1. CASE Len(messages) <= 2 + keep
        BY <2>l, <4>1 DEF middle_out
      <4>2. CASE Len(messages) > 2 + keep
        <5> DEFINE q == middle_out(messages, keep)
                   w == WindowStart(messages, Len(messages) - keep + 1)
        <5>1. Window(q, messages, 3, w)
          BY <2>2, <4>2, MiddleOutWindow DEF Formed
        <5> HIDE DEF q, w
        <5>2. Len(q) >= 2
          BY <2>l, <5>1 DEF Window
        <5>3. QED
          BY <5>2 DEF q
      <4>3. QED
        BY <2>2, <2>l, <4>1, <4>2
    <3>3. QED
      BY <2>l, <2>3, <3>1, <3>2 DEF Formed
  <2>e. messages' # <<>>
    BY <2>4, EmptySeq
  <2>5. Formed'
    BY <1>2, <2>4, <2>e DEF AutoCompact, Formed, respVars
  <2>6. QED
    BY <1>2, <2>4, <2>5, QuietTurn DEF AutoCompact, respVars
<1>3. ASSUME NEW k \in {"assistant", "error", "failed"}, TextAnswer(k)
      PROVE  Formed' /\ Calling'
  <2>1. Formed' /\ pc' \in {"force", "idle", "save"} /\ Len(messages') >= Len(messages)
    BY <1>3, TextAnswerKeeps
  <2>2. Len(messages') >= 2
    BY <1>3, <2>1, OneLonger, LenProperties DEF TextAnswer, Formed, WellFormed
  <2>3. QED
    BY <1>3, <2>1, <2>2, QuietTurn DEF TextAnswer, respVars
<1>4. ASSUME NEW n \in 1 .. MaxCalls, NEW recorded \in BOOLEAN, CallTools(n, recorded)
      PROVE  Formed' /\ Calling'
  <2> DEFINE m == Msg("assistant", fresh, n)
             L == Len(messages)
  <2>1. m \in Message /\ m.kind = "assistant" /\ m.n = n /\ m.uid = fresh /\ n >= 1 /\ n <= MaxCalls
    BY <1>0 DEF Msg, Message, Kind
  <2>2. n \in 0 .. MaxCalls /\ "assistant" \in Kind \ {"tool"}
    BY <1>0 DEF Kind
  <2>3. WellFormed(Append(messages, m), unrecorded) /\ Append(messages, m) # <<>>
    BY <1>0, <2>2, NewMessage
  <2>4. /\ L \in Nat /\ L >= 2 /\ messages \in Seq(Message)
        /\ \A u \in unrecorded : u < fresh /\ u \in Nat
    BY <1>4, <1>l, LenProperties DEF CallTools, Formed, WellFormed, Calling, TypeOK
  <2>5. /\ answered' = 0 /\ pc' = "tools" /\ sessions' = sessions /\ fresh' = fresh + 1
        /\ resp'.uid = fresh /\ resp'.n = n
    BY <1>4 DEF CallTools, Calling
  <2>6. CASE recorded
    <3>1. messages' = Append(messages, m) /\ unrecorded' = unrecorded
      BY <1>4, <2>6 DEF CallTools
    <3>2. Formed'
      BY <2>3, <2>5, <3>1 DEF Formed
    <3> HIDE DEF m
    <3>3. Len(messages') = L + 1 /\ messages'[L + 1] = m
      BY <2>1, <2>4, <3>1, AppendProperties
    <3>4. Caller' = m
      BY <2>4, <2>5, <3>3 DEF Caller
    <3>5. Calling'
      BY <1>0, <2>1, <2>4, <2>5, <3>1, <3>3, <3>4 DEF Calling
    <3>6. QED
      BY <3>2, <3>5
  <2>7. CASE ~recorded
    <3>1. messages' = messages /\ unrecorded' = unrecorded \cup {fresh}
      BY <1>4, <2>7 DEF CallTools
    <3>2. Formed'
      BY <2>5, <3>1, MoreUnrecorded DEF Formed
    <3>3. Calling'
      BY <1>0, <2>1, <2>4, <2>5, <3>1 DEF Calling
    <3>4. QED
      BY <3>2, <3>3
  <2>8. QED
    BY <2>6, <2>7
<1>5. ASSUME NEW did, ToolResult(did)
      PROVE  Formed' /\ Calling'
  BY <1>5, ToolResultKeeps
<1>6. CASE ForceText
  <2>1. WellFormed(messages', unrecorded) /\ messages' # <<>>
    BY <1>0, <1>6, NewMessage DEF ForceText, Kind
  <2>2. Formed'
    BY <1>6, <2>1 DEF ForceText, Formed, respVars
  <2>3. Len(messages') >= 2
    BY <1>6, OneLonger DEF ForceText
  <2>4. QED
    BY <1>6, <2>2, <2>3, QuietTurn DEF ForceText, respVars
<1>7. ASSUME NEW k \in {"assistant", "error"}, ForcedAnswer(k)
      PROVE  Formed' /\ Calling'
  <2>1. k \in Kind \ {"tool"}
    BY DEF Kind
  <2>2. WellFormed(messages', unrecorded) /\ messages' # <<>>
    BY <1>0, <1>7, <2>1, NewMessage DEF ForcedAnswer
  <2>3. /\ EndTurn /\ answered' = answered /\ pc = "forced" /\ pc' = "idle"
        /\ unrecorded' = unrecorded /\ fresh' = fresh + 1
    BY <1>7 DEF ForcedAnswer, respVars, EndTurn
  <2>4. Formed' /\ pc' \in {"force", "idle", "save"}
    BY <2>2, <2>3, TurnGoesOn DEF Formed
  <2>5. QED
    BY <2>3, <2>4, QuietTurn
<1>8. CASE UserTurn
  <2>1. WellFormed(messages', unrecorded) /\ messages' # <<>>
    BY <1>0, <1>8, NewMessage DEF UserTurn, Kind
  <2>2. Formed'
    BY <1>8, <2>1 DEF UserTurn, Formed, respVars
  <2>3. Len(messages') >= 2
    BY <1>8, OneLonger DEF UserTurn
  <2>4. QED
    BY <1>8, <2>2, <2>3, QuietTurn DEF UserTurn, respVars
<1>9. CASE clear_history
  <2>1. messages \in Seq(Message) /\ Len(messages) \in Nat /\ Len(messages) > 0
    BY LenProperties, EmptySeq DEF Formed, WellFormed
  <2>2. messages[1] \in Message /\ messages[1].kind = "system" /\ messages[1].n <= MaxCalls
    BY <2>1, ElementOfSeq DEF Formed, WellFormed
  <2> DEFINE r == <<messages[1]>>
  <2>3. r \in Seq(Message) /\ Len(r) = 1 /\ r[1] = messages[1] /\ r # <<>>
    BY <2>2
  <2>4. messages' = r
    BY <1>9 DEF clear_history
  <2> HIDE DEF r
  <2>5. \A i \in 1 .. 1 : i = 1
    OBVIOUS
  <2>6. WellFormed(r, unrecorded)
    BY <2>2, <2>3, <2>5 DEF WellFormed, Linked
  <2>7. sessions' = sessions \/ sessions' = [sessions EXCEPT !["telegram_active"] = r]
    BY <1>9, <2>4 DEF clear_history, save_session
  <2>8. Formed'
    BY <1>9, <2>3, <2>4, <2>6, <2>7 DEF Formed, clear_history, idleVars
  <2>9. QED
    BY <1>9, <2>8, QuietTurn DEF clear_history, Command, idleVars
<1>10. ASSUME NEW keep \in Keeps, compact(keep)
       PROVE  Formed' /\ Calling'
  <2>1. keep \in Nat \ {0} /\ messages' = compact_history(messages, keep)
    BY <1>10, HistoryAssumption DEF compact
  <2>2. WellFormed(messages', unrecorded)
    BY <2>1, CompactKeeps DEF Formed
  <2>3. messages' # <<>>
    <3>1. CASE Len(messages) <= 1 + keep
      BY <2>1, <3>1 DEF compact_history, Formed
    <3>2. CASE Len(messages) > 1 + keep
      <4> DEFINE r == compact_history(messages, keep)
                 w == WindowStart(messages, Len(messages) - keep + 1)
      <4>1. Window(r, messages, 1, w)
        BY <2>1, <3>2, CompactWindow DEF Formed
      <4> HIDE DEF r, w
      <4>2. Len(r) > 0
        BY <4>1, LenProperties DEF Window, Formed, WellFormed
      <4>3. r # <<>>
        BY <4>2, EmptySeq
      <4>4. QED
        BY <2>1, <4>3 DEF r
    <3>3. Len(messages) \in Nat
      BY LenProperties DEF Formed, WellFormed
    <3>4. QED
      BY <2>1, <3>1, <3>2, <3>3
  <2>4. Formed'
    BY <1>10, <2>2, <2>3 DEF compact, Formed, idleVars
  <2>5. QED
    BY <1>10, <2>4, QuietTurn DEF compact, Command, idleVars
<1>11. CASE save
  <2>1. messages' = messages /\ WellFormed(messages, unrecorded) /\ messages \in Seq(Message)
    BY <1>11 DEF save, Formed, WellFormed
  <2>2. sessions' = [sessions EXCEPT !["named"] = messages]
    BY <1>11 DEF save, save_session
  <2>3. Formed'
    BY <1>11, <2>1, <2>2 DEF Formed, save, idleVars
  <2>4. QED
    BY <1>11, <2>3, QuietTurn DEF save, Command, idleVars
<1>12. ASSUME NEW s \in SessionId, resume(s)
       PROVE  Formed' /\ Calling'
  <2>1. Formed'
    BY <1>12 DEF resume, Formed, idleVars
  <2>2. QED
    BY <1>12, <2>1, QuietTurn DEF resume, Command, idleVars
<1>13. CASE create_checkpoint
  <2>1. Formed'
    BY <1>13 DEF create_checkpoint, Formed, idleVars
  <2>2. QED
    BY <1>13, <2>1, QuietTurn DEF create_checkpoint, Command, idleVars
<1>14. ASSUME NEW c \in DOMAIN checkpoints, rollback(c)
       PROVE  Formed' /\ Calling'
  <2>1. checkpoints[c] \in Nat \ {0}
    BY LenProperties, ElementOfSeq DEF TypeOK
  <2>2. Len(messages) \in Nat
    BY LenProperties DEF Formed, WellFormed
  <2>a. /\ pc = "idle" /\ pc' = pc /\ answered' = answered
        /\ unrecorded' = unrecorded /\ fresh' = fresh
    BY <1>14 DEF rollback, Command, idleVars
  <2>b. Calling'
    BY <2>a, QuietTurn
  <2>3. CASE checkpoints[c] < Len(messages)
    <3>1. checkpoints[c] \in 1 .. Len(messages)
      BY <2>1, <2>2, <2>3
    <3>2. messages' = SubSeq(messages, 1, checkpoints[c])
      BY <1>14, <2>3 DEF rollback
    <3>3. WellFormed(messages', unrecorded) /\ Len(messages') = checkpoints[c]
      BY <3>1, <3>2, PrefixKeeps DEF Formed
    <3>4. messages' # <<>>
      BY <2>1, <3>3, EmptySeq
    <3>5. QED
      BY <1>14, <2>a, <2>b, <3>3, <3>4 DEF rollback, Formed
  <2>4. CASE ~(checkpoints[c] < Len(messages))
    BY <1>14, <2>a, <2>b, <2>4 DEF rollback, Formed
  <2>5. QED
    BY <2>3, <2>4
<1>15. ASSUME NEW f \in FrontEnd, NEW s \in SessionId \cup {"none"}, Restart(f, s)
       PROVE  Formed' /\ Calling'
  <2>1. messages' = <<System>> \/ \E x \in SessionId : sessions[x] # <<>> /\ messages' = sessions[x]
    BY <1>15 DEF Restart, SessionId
  <2>2. Formed'
    BY <1>15, <2>1, FirstHistory DEF Restart, dbVars, Formed
  <2>3. QED
    BY <1>15, <2>2 DEF Restart, Calling, TypeOK
<1>16. CASE UNCHANGED vars
  <2>1. Formed'
    BY <1>16 DEF vars, Formed
  <2>2. Caller' = Caller
    BY <1>16 DEF vars, Caller
  <2>3. QED
    BY <1>16, <2>1, <2>2 DEF vars, Calling
<1>17. QED
  BY <1>1, <1>2, <1>3, <1>4, <1>5, <1>6, <1>7, <1>8, <1>9, <1>10, <1>11, <1>12, <1>13,
     <1>14, <1>15, <1>16 DEF Next, Turn


(* The rest of the state. *)
LEMMA TypeStep ==
    ASSUME HistoryIInv, Formed', [Next]_vars
    PROVE  TypeOK'
<1> USE DEF HistoryIInv
<1>0. messages' \in History /\ messages' # <<>> /\ sessions' \in [SessionId -> History]
  BY HistoryDef DEF Formed, WellFormed
<1>1. /\ fresh \in Nat /\ turn_count \in Nat /\ turns_since_save \in Nat /\ turns \in 0 .. MaxTurns
      /\ steps \in 0 .. Steps[front] /\ answered \in 0 .. MaxCalls
      /\ checkpoints \in Seq(Nat \ {0}) /\ front \in FrontEnd
      /\ Len(messages) \in Nat \ {0} /\ messages \in Seq(Message)
      /\ \A f \in FrontEnd : Steps[f] \in Nat /\ Steps[f] > 0
      /\ MaxTurns \in Nat /\ MaxCalls \in Nat
      /\ resp \in [uid : Nat, n : Nat] /\ unrecorded \subseteq Nat /\ NoCalls \in [uid : Nat, n : Nat]
  BY HistoryAssumption, LenProperties, EmptySeq, SMTT(30) DEF TypeOK, Formed, WellFormed, NoCalls
<1>2. /\ fresh + 1 \in Nat /\ fresh + 2 \in Nat /\ turn_count + 1 \in Nat /\ turns_since_save + 1 \in Nat
      /\ (steps > 0 => steps - 1 \in 0 .. Steps[front])
      /\ Append(checkpoints, Checkpoint) \in Seq(Nat \ {0})
      /\ \A f \in FrontEnd : 0 \in 0 .. Steps[f] /\ Steps[f] - 1 \in 0 .. Steps[f]
      /\ 0 \in 0 .. MaxCalls
      /\ (turns < MaxTurns => turns + 1 \in 0 .. MaxTurns)
  BY <1>1 DEF Checkpoint
<1>a. /\ pc \in {"idle", "save", "compact", "asked", "tools", "force", "forced"}
      /\ tokens \in TokenLevel /\ guard \in {"clean", "due", "off"}
      /\ \A m \in archive : <<m>> \in History
  BY DEF TypeOK
<1> DEFINE Rest == /\ \A m \in archive' : <<m>> \in History
                   /\ checkpoints' \in Seq(Nat \ {0})
                   /\ turn_count' \in Nat /\ turns_since_save' \in Nat
                   /\ fresh' \in Nat /\ turns' \in 0 .. MaxTurns
                   /\ front' \in FrontEnd
                   /\ pc' \in {"idle", "save", "compact", "asked", "tools", "force", "forced"}
                   /\ steps' \in 0 .. Steps[front'] /\ answered' \in 0 .. MaxCalls
                   /\ tokens' \in TokenLevel /\ guard' \in {"clean", "due", "off"}
                   /\ resp' \in [uid : Nat, n : Nat] /\ unrecorded' \subseteq Nat
<1>b. SUFFICES Rest
  BY <1>0 DEF TypeOK
<1>3. CASE AutoSave
  BY <1>3, <1>1, <1>2, <1>a DEF AutoSave, respVars
<1>4. CASE AutoCompact
  <2>1. \A m \in archive' : <<m>> \in History
    <3> DEFINE keep == AutoWindow
    <3>1. AutoKeep \in Nat
      BY HistoryAssumption DEF AutoKeep, CountKeep
    <3>2. keep \in Nat
      BY <3>1 DEF AutoWindow
    <3>3. archive' = archive \/ archive' = archive \cup archived(messages, keep)
      BY <1>4 DEF AutoCompact
    <3> HIDE DEF keep
    <3>4. \A i \in 3 .. Len(messages) - keep : i \in 1 .. Len(messages)
      BY <1>1, <3>2
    <3>5. \A m \in archived(messages, keep) : m \in Message
      BY <1>1, <3>4, ElementOfSeq DEF archived
    <3>6. \A m \in Message : <<m>> \in History
      BY HistoryDef
    <3>7. QED
      BY <1>a, <3>3, <3>5, <3>6
  <2>2. QED
    BY <1>4, <1>1, <1>2, <1>a, <2>1 DEF AutoCompact, TokenLevel, respVars
<1>5. ASSUME NEW k \in {"assistant", "error", "failed"}, TextAnswer(k)
      PROVE  Rest
  <2>1. pc' \in {"force", "idle", "save"} /\ steps' \in 0 .. Steps[front]
    BY <1>5, TextAnswerKeeps
  <2>2. turn_count' \in Nat /\ turns_since_save' \in Nat /\ guard' \in {"clean", "due", "off"}
    BY <1>5, <1>1, <1>2, <1>a DEF TextAnswer, Counted
  <2>3. /\ archive' = archive /\ checkpoints' = checkpoints /\ front' = front
        /\ answered' = answered /\ tokens' = tokens /\ turns' = turns /\ fresh' = fresh + 2
        /\ resp' = resp /\ unrecorded' = unrecorded
    BY <1>5 DEF TextAnswer, respVars
  <2>4. QED
    BY <1>1, <1>2, <1>a, <2>1, <2>2, <2>3
<1>6. ASSUME NEW n \in 1 .. MaxCalls, NEW recorded \in BOOLEAN, CallTools(n, recorded)
      PROVE  Rest
  <2>1. n \in Nat /\ [uid |-> fresh, n |-> n] \in [uid : Nat, n : Nat]
    BY <1>1
  <2>2. turn_count' \in Nat /\ turns_since_save' \in Nat /\ unrecorded' \subseteq Nat
    BY <1>6, <1>1, <1>2 DEF CallTools, Counted
  <2>3. QED
    BY <1>6, <1>1, <1>2, <1>a, <2>1, <2>2 DEF CallTools
<1>7. ASSUME NEW did \in {"reads", "writes", "verifies"}, ToolResult(did)
      PROVE  Rest
  <2>1. /\ pc' \in {"force", "idle", "save", "tools"} /\ steps' \in 0 .. Steps[front]
        /\ answered' \in 0 .. MaxCalls
    BY <1>7, ToolResultKeeps
  <2>2. guard' \in {"clean", "due", "off"}
    BY <1>7, <1>a DEF ToolResult
  <2>3. /\ archive' = archive /\ checkpoints' = checkpoints /\ front' = front
        /\ turn_count' = turn_count /\ turns_since_save' = turns_since_save
        /\ tokens' = tokens /\ turns' = turns /\ fresh' = fresh /\ unrecorded' = unrecorded
        /\ resp' = resp \/ resp' = NoCalls
    BY <1>7 DEF ToolResult
  <2>4. QED
    BY <1>1, <1>a, <2>1, <2>2, <2>3
<1>8. CASE ForceText
  BY <1>8, <1>1, <1>2, <1>a DEF ForceText, respVars
<1>9. ASSUME NEW k \in {"assistant", "error"}, ForcedAnswer(k)
      PROVE  Rest
  BY <1>9, <1>1, <1>2, <1>a DEF ForcedAnswer, EndTurn, Counted, respVars
<1>10. CASE UserTurn
  BY <1>10, <1>1, <1>2, <1>a DEF UserTurn, respVars
<1>11. CASE clear_history
  BY <1>11, <1>1, <1>2, <1>a DEF clear_history, idleVars
<1>12. ASSUME NEW keep \in Keeps, compact(keep)
       PROVE  Rest
  BY <1>12, <1>1, <1>2, <1>a DEF compact, idleVars
<1>13. CASE save
  BY <1>13, <1>1, <1>2, <1>a DEF save, idleVars
<1>14. ASSUME NEW s \in SessionId, resume(s)
       PROVE  Rest
  BY <1>14, <1>1, <1>2, <1>a DEF resume, idleVars
<1>15. CASE create_checkpoint
  BY <1>15, <1>1, <1>2, <1>a DEF create_checkpoint, idleVars
<1>16. ASSUME NEW c \in DOMAIN checkpoints, rollback(c)
       PROVE  Rest
  BY <1>16, <1>1, <1>2, <1>a DEF rollback, idleVars
<1>17. ASSUME NEW f \in FrontEnd, NEW s \in SessionId \cup {"none"}, Restart(f, s)
       PROVE  Rest
  BY <1>17, <1>1, <1>2, <1>a DEF Restart, dbVars, TokenLevel
<1>18. CASE UNCHANGED vars
  BY <1>18, <1>1, <1>2, <1>a DEF vars
<1>19. QED
  BY <1>3, <1>4, <1>5, <1>6, <1>7, <1>8, <1>9, <1>10, <1>11, <1>12, <1>13,
     <1>14, <1>15, <1>16, <1>17, <1>18 DEF Next, Turn

LEMMA HistoryInvariant == Spec => []HistoryIInv
<1>1. HistoryIInv /\ [Next]_vars => HistoryIInv'
  BY FormedStep, TypeStep DEF HistoryIInv
<1>2. QED
  BY <1>1, HistoryInitially, PTL DEF Spec

(* Whatever limits are configured, however many turns are made and calls   *)
(* answered, and whatever is compacted, cut, cleared, saved, restored or   *)
(* interrupted by a crash, every tool result in the conversation and in    *)
(* every saved session stands behind the call it answers, unless that is a *)
(* call of an answer that was taken for a transport failure.               *)
THEOREM HistoryIsWellFormed == Spec => []HistoryInv
<1>1. HistoryIInv => HistoryInv
  BY LinkedIsGrounded DEF HistoryIInv, HistoryInv, Formed, NoOrphanResults, Stored
<1>2. QED
  BY <1>1, HistoryInvariant, PTL


-----------------------------------------------------------------------------
(* What automatic compaction keeps. *)

LEMMA AutoCompactShape ==
    ASSUME HistoryIInv, AutoCompact
    PROVE  /\ AutoWindow \in Nat \ {0}
           /\ \/ messages' = messages
              \/ /\ Len(messages) > 2 + AutoWindow
                 /\ messages' = middle_out(messages, AutoWindow)
                 /\ archive' = archive \cup archived(messages, AutoWindow)
<1>1. AutoKeep \in Nat
  BY HistoryAssumption DEF AutoKeep, CountKeep
<1>2. AutoWindow \in Nat \ {0}
  BY <1>1 DEF AutoWindow
<1>3. \/ messages' = messages
      \/ /\ messages' = middle_out(messages, AutoWindow)
         /\ archive' = archive \cup archived(messages, AutoWindow)
  BY DEF AutoCompact, AutoWindow
<1>4. Len(messages) \in Nat
  BY LenProperties DEF HistoryIInv, Formed, WellFormed
<1>5. Len(messages) <= 2 + AutoWindow => middle_out(messages, AutoWindow) = messages
  BY DEF middle_out
<1>6. Len(messages) <= 2 + AutoWindow \/ Len(messages) > 2 + AutoWindow
  BY <1>2, <1>4
<1>7. QED
  BY <1>2, <1>3, <1>5, <1>6

(* What automatic compaction removes from the conversation is in the       *)
(* archive, or stands in the row of tool results with which the recent     *)
(* window would have begun, for any limits and any history.                *)
THEOREM DroppedMessagesAreArchived == Spec => DroppedIsArchived
<1> DEFINE Early(i) == /\ i > Len(messages) - AutoWindow
                       /\ \A x \in Len(messages) - AutoWindow + 1 .. i : messages[x].kind = "tool"
           A == pc = "compact" /\ pc' = "asked" =>
                  \A i \in DOMAIN messages :
                      \/ messages[i] \in Kept(messages') \cup archive'
                      \/ /\ i > Len(messages) - AutoWindow
                         /\ \A x \in Len(messages) - AutoWindow + 1 .. i :
                                messages[x].kind = "tool"
<1>1. HistoryIInv /\ [Next]_vars => [A]_vars
  <2> SUFFICES ASSUME HistoryIInv, Next, pc = "compact", pc' = "asked",
                      NEW i \in DOMAIN messages, messages[i] \notin Kept(messages')
               PROVE  messages[i] \in archive' \/ Early(i)
    OBVIOUS
  <2>1. AutoCompact
    BY DEF Next, Turn, AutoSave, TextAnswer, CallTools, ToolResult, ForceText, ForcedAnswer,
           UserTurn, clear_history, compact, save, resume, create_checkpoint, rollback,
           Restart, Command
  <2> DEFINE h == messages
             r == messages'
             keep == AutoWindow
             w == WindowStart(h, Len(h) - keep + 1)
             m == messages[i]
  <2>a. messages' # messages
    BY DEF Kept
  <2>2. /\ keep \in Nat \ {0} /\ Len(h) > 2 + keep
        /\ r = middle_out(h, keep) /\ archive' = archive \cup archived(h, keep)
    BY <2>1, <2>a, AutoCompactShape
  <2>3. h \in Seq(Message) /\ Len(h) \in Nat /\ WellFormed(h, unrecorded)
    BY LenProperties DEF HistoryIInv, Formed, WellFormed
  <2>4. /\ Window(r, h, 3, w) /\ w >= Len(h) - keep + 1
        /\ \A x \in Len(h) - keep + 1 .. w - 1 : h[x].kind = "tool"
        /\ r[1] = h[1] /\ r[2] = h[2]
    BY <2>2, <2>3, MiddleOutWindow
  <2>5. i \in 1 .. Len(h) /\ m = h[i]
    BY <2>3, LenProperties
  <2> HIDE DEF h, r, keep, w, m
  <2>6. m \notin Kept(r)
    BY DEF m, r
  <2>7. /\ w \in 1 .. Len(h) + 1 /\ r \in Seq(Message) /\ Len(r) = 3 + Len(h) - w + 1
        /\ \A x \in 3 + 1 .. Len(r) : r[x] = h[w + x - 3 - 1]
    BY <2>4 DEF Window
  <2>8. Len(r) \in Nat /\ w \in Nat /\ DOMAIN r = 1 .. Len(r)
    BY <2>3, <2>7, LenProperties
  <2>9. \A x \in 1 .. Len(r) : m # r[x]
    BY <2>6, <2>8 DEF Kept
  <2>10. i # 1 /\ i # 2
    <3>1. 1 \in 1 .. Len(r) /\ 2 \in 1 .. Len(r)
      BY <2>3, <2>7, <2>8
    <3>2. QED
      BY <2>4, <2>5, <2>9, <3>1
  <2>11. i < w
    <3> SUFFICES ASSUME i >= w
                 PROVE  FALSE
      BY <2>8
    <3>1. i - w + 4 \in 3 + 1 .. Len(r) /\ w + (i - w + 4) - 3 - 1 = i /\ i - w + 4 \in 1 .. Len(r)
      BY <2>3, <2>5, <2>7, <2>8
    <3>2. QED
      BY <2>5, <2>7, <2>9, <3>1
  <2>12. CASE i <= Len(h) - keep
    <3>1. i \in 3 .. Len(h) - keep
      BY <2>2, <2>3, <2>10, <2>12
    <3>2. ~(Len(h) <= 2 + keep)
      BY <2>2, <2>3
    <3>3. m \in archived(h, keep)
      BY <2>5, <3>1, <3>2 DEF archived
    <3>4. QED
      BY <2>2, <3>3 DEF m
  <2>13. CASE i > Len(h) - keep
    <3>1. \A x \in Len(h) - keep + 1 .. i : x \in Len(h) - keep + 1 .. w - 1
      BY <2>2, <2>3, <2>5, <2>8, <2>11
    <3>2. QED
      BY <2>4, <2>13, <3>1 DEF h, keep
  <2>14. QED
    BY <2>2, <2>3, <2>5, <2>12, <2>13
<1>2. QED
  BY <1>1, HistoryInvariant, PTL DEF Spec, DroppedIsArchived

(* An answer has fewer calls than each of the recent windows has room for. *)
CallsFit == /\ MaxCalls < CompactKeep /\ MaxCalls < TurnKeep
            /\ MaxCalls < (IF CountKeep > 0 THEN CountKeep ELSE 8)

LEMMA WindowIsNotEmpty ==
    ASSUME CallsFit, NEW U, NEW h, WellFormed(h, U), NEW keep \in Nat \ {0}, MaxCalls < keep,
           Len(h) > 2 + keep, h[Len(h)].uid \notin U
    PROVE  Last(middle_out(h, keep)) = Last(h)
<1> DEFINE L == Len(h)
           r == middle_out(h, keep)
           w == WindowStart(h, Len(h) - keep + 1)
           n == h[L].n
<1>1. h \in Seq(Message) /\ L \in Nat /\ MaxCalls \in Nat /\ L > 2 + keep
  BY LenProperties, HistoryAssumption DEF WellFormed
<1>2. /\ Window(r, h, 3, w) /\ w >= L - keep + 1
      /\ \A x \in L - keep + 1 .. w - 1 : h[x].kind = "tool"
  BY MiddleOutWindow
<1>3. /\ w \in 1 .. L + 1 /\ r \in Seq(Message) /\ Len(r) = 3 + L - w + 1
      /\ \A x \in 3 + 1 .. Len(r) : r[x] = h[w + x - 3 - 1]
  BY <1>2 DEF Window
<1>4. h[L].kind = "tool" => n \in 1 .. L - 2 /\ h[L - n].kind = "assistant" /\ n <= MaxCalls
  <2>1. L \in 1 .. Len(h)
    BY <1>1
  <2>2. QED
    BY <2>1 DEF WellFormed, Linked, Behind
<1> HIDE DEF L, r, w, n
<1>5. w <= L
  <2> SUFFICES ASSUME w > L
               PROVE  FALSE
    BY <1>1, <1>3
  <2>1. L \in L - keep + 1 .. w - 1
    BY <1>1, <1>3
  <2>2. n \in 1 .. L - 2 /\ h[L - n].kind = "assistant" /\ n <= MaxCalls
    BY <1>2, <1>4, <2>1
  <2>3. L - n \in L - keep + 1 .. w - 1
    BY <1>1, <1>3, <2>2
  <2>4. QED
    BY <1>2, <2>2, <2>3
<1>6. Len(r) \in 3 + 1 .. Len(r) /\ w + Len(r) - 3 - 1 = L
  BY <1>1, <1>3, <1>5
<1>7. r[Len(r)] = h[L]
  BY <1>3, <1>6
<1>8. QED
  BY <1>7 DEF Last, L, r

(* As long as one answer makes fewer calls than the recent window keeps    *)
(* messages, automatic compaction leaves the message the model is to       *)
(* answer where it is, at the end, unless it is a result of an unrecorded  *)
(* answer; and no step of a turn touches the system message and the root   *)
(* objective.                                                              *)
THEOREM EndsAreKept ==
    ASSUME CallsFit
    PROVE  Spec => CompactionKeepsEnds
<1> DEFINE A == /\ pc # "idle" /\ pc' # "idle" /\ Len(messages) > 1 =>
                     /\ Len(messages') > 1
                     /\ messages'[1] = messages[1] /\ messages'[2] = messages[2]
                /\ pc = "compact" /\ pc' = "asked" /\ Last(messages).uid \notin unrecorded =>
                     Last(messages') = Last(messages)
<1>1. HistoryIInv /\ [Next]_vars => [A]_vars
  <2> SUFFICES ASSUME HistoryIInv, Next
               PROVE  A
    OBVIOUS
  <2>1. /\ messages \in Seq(Message) /\ Len(messages) \in Nat /\ WellFormed(messages, unrecorded)
        /\ fresh \in Nat
    BY LenProperties DEF HistoryIInv, Formed, WellFormed, TypeOK
  <2>2. CASE AutoCompact
    <3>1. AutoWindow \in Nat \ {0}
      BY <2>2, AutoCompactShape
    <3>2. MaxCalls < AutoWindow
      BY HistoryAssumption DEF CallsFit, AutoWindow, AutoKeep, CountKeep
    <3>3. CASE messages' = messages
      BY <2>1, <3>3
    <3>4. CASE Len(messages) > 2 + AutoWindow /\ messages' = middle_out(messages, AutoWindow)
      <4> DEFINE r == messages'
                 w == WindowStart(messages, Len(messages) - AutoWindow + 1)
      <4>1. Window(r, messages, 3, w) /\ r[1] = messages[1] /\ r[2] = messages[2]
        BY <2>1, <3>1, <3>4, MiddleOutWindow
      <4> HIDE DEF w
      <4>2. Len(r) > 1
        BY <2>1, <4>1 DEF Window
      <4>3. Last(messages).uid \notin unrecorded => Last(r) = Last(messages)
        BY <2>1, <3>1, <3>2, <3>4, WindowIsNotEmpty DEF Last
      <4>4. QED
        BY <4>1, <4>2, <4>3
    <3>5. QED
      BY <2>2, <3>3, <3>4, AutoCompactShape
  <2>3. CASE ~AutoCompact /\ pc # "idle" /\ pc' # "idle" /\ Len(messages) > 1
    <3>1. ASSUME NEW m \in Message
          PROVE  /\ Append(messages, m) \in Seq(Message)
                 /\ Len(Append(messages, m)) > 1
                 /\ Append(messages, m)[1] = messages[1] /\ Append(messages, m)[2] = messages[2]
      <4>1. 1 \in 1 .. Len(messages) /\ 2 \in 1 .. Len(messages)
        BY <2>1, <2>3
      <4>2. QED
        BY <2>1, <2>3, <4>1, AppendProperties
    <3>2. ASSUME NEW m \in Message, NEW x \in Message
          PROVE  /\ Len(Append(Append(messages, m), x)) > 1
                 /\ Append(Append(messages, m), x)[1] = messages[1]
                 /\ Append(Append(messages, m), x)[2] = messages[2]
      <4> DEFINE r == Append(messages, m)
      <4>1. r \in Seq(Message) /\ Len(r) > 1 /\ r[1] = messages[1] /\ r[2] = messages[2]
        BY <3>1
      <4> HIDE DEF r
      <4>2. Len(r) \in Nat /\ 1 \in 1 .. Len(r) /\ 2 \in 1 .. Len(r)
        BY <4>1, LenProperties
      <4>3. Len(Append(r, x)) > 1 /\ Append(r, x)[1] = r[1] /\ Append(r, x)[2] = r[2]
        BY <4>1, <4>2, AppendProperties
      <4>4. QED
        BY <4>1, <4>3 DEF r
    <3>3. \A k \in Kind, n \in Nat : Msg(k, fresh, n) \in Message /\ Msg(k, fresh + 1, n) \in Message
      BY <2>1, MsgType
    <3>4. resp.uid \in Nat /\ answered + 1 \in Nat
      BY DEF HistoryIInv, TypeOK
    <3>5. \/ messages' = messages
          \/ \E m \in Message : messages' = Append(messages, m)
          \/ \E m, x \in Message : messages' = Append(Append(messages, m), x)
      <4>1. CASE AutoSave
        BY <4>1 DEF AutoSave
      <4>2. ASSUME NEW k \in {"assistant", "error", "failed"}, TextAnswer(k)
            PROVE  \/ messages' = messages
                   \/ \E m \in Message : messages' = Append(messages, m)
                   \/ \E m, x \in Message : messages' = Append(Append(messages, m), x)
        <5>1. k # "failed" => Msg(k, fresh, 0) \in Message
          BY <3>3 DEF Kind
        <5>2. Msg("user", fresh + 1, 0) \in Message
          BY <3>3 DEF Kind
        <5>3. QED
          BY <4>2, <5>1, <5>2 DEF TextAnswer
      <4>3. ASSUME NEW n \in 1 .. MaxCalls, NEW recorded \in BOOLEAN, CallTools(n, recorded)
            PROVE  messages' = messages \/ \E m \in Message : messages' = Append(messages, m)
        <5>1. n \in Nat
          BY HistoryAssumption
        <5>2. QED
          BY <3>3, <4>3, <5>1 DEF CallTools, Kind
      <4>4. ASSUME NEW did, ToolResult(did)
            PROVE  \E m \in Message : messages' = Append(messages, m)
        <5>1. Msg("tool", resp.uid, answered + 1) \in Message
          BY <3>4, <4>4, MsgType DEF ToolResult, Kind
        <5>2. QED
          BY <4>4, <5>1 DEF ToolResult
      <4>5. CASE ForceText
        BY <3>3, <4>5 DEF ForceText, Kind
      <4>6. QED
        BY <2>3, <4>1, <4>2, <4>3, <4>4, <4>5 DEF Next, Turn, ForcedAnswer, EndTurn, UserTurn,
           clear_history, compact, save, resume, create_checkpoint, rollback, Restart, Command
    <3>6. /\ Len(messages') > 1
          /\ messages'[1] = messages[1] /\ messages'[2] = messages[2]
      BY <2>3, <3>1, <3>2, <3>5
    <3>7. pc = "compact" => pc' # "asked"
      BY <2>3 DEF Next, Turn, AutoSave, TextAnswer, CallTools, ToolResult, ForceText, ForcedAnswer,
           UserTurn, clear_history, compact, save, resume, create_checkpoint, rollback,
           Restart, Command
    <3>8. QED
      BY <3>6, <3>7
  <2>4. CASE ~AutoCompact /\ ~(pc # "idle" /\ pc' # "idle" /\ Len(messages) > 1)
    <3>1. pc = "compact" => pc' # "asked"
      BY <2>4 DEF Next, Turn, AutoSave, TextAnswer, CallTools, ToolResult, ForceText, ForcedAnswer,
           UserTurn, clear_history, compact, save, resume, create_checkpoint, rollback,
           Restart, Command
    <3>2. QED
      BY <2>4, <3>1
  <2>5. QED
    BY <2>2, <2>3, <2>4
<1>2. QED
  BY <1>1, HistoryInvariant, PTL DEF Spec, CompactionKeepsEnds


-----------------------------------------------------------------------------
(* Every call has its results behind it. *)

(* All answers but the one at c have theirs. *)
SettledBut(h, c) ==
    \A i \in 1 .. Len(h) : h[i].kind = "assistant" /\ i # c =>
        \A k \in 1 .. h[i].n : i + k <= Len(h) /\ h[i + k] = Msg("tool", h[i].uid, k)

(* The root objective, which middle_out keeps, makes no calls. *)
Rooted(h) == Len(h) >= 2 => h[2].kind = "user"

(* The answer whose calls are still being carried out, where it was        *)
(* recorded; none is at 0.                                                 *)
Pending == IF pc = "tools" /\ resp.uid \notin unrecorded THEN Len(messages) - answered ELSE 0

SettledIInv == /\ SettledBut(messages, Pending) /\ Rooted(messages)
               /\ \A s \in SessionId : SettledBut(sessions[s], 0) /\ Rooted(sessions[s])

LEMMA SettledButNone == \A h \in Seq(Message) : SettledBut(h, 0) <=> Settled(h)
<1> SUFFICES ASSUME NEW h \in Seq(Message)
             PROVE  SettledBut(h, 0) <=> Settled(h)
  OBVIOUS
<1>1. DOMAIN h = 1 .. Len(h) /\ Len(h) \in Nat
  BY LenProperties
<1>2. \A i \in 1 .. Len(h) : i # 0
  BY <1>1
<1>3. QED
  BY <1>1, <1>2 DEF Settled, SettledBut

LEMMA FirstIsSettled == SettledBut(<<System>>, 0) /\ Rooted(<<System>>)
                        /\ SettledBut(<<>>, 0) /\ Rooted(<<>>)
<1>1. Len(<<System>>) = 1 /\ <<System>>[1] = System /\ Len(<<>>) = 0
  OBVIOUS
<1>2. \A i \in 1 .. 1 : i = 1
  OBVIOUS
<1>3. QED
  BY <1>1, <1>2, SystemType DEF SettledBut, Rooted

(* A new message that calls nothing settles nothing and unsettles nothing; *)
(* one that calls is the one that is pending.                              *)
LEMMA AppendSettles ==
    ASSUME NEW h \in Seq(Message), NEW c \in 0 .. Len(h), SettledBut(h, c), NEW m \in Message
    PROVE  /\ m.kind # "assistant" \/ m.n = 0 => SettledBut(Append(h, m), c)
           /\ c = 0 => SettledBut(Append(h, m), Len(h) + 1)
           /\ Len(h) >= 2 /\ Rooted(h) => Rooted(Append(h, m))
           /\ Len(Append(h, m)) = Len(h) + 1
           /\ \A i \in 1 .. Len(h) : Append(h, m)[i] = h[i]
           /\ Append(h, m)[Len(h) + 1] = m
<1> DEFINE r == Append(h, m)
           L == Len(h)
<1>1. L \in Nat
  BY LenProperties
<1>2. Len(r) = L + 1 /\ r[L + 1] = m /\ \A i \in 1 .. L : r[i] = h[i]
  BY AppendProperties
<1> HIDE DEF r
<1>3. L >= 2 /\ Rooted(h) => Rooted(r)
  BY <1>1, <1>2 DEF Rooted
<1>4. ASSUME NEW i \in 1 .. L, r[i].kind = "assistant", i # c, NEW k \in 1 .. r[i].n
      PROVE  i + k <= L + 1 /\ r[i + k] = Msg("tool", r[i].uid, k)
  <2>0. r[i] = h[i] /\ h[i] \in Message
    BY <1>2, ElementOfSeq
  <2>1. r[i] = h[i] /\ h[i].n \in Nat
    BY <2>0 DEF Message
  <2>a. h[i].kind = "assistant" /\ k \in 1 .. h[i].n
    BY <1>4, <2>1
  <2>2. i + k <= L /\ h[i + k] = Msg("tool", h[i].uid, k)
    BY <1>4, <2>a, Zenon DEF SettledBut
  <2>3. i + k \in 1 .. L
    BY <1>1, <2>1, <2>2
  <2>4. QED
    BY <1>1, <1>2, <2>1, <2>2, <2>3
<1>5. \A i \in 1 .. L + 1 : i \in 1 .. L \/ i = L + 1
  BY <1>1
<1>6. m.kind # "assistant" \/ m.n = 0 => SettledBut(r, c)
  <2> SUFFICES ASSUME m.kind # "assistant" \/ m.n = 0, NEW i \in 1 .. L + 1,
                      r[i].kind = "assistant", i # c, NEW k \in 1 .. r[i].n
               PROVE  i + k <= L + 1 /\ r[i + k] = Msg("tool", r[i].uid, k)
    BY <1>2 DEF SettledBut
  <2>1. CASE i \in 1 .. L
    BY <2>1, <1>4
  <2>2. CASE i = L + 1
    BY <2>2, <1>2
  <2>3. QED
    BY <1>5, <2>1, <2>2
<1>7. c = 0 => SettledBut(r, L + 1)
  <2> SUFFICES ASSUME c = 0, NEW i \in 1 .. L + 1,
                      r[i].kind = "assistant", i # L + 1, NEW k \in 1 .. r[i].n
               PROVE  i + k <= L + 1 /\ r[i + k] = Msg("tool", r[i].uid, k)
    BY <1>2 DEF SettledBut
  <2>1. i \in 1 .. L /\ i # 0
    BY <1>1, <1>5
  <2>2. QED
    BY <1>4, <2>1
<1>8. QED
  BY <1>2, <1>3, <1>6, <1>7 DEF r

LEMMA WindowSettles ==
    ASSUME NEW h \in Seq(Message), NEW r, NEW p, NEW w, Window(r, h, p, w), SettledBut(h, 0),
           \A i \in 1 .. p : r[i].kind # "assistant"
    PROVE  SettledBut(r, 0)
<1>1. /\ Len(h) \in Nat /\ Len(r) \in Nat /\ p \in Nat /\ w \in Nat /\ w >= 1
      /\ Len(r) = p + Len(h) - w + 1
  BY LenProperties DEF Window
<1> SUFFICES ASSUME NEW i \in 1 .. Len(r), r[i].kind = "assistant", NEW k \in 1 .. r[i].n
             PROVE  i + k <= Len(r) /\ r[i + k] = Msg("tool", r[i].uid, k)
  BY DEF SettledBut
<1> DEFINE j == w + i - p - 1
<1>2. i > p
  BY <1>1
<1>3. r[i] = h[j] /\ j \in 1 .. Len(h)
  BY <1>1, <1>2 DEF Window
<1>4. k \in Nat /\ k >= 1
  BY <1>3, ElementOfSeq DEF Message
<1>a. j # 0 /\ h[j].kind = "assistant" /\ k \in 1 .. h[j].n /\ h[j].uid = r[i].uid
  BY <1>1, <1>3
<1>b. j = w + i - p - 1
  OBVIOUS
<1> HIDE DEF j
<1>5. j + k <= Len(h) /\ h[j + k] = Msg("tool", r[i].uid, k)
  BY <1>3, <1>a, Zenon DEF SettledBut
<1>c. j + k <= Len(h) /\ i \in Nat /\ j \in Nat
  BY <1>1, <1>3, <1>5
<1>d. i + k = j + k + p + 1 - w
  BY <1>1, <1>4, <1>b, <1>c
<1>6. i + k \in p + 1 .. Len(r) /\ w + (i + k) - p - 1 = j + k
  BY <1>1, <1>2, <1>4, <1>b, <1>c, <1>d
<1>7. r[i + k] = h[j + k]
  BY <1>6 DEF Window
<1>8. QED
  BY <1>1, <1>4, <1>5, <1>6, <1>7


LEMMA MiddleOutSettles ==
    ASSUME NEW U, NEW h, WellFormed(h, U), SettledBut(h, 0), Rooted(h), Len(h) >= 2, NEW keep \in Nat \ {0}
    PROVE  /\ SettledBut(middle_out(h, keep), 0) /\ Rooted(middle_out(h, keep))
           /\ Len(middle_out(h, keep)) >= 2
<1>1. h \in Seq(Message) /\ Len(h) \in Nat /\ h[1].kind = "system" /\ h[2].kind = "user"
  BY LenProperties DEF WellFormed, Rooted
<1>2. CASE Len(h) <= 2 + keep
  BY <1>2 DEF middle_out
<1>3. CASE Len(h) > 2 + keep
  <2> DEFINE r == middle_out(h, keep)
             w == WindowStart(h, Len(h) - keep + 1)
  <2>1. Window(r, h, 3, w) /\ r[1] = h[1] /\ r[2] = h[2] /\ r[3] = Summary
    BY <1>3, MiddleOutWindow
  <2> HIDE DEF r, w
  <2>2. Len(r) >= 3
    BY <1>1, <2>1 DEF Window
  <2>3. \A i \in 1 .. 3 : r[i].kind # "assistant"
    <3>1. \A i \in 1 .. 3 : i = 1 \/ i = 2 \/ i = 3
      OBVIOUS
    <3>2. QED
      BY <1>1, <2>1, <3>1, SystemType
  <2>4. SettledBut(r, 0)
    BY <1>1, <2>1, <2>3, WindowSettles
  <2>5. Len(r) \in Nat
    BY <2>1, LenProperties DEF Window
  <2>6. Rooted(r) /\ Len(r) >= 2
    BY <1>1, <2>1, <2>2, <2>5 DEF Rooted
  <2>7. QED
    BY <2>4, <2>6 DEF r
<1>4. QED
  BY <1>1, <1>2, <1>3

(* What is saved at the end of a turn is settled when the history is. *)
LEMMA SavedIsSettled ==
    ASSUME SettledIInv, TypeOK, GoOn \/ EndTurn, SettledBut(messages', 0), Rooted(messages')
    PROVE  /\ \A s \in SessionId : SettledBut(sessions'[s], 0) /\ Rooted(sessions'[s])
           /\ pc' # "tools" /\ Pending' = 0
<1>1. sessions' = sessions \/ sessions' = [sessions EXCEPT !["telegram_active"] = messages']
  BY DEF GoOn, EndTurn, save_session
<1>2. sessions \in [SessionId -> History]
  BY DEF TypeOK
<1>3. \A s \in SessionId : sessions'[s] = sessions[s] \/ sessions'[s] = messages'
  BY <1>1, <1>2
<1>4. pc' # "tools"
  BY DEF GoOn, EndTurn
<1>5. QED
  BY <1>3, <1>4 DEF SettledIInv, Pending

LEMMA TextAnswerSettles ==
    ASSUME HistoryIInv, SettledIInv, NEW k \in {"assistant", "error", "failed"}, TextAnswer(k)
    PROVE  SettledBut(messages', 0) /\ Rooted(messages') /\ Len(messages') >= 2
<1> DEFINE failed == k = "failed"
           m == Msg(k, fresh, 0)
           x == Msg("user", fresh + 1, 0)
           heard == IF failed THEN messages ELSE Append(messages, m)
<1>1. /\ messages \in Seq(Message) /\ Len(messages) \in Nat /\ fresh \in Nat
      /\ SettledBut(messages, 0) /\ Rooted(messages) /\ Len(messages) >= 2
  BY LenProperties DEF HistoryIInv, Formed, WellFormed, TypeOK, Calling, SettledIInv, Pending, TextAnswer
<1>2. ~failed => m \in Message /\ m.n = 0
  BY <1>1 DEF Msg, Message, Kind
<1>3. x \in Message /\ x.n = 0
  BY <1>1 DEF Msg, Message, Kind
<1>4. 0 \in 0 .. Len(messages)
  BY <1>1
<1>5. messages' = heard \/ messages' = Append(heard, x)
  BY DEF TextAnswer
<1> HIDE DEF failed, m, x
<1>6. /\ heard \in Seq(Message) /\ SettledBut(heard, 0) /\ Rooted(heard) /\ Len(heard) >= 2
  <2>1. CASE failed
    BY <1>1, <2>1
  <2>2. CASE ~failed
    <3>1. /\ Append(messages, m) \in Seq(Message) /\ SettledBut(Append(messages, m), 0)
          /\ Rooted(Append(messages, m)) /\ Len(Append(messages, m)) = Len(messages) + 1
      BY <1>1, <1>2, <1>4, <2>2, AppendSettles, AppendProperties
    <3>2. QED
      BY <1>1, <2>2, <3>1
  <2>3. QED
    BY <2>1, <2>2
<1> HIDE DEF heard
<1>7. Len(heard) \in Nat /\ 0 \in 0 .. Len(heard)
  BY <1>6, LenProperties
<1>8. SettledBut(Append(heard, x), 0) /\ Rooted(Append(heard, x)) /\ Len(Append(heard, x)) >= 2
  BY <1>3, <1>6, <1>7, AppendSettles
<1>9. QED
  BY <1>5, <1>6, <1>8

LEMMA ToolResultSettles ==
    ASSUME HistoryIInv, SettledIInv, NEW did, ToolResult(did)
    PROVE  SettledIInv'
<1> DEFINE L == Len(messages)
           c == Pending
           m == Msg("tool", resp.uid, answered + 1)
           known == resp.uid \notin unrecorded
<1>1. /\ messages \in Seq(Message) /\ L \in Nat /\ answered \in Nat /\ pc = "tools"
      /\ L >= 2 /\ Rooted(messages) /\ SettledBut(messages, c) /\ resp.uid \in Nat
      /\ \A s \in SessionId : SettledBut(sessions[s], 0) /\ Rooted(sessions[s])
      /\ unrecorded' = unrecorded
  BY LenProperties DEF HistoryIInv, Formed, WellFormed, TypeOK, Calling, SettledIInv, ToolResult
<1>2. /\ answered + 2 <= L /\ answered < resp.n
      /\ known => Caller.kind = "assistant" /\ Caller.uid = resp.uid /\ Caller.n = resp.n
      /\ \A k \in 1 .. answered : messages[L - answered + k] = Msg("tool", resp.uid, k)
  BY <1>1 DEF HistoryIInv, Calling
<1>3. c \in 0 .. L /\ c = IF known THEN L - answered ELSE 0
  BY <1>1, <1>2 DEF Pending
<1>a. known => c \in 1 .. L /\ Caller = messages[c] /\ c + answered = L
  BY <1>1, <1>2, <1>3 DEF Caller
<1>6. m \in Message /\ m.kind = "tool"
  BY <1>1 DEF Msg, Message, Kind
<1>7. messages' = Append(messages, m)
  BY DEF ToolResult
<1>k. known <=> resp.uid \notin unrecorded
  OBVIOUS
<1>m. m = Msg("tool", resp.uid, answered + 1)
  OBVIOUS
<1> HIDE DEF c, m, known
<1>8. /\ SettledBut(messages', c) /\ Rooted(messages') /\ Len(messages') = L + 1
      /\ \A i \in 1 .. L : messages'[i] = messages[i]
      /\ messages'[L + 1] = m
  BY <1>1, <1>3, <1>6, <1>7, AppendSettles
<1>9. CASE LastCall
  <2>1. GoOn /\ resp.n = answered + 1
    BY <1>9 DEF ToolResult, LastCall
  <2>2. ASSUME known, NEW k \in 1 .. answered + 1
        PROVE  c + k <= L + 1 /\ messages'[c + k] = Msg("tool", resp.uid, k)
    <3>1. CASE k = answered + 1
      <4>1. c + k = L + 1
        BY <1>1, <1>a, <2>2, <3>1
      <4>2. QED
        BY <1>1, <1>8, <1>m, <3>1, <4>1
    <3>2. CASE k # answered + 1
      <4>1. k \in 1 .. answered /\ c + k \in 1 .. L /\ c + k = L - answered + k
        BY <1>1, <1>a, <2>2, <3>2
      <4>2. c + k <= L + 1
        BY <1>1, <4>1
      <4>3. QED
        BY <1>2, <1>8, <4>1, <4>2
    <3>3. QED
      BY <3>1, <3>2
  <2>4. SettledBut(messages', 0)
    <3> SUFFICES ASSUME NEW i \in 1 .. Len(messages'), messages'[i].kind = "assistant",
                        NEW k \in 1 .. messages'[i].n
                 PROVE  i + k <= Len(messages') /\ messages'[i + k] = Msg("tool", messages'[i].uid, k)
      BY DEF SettledBut
    <3>1. CASE i = c
      <4>1. known
        BY <1>3, <3>1
      <4>2. messages'[c] = Caller /\ Caller.n = answered + 1 /\ Caller.uid = resp.uid
        BY <1>2, <1>8, <1>a, <2>1, <4>1
      <4>3. QED
        BY <1>8, <2>2, <3>1, <4>1, <4>2
    <3>2. CASE i # c
      BY <1>8, <3>2 DEF SettledBut
    <3>3. QED
      BY <3>1, <3>2
  <2>5. /\ \A s \in SessionId : SettledBut(sessions'[s], 0) /\ Rooted(sessions'[s])
        /\ Pending' = 0
    BY <1>8, <2>1, <2>4, SavedIsSettled DEF HistoryIInv
  <2>6. QED
    BY <1>8, <2>4, <2>5 DEF SettledIInv
<1>10. CASE ~LastCall
  <2>1. answered' = answered + 1 /\ pc' = pc /\ sessions' = sessions /\ resp' = resp
    BY <1>10 DEF ToolResult
  <2>2. known => L + 1 - (answered + 1) = c
    BY <1>1, <1>a
  <2>3. Pending' = c
    BY <1>1, <1>3, <1>8, <1>k, <2>1, <2>2 DEF Pending
  <2>4. QED
    BY <1>1, <1>8, <2>1, <2>3 DEF SettledIInv
<1>11. QED
  BY <1>9, <1>10

(* Neither /compact nor /rollback, which may cut between a call and its    *)
(* results, is used.                                                       *)
NoCuts == Commands \cap {"compact", "rollback"} = {}

LEMMA SettledStep ==
    ASSUME NoCuts, HistoryIInv, HistoryIInv', SettledIInv, [Next]_vars
    PROVE  SettledIInv'
<1>0. /\ messages \in Seq(Message) /\ WellFormed(messages, unrecorded) /\ Len(messages) \in Nat
      /\ fresh \in Nat /\ 0 \in 0 .. Len(messages) /\ TypeOK
  BY LenProperties, SMTT(30) DEF HistoryIInv, Formed, WellFormed, TypeOK
<1>a. sessions \in [SessionId -> History]
  BY <1>0 DEF TypeOK
<1>b. pc # "tools" => SettledBut(messages, 0)
  BY DEF SettledIInv, Pending
<1>c. /\ Rooted(messages) /\ \A s \in SessionId : SettledBut(sessions[s], 0) /\ Rooted(sessions[s])
      /\ pc # "idle" => Len(messages) >= 2
  BY DEF SettledIInv, HistoryIInv, Calling
<1>d. \A k \in Kind : Msg(k, fresh, 0) \in Message /\ Msg(k, fresh, 0).n = 0
                      /\ Msg(k, fresh, 0).kind = k
  BY <1>0 DEF Msg, Message
<1>1. CASE AutoSave
  <2>1. messages' = messages /\ pc = "save" /\ pc' = "compact"
    BY <1>1 DEF AutoSave
  <2>2. sessions' = sessions \/ sessions' = [sessions EXCEPT !["auto_current"] = messages]
    BY <1>1 DEF AutoSave, save_session
  <2>3. \A s \in SessionId : sessions'[s] = sessions[s] \/ sessions'[s] = messages
    BY <1>a, <2>2
  <2>4. QED
    BY <1>b, <1>c, <2>1, <2>3 DEF SettledIInv, Pending
<1>2. CASE AutoCompact
  <2>1. pc = "compact" /\ pc' = "asked" /\ sessions' = sessions
    BY <1>2 DEF AutoCompact
  <2>2. AutoWindow \in Nat \ {0} /\ (messages' = messages \/ messages' = middle_out(messages, AutoWindow))
    BY <1>2, AutoCompactShape
  <2>3. SettledBut(messages', 0) /\ Rooted(messages') /\ Len(messages') >= 2
    <3>1. SettledBut(messages, 0) /\ Rooted(messages) /\ Len(messages) >= 2
      BY <1>b, <1>c, <2>1
    <3> DEFINE keep == AutoWindow
    <3>2. keep \in Nat \ {0}
      BY <2>2
    <3> HIDE DEF keep
    <3>3. /\ SettledBut(middle_out(messages, keep), 0) /\ Rooted(middle_out(messages, keep))
          /\ Len(middle_out(messages, keep)) >= 2
      BY <1>0, <3>1, <3>2, MiddleOutSettles
    <3>4. QED
      BY <2>2, <3>1, <3>3 DEF keep
  <2>4. QED
    BY <1>c, <2>1, <2>3 DEF SettledIInv, Pending
<1>3. ASSUME NEW k \in {"assistant", "error", "failed"}, TextAnswer(k)
      PROVE  SettledIInv'
  <2>1. SettledBut(messages', 0) /\ Rooted(messages') /\ Len(messages') >= 2
    BY <1>3, TextAnswerSettles
  <2>2. GoOn \/ EndTurn
    BY <1>3 DEF TextAnswer
  <2>3. QED
    BY <1>0, <2>1, <2>2, SavedIsSettled DEF SettledIInv
<1>4. ASSUME NEW n \in 1 .. MaxCalls, NEW recorded \in BOOLEAN, CallTools(n, recorded)
      PROVE  SettledIInv'
  <2> DEFINE m == Msg("assistant", fresh, n)
  <2>1. m \in Message
    BY <1>0, HistoryAssumption DEF Msg, Message, Kind
  <2>2. /\ pc' = "tools" /\ answered' = 0 /\ sessions' = sessions /\ pc = "asked"
        /\ resp'.uid = fresh /\ \A u \in unrecorded : u \in Nat /\ u < fresh
    BY <1>4 DEF CallTools, HistoryIInv, Calling, TypeOK
  <2> HIDE DEF m
  <2>3. SettledBut(messages, 0) /\ Len(messages) >= 2
    BY <1>b, <1>c, <2>2
  <2>4. CASE recorded
    <3>1. messages' = Append(messages, m) /\ unrecorded' = unrecorded
      BY <1>4, <2>4 DEF CallTools, m
    <3>2. /\ SettledBut(messages', Len(messages) + 1) /\ Rooted(messages')
          /\ Len(messages') = Len(messages) + 1
      BY <1>0, <1>c, <2>1, <2>3, <3>1, AppendSettles
    <3>3. Pending' = Len(messages) + 1
      BY <1>0, <2>2, <3>1, <3>2 DEF Pending
    <3>4. QED
      BY <1>0, <1>c, <2>2, <3>2, <3>3 DEF SettledIInv
  <2>5. CASE ~recorded
    <3>1. messages' = messages /\ unrecorded' = unrecorded \cup {fresh}
      BY <1>4, <2>5 DEF CallTools
    <3>2. Pending' = 0
      BY <2>2, <3>1 DEF Pending
    <3>3. QED
      BY <1>c, <2>2, <2>3, <3>1, <3>2 DEF SettledIInv
  <2>6. QED
    BY <2>4, <2>5
<1>5. ASSUME NEW did, ToolResult(did)
      PROVE  SettledIInv'
  BY <1>5, ToolResultSettles
<1>6. CASE ForceText
  <2>1. messages' = Append(messages, Msg("user", fresh, 0)) /\ pc = "force" /\ pc' = "forced"
        /\ sessions' = sessions
    BY <1>6 DEF ForceText
  <2>2. Msg("user", fresh, 0) \in Message /\ Msg("user", fresh, 0).n = 0
    BY <1>d DEF Kind
  <2>3. SettledBut(messages', 0) /\ Rooted(messages') /\ Len(messages') = Len(messages) + 1
    BY <1>0, <1>b, <1>c, <2>1, <2>2, AppendSettles
  <2>4. QED
    BY <1>0, <1>c, <2>1, <2>3 DEF SettledIInv, Pending
<1>7. ASSUME NEW k \in {"assistant", "error"}, ForcedAnswer(k)
      PROVE  SettledIInv'
  <2>1. messages' = Append(messages, Msg(k, fresh, 0)) /\ pc = "forced" /\ EndTurn
    BY <1>7 DEF ForcedAnswer
  <2>2. Msg(k, fresh, 0) \in Message /\ Msg(k, fresh, 0).n = 0
    BY <1>d DEF Kind
  <2>3. SettledBut(messages', 0) /\ Rooted(messages') /\ Len(messages') = Len(messages) + 1
    BY <1>0, <1>b, <1>c, <2>1, <2>2, AppendSettles
  <2>4. Len(messages') >= 2
    BY <1>0, <1>c, <2>1, <2>3
  <2>5. QED
    BY <1>0, <2>1, <2>3, <2>4, SavedIsSettled DEF SettledIInv
<1>8. CASE UserTurn
  <2> DEFINE m == Msg("user", fresh, 0)
  <2>1. messages' = Append(messages, m) /\ pc = "idle" /\ pc' = "save" /\ sessions' = sessions
    BY <1>8 DEF UserTurn
  <2>2. m \in Message /\ m.n = 0 /\ m.kind = "user"
    BY <1>d DEF Kind
  <2> HIDE DEF m
  <2>3. /\ SettledBut(messages', 0) /\ Len(messages') = Len(messages) + 1
        /\ (Len(messages) >= 2 => Rooted(messages'))
        /\ messages'[Len(messages) + 1] = m
    BY <1>0, <1>b, <1>c, <2>1, <2>2, AppendSettles
  <2>4. Len(messages) >= 1
    BY <1>0, EmptySeq DEF HistoryIInv, Formed
  <2>5. Len(messages) = 1 => Rooted(messages')
    BY <2>2, <2>3 DEF Rooted
  <2>a. Len(messages') >= 2 /\ (Len(messages) = 1 \/ Len(messages) >= 2)
    <3>1. \A x \in Nat : x >= 1 => x + 1 >= 2 /\ (x = 1 \/ x >= 2)
      OBVIOUS
    <3>2. Len(messages) \in Nat /\ Len(messages') = Len(messages) + 1
      BY <1>0, <2>3
    <3>3. QED
      BY <2>4, <3>1, <3>2, Zenon
  <2>6. Rooted(messages')
    BY <2>3, <2>5, <2>a
  <2>7. QED
    BY <1>c, <2>1, <2>3, <2>6, <2>a DEF SettledIInv, Pending
<1>9. CASE clear_history
  <2> DEFINE r == <<messages[1]>>
  <2>1. messages' = r /\ pc = "idle" /\ pc' = "idle"
    BY <1>9 DEF clear_history, Command, idleVars
  <2>2. Len(messages) >= 1
    BY <1>0, EmptySeq DEF HistoryIInv, Formed
  <2>3. messages[1].kind = "system"
    BY <1>0, <2>2 DEF WellFormed
  <2>4. Len(r) = 1 /\ r[1] = messages[1]
    OBVIOUS
  <2>5. sessions' = sessions \/ sessions' = [sessions EXCEPT !["telegram_active"] = r]
    BY <1>9, <2>1 DEF clear_history, save_session
  <2> HIDE DEF r
  <2>6. \A i \in 1 .. 1 : i = 1
    OBVIOUS
  <2>7. SettledBut(r, 0) /\ Rooted(r)
    BY <2>3, <2>4, <2>6 DEF SettledBut, Rooted
  <2>8. \A s \in SessionId : sessions'[s] = sessions[s] \/ sessions'[s] = r
    BY <1>a, <2>5
  <2>9. QED
    BY <1>c, <2>1, <2>7, <2>8 DEF SettledIInv, Pending
<1>10. CASE save
  <2>1. messages' = messages /\ pc = "idle" /\ pc' = "idle"
        /\ sessions' = [sessions EXCEPT !["named"] = messages]
    BY <1>10 DEF save, save_session, Command, idleVars
  <2>2. \A s \in SessionId : sessions'[s] = sessions[s] \/ sessions'[s] = messages
    BY <1>a, <2>1
  <2>3. QED
    BY <1>b, <1>c, <2>1, <2>2 DEF SettledIInv, Pending
<1>11. ASSUME NEW s \in SessionId, resume(s)
       PROVE  SettledIInv'
  <2>1. messages' = sessions[s] /\ pc = "idle" /\ pc' = "idle" /\ sessions' = sessions
    BY <1>11 DEF resume, Command, idleVars
  <2>2. QED
    BY <1>c, <2>1 DEF SettledIInv, Pending
<1>12. CASE create_checkpoint
  <2>1. messages' = messages /\ pc = "idle" /\ pc' = "idle" /\ sessions' = sessions
    BY <1>12 DEF create_checkpoint, Command, idleVars
  <2>2. QED
    BY <1>b, <1>c, <2>1 DEF SettledIInv, Pending
<1>13. ASSUME NEW f \in FrontEnd, NEW s \in SessionId \cup {"none"}, Restart(f, s)
       PROVE  SettledIInv'
  <2>1. messages' = <<System>> \/ \E x \in SessionId : messages' = sessions[x]
    BY <1>13 DEF Restart, SessionId
  <2>2. pc' = "idle" /\ sessions' = sessions
    BY <1>13 DEF Restart, dbVars
  <2>3. QED
    BY <1>c, <2>1, <2>2, FirstIsSettled DEF SettledIInv, Pending
<1>14. CASE UNCHANGED vars
  <2>1. Pending' = Pending /\ messages' = messages /\ sessions' = sessions /\ pc' = pc
    BY <1>14 DEF vars, Pending
  <2>2. QED
    BY <2>1 DEF SettledIInv
<1>15. (\A keep \in Keeps : ~compact(keep)) /\ (\A c \in DOMAIN checkpoints : ~rollback(c))
  BY DEF NoCuts, compact, rollback, Command
<1>16. QED
  BY <1>1, <1>2, <1>3, <1>4, <1>5, <1>6, <1>7, <1>8, <1>9, <1>10, <1>11, <1>12, <1>13,
     <1>14, <1>15 DEF Next, Turn

(* Unless the user cuts the history, each tool call of a request, and of   *)
(* every saved session, has exactly its own result behind it: refusals     *)
(* answer too, and neither automatic compaction nor a save or a crash in   *)
(* mid turn separates them.                                                *)
THEOREM RequestsAreSettled ==
    ASSUME NoCuts
    PROVE  Spec => []CallsAreAnswered
<1>1. Init => SettledIInv
  <2> SUFFICES ASSUME Init PROVE SettledIInv
    OBVIOUS
  <2>1. /\ messages = <<System>> /\ pc = "idle" /\ sessions = [s \in SessionId |-> <<>>]
    BY DEF Init
  <2>2. QED
    BY <2>1, FirstIsSettled DEF SettledIInv, Pending
<1>2. HistoryIInv /\ HistoryIInv' /\ SettledIInv /\ [Next]_vars => SettledIInv'
  BY SettledStep
<1>3. HistoryIInv /\ SettledIInv => CallsAreAnswered
  <2> SUFFICES ASSUME HistoryIInv, SettledIInv PROVE CallsAreAnswered
    OBVIOUS
  <2>1. messages \in Seq(Message) /\ \A s \in SessionId : sessions[s] \in Seq(Message)
    BY DEF HistoryIInv, Formed, WellFormed
  <2>2. QED
    BY <2>1, SettledButNone DEF SettledIInv, Pending, CallsAreAnswered
<1>4. QED
  BY <1>1, <1>2, <1>3, HistoryInvariant, PTL DEF Spec

(* Unless the user cuts the history, what the bot holds between two turns  *)
(* is on disk: a crash takes no finished turn with it.                     *)
THEOREM IdleBotIsRestorable ==
    ASSUME NoCuts
    PROVE  Spec => []IdleIsRestorable
<1>1. Init => IdleIsRestorable
  BY DEF Init, IdleIsRestorable
<1>2. HistoryIInv /\ IdleIsRestorable /\ [Next]_vars => IdleIsRestorable'
  <2> SUFFICES ASSUME HistoryIInv, IdleIsRestorable, [Next]_vars,
                      front' = "telegram", pc' = "idle", messages' # <<System>>
               PROVE  \E s \in SessionId : messages' = sessions'[s]
    BY DEF IdleIsRestorable
  <2>0. sessions \in [SessionId -> History]
    BY DEF HistoryIInv, TypeOK
  <2>a. "telegram_active" \in SessionId /\ "named" \in SessionId
    BY DEF SessionId
  <2>1. EndTurn /\ front' = front => \E s \in SessionId : messages' = sessions'[s]
    <3>1. EndTurn /\ front' = front => sessions' = [sessions EXCEPT !["telegram_active"] = messages']
      BY DEF EndTurn, save_session
    <3>2. QED
      BY <2>0, <2>a, <3>1
  <2>2. GoOn /\ front' = front => FALSE
    BY DEF GoOn
  <2>3. ASSUME NEW k \in {"assistant", "error", "failed"}, TextAnswer(k)
        PROVE  \E s \in SessionId : messages' = sessions'[s]
    <3>1. (GoOn \/ EndTurn) /\ front' = front
      BY <2>3 DEF TextAnswer
    <3>2. QED
      BY <2>1, <2>2, <3>1
  <2>4. ASSUME NEW did, ToolResult(did)
        PROVE  \E s \in SessionId : messages' = sessions'[s]
    <3>1. (GoOn \/ pc' = "tools") /\ front' = front
      BY <2>4 DEF ToolResult
    <3>2. QED
      BY <2>2, <3>1
  <2>5. ASSUME NEW k \in {"assistant", "error"}, ForcedAnswer(k)
        PROVE  \E s \in SessionId : messages' = sessions'[s]
    BY <2>1, <2>5 DEF ForcedAnswer
  <2>6. CASE clear_history
    <3>1. sessions' = [sessions EXCEPT !["telegram_active"] = messages']
      BY <2>6 DEF clear_history, idleVars, save_session
    <3>2. QED
      BY <2>0, <2>a, <3>1
  <2>7. CASE save
    <3>1. sessions' = [sessions EXCEPT !["named"] = messages] /\ messages' = messages
      BY <2>7 DEF save, save_session
    <3>2. QED
      BY <2>0, <2>a, <3>1
  <2>8. ASSUME NEW s \in SessionId, resume(s)
        PROVE  \E x \in SessionId : messages' = sessions'[x]
    BY <2>8 DEF resume
  <2>9. CASE create_checkpoint
    BY <2>9 DEF create_checkpoint, idleVars, IdleIsRestorable
  <2>10. ASSUME NEW f \in FrontEnd, NEW s \in SessionId \cup {"none"}, Restart(f, s)
         PROVE  \E x \in SessionId : messages' = sessions'[x]
    BY <2>10, <2>a DEF Restart, dbVars
  <2>11. CASE UNCHANGED vars
    BY <2>11 DEF vars, IdleIsRestorable
  <2>12. (\A keep \in Keeps : ~compact(keep)) /\ (\A c \in DOMAIN checkpoints : ~rollback(c))
    BY DEF NoCuts, compact, rollback, Command
  <2>13. ~AutoSave /\ ~AutoCompact /\ (\A n \in 1 .. MaxCalls, recorded \in BOOLEAN : ~CallTools(n, recorded)) /\ ~ForceText /\ ~UserTurn
    BY DEF AutoSave, AutoCompact, CallTools, ForceText, UserTurn
  <2>14. QED
    BY <2>3, <2>4, <2>5, <2>6, <2>7, <2>8, <2>9, <2>10, <2>11, <2>12, <2>13 DEF Next, Turn
<1>3. QED
  BY <1>1, <1>2, HistoryInvariant, PTL DEF Spec


=============================================================================
