---------------------------- MODULE TaskRingProofs ----------------------------
(***************************************************************************)
(* The capture ring keeps exactly the newest bytes, for every ring size,   *)
(* every alphabet and any number of laps.                                  *)
(***************************************************************************)
EXTENDS TaskRing, SequenceTheorems, TLAPS

(* Positions in the ring never run more than one lap ahead of its start. *)
LEMMA ModOneLap ==
    ASSUME NEW N \in Nat \ {0}, NEW a \in Nat
    PROVE  /\ a < N => a % N = a
           /\ N <= a /\ a < N + N => a % N = a - N
           /\ a % N \in 0 .. N - 1
  OBVIOUS

(* A full lap comes back to where it started. *)
LEMMA ModLap ==
    ASSUME NEW N \in Nat \ {0}, NEW t \in 0 .. N - 1
    PROVE  (t + N) % N = t /\ t % N = t
  BY ModOneLap

(* A position less than a lap past t is t + i or one lap less. *)
LEMMA ModSum ==
    ASSUME NEW N \in Nat \ {0}, NEW t \in 0 .. N - 1, NEW i \in 0 .. N
    PROVE  (t + i) % N = IF t + i < N THEN t + i ELSE t + i - N
<1>1. CASE t + i < N
  <2>1. t + i \in 0 .. N - 1
    BY <1>1
  <2>2. (t + i) % N = t + i
    BY <2>1, ModLap
  <2>3. QED
    BY <1>1, <2>2
<1>2. CASE ~(t + i < N)
  <2> DEFINE r == t + i - N
  <2>1. r \in 0 .. N - 1 /\ r + N = t + i
    BY <1>2
  <2> HIDE DEF r
  <2>2. (r + N) % N = r
    BY <2>1, ModLap
  <2>3. QED
    BY <1>2, <2>1, <2>2 DEF r
<1>3. QED
  BY <1>1, <1>2

(* Moving one step round the ring, from either of two positions. *)
LEMMA ModStep ==
    ASSUME NEW N \in Nat \ {0}, NEW t \in 0 .. N - 1, NEW i \in 0 .. N - 1
    PROVE  /\ (((t + i) % N) + 1) % N = (t + (i + 1)) % N
           /\ (((t + 1) % N) + i) % N = (t + (i + 1)) % N
<1> DEFINE p == (t + i) % N
           q == (t + 1) % N
<1>1. p = IF t + i < N THEN t + i ELSE t + i - N
  <2>1. i \in 0 .. N
    OBVIOUS
  <2>2. QED
    BY <2>1, ModSum
<1>2. q = IF t + 1 < N THEN t + 1 ELSE 0
  <2>1. 1 \in 0 .. N /\ (~(t + 1 < N) => t + 1 - N = 0)
    OBVIOUS
  <2>2. q = IF t + 1 < N THEN t + 1 ELSE t + 1 - N
    BY <2>1, ModSum
  <2>3. QED
    BY <2>1, <2>2
<1>3. (t + (i + 1)) % N = IF t + (i + 1) < N THEN t + (i + 1) ELSE t + (i + 1) - N
  <2>1. i + 1 \in 0 .. N
    OBVIOUS
  <2>2. QED
    BY <2>1, ModSum
<1> HIDE DEF p, q
<1>4. p \in 0 .. N - 1 /\ q \in 0 .. N - 1 /\ 1 \in 0 .. N /\ i \in 0 .. N
  BY <1>1, <1>2
<1>5. (p + 1) % N = IF p + 1 < N THEN p + 1 ELSE p + 1 - N
  BY <1>4, ModSum
<1>6. (q + i) % N = IF q + i < N THEN q + i ELSE q + i - N
  BY <1>4, ModSum
<1>7. (p + 1) % N = (t + (i + 1)) % N
  BY <1>1, <1>3, <1>5
<1>8. (q + i) % N = (t + (i + 1)) % N
  BY <1>2, <1>3, <1>6
<1>9. QED
  BY <1>7, <1>8 DEF p, q

(* Distinct ages are held at distinct positions. *)
LEMMA ModDistinct ==
    ASSUME NEW N \in Nat \ {0}, NEW t \in 0 .. N - 1,
           NEW i \in 0 .. N - 1, NEW j \in 0 .. N - 1, i # j
    PROVE  (t + i) % N # (t + j) % N
<1>1. i \in 0 .. N /\ j \in 0 .. N
  OBVIOUS
<1>2. /\ (t + i) % N = IF t + i < N THEN t + i ELSE t + i - N
      /\ (t + j) % N = IF t + j < N THEN t + j ELSE t + j - N
  BY <1>1, ModSum
<1>3. QED
  BY <1>2


(* Chunks are non-empty sequences of bytes. *)
LEMMA ChunkType ==
    ASSUME NEW c \in Chunks
    PROVE  c \in Seq(Byte) /\ Len(c) \in Nat \ {0}
  BY RingAssumption DEF Chunks

(* The type invariant: head and tail stay inside the buffer and the count  *)
(* never exceeds it, whatever read() returned.                             *)
THEOREM RingTypeCorrect == Spec => []TypeOK
<1>1. Init => TypeOK
  BY RingAssumption DEF Init, TypeOK, Index
<1>2. TypeOK /\ [Next]_vars => TypeOK'
  <2> SUFFICES ASSUME TypeOK, [Next]_vars
               PROVE  TypeOK'
    OBVIOUS
  <2> USE RingAssumption DEF TypeOK, Index, ringVars
  <2>0. CASE vars' = vars
    BY <2>0 DEF vars
  <2>1. ASSUME NEW c \in Chunks, BeginWrite(c)
        PROVE  TypeOK'
    BY <2>1, ChunkType DEF BeginWrite
  <2>2. CASE PutByte
    <3>1. /\ (ring_head + 1) % RingSize \in Index
          /\ (ring_tail + 1) % RingSize \in Index
      BY ModOneLap
    <3>2. /\ Head(chunk) \in Byte
          /\ Tail(chunk) \in Seq(Byte)
          /\ Append(captured, Head(chunk)) \in Seq(Byte)
      BY <2>2 DEF PutByte
    <3>3. ring_count' \in 0 .. RingSize /\ ring_tail' \in Index
      BY <2>2, <3>1, SMTT(30) DEF PutByte
    <3>4. QED
      BY <2>2, <3>1, <3>2, <3>3 DEF PutByte
  <2>3. CASE EndWrite
    BY <2>3 DEF EndWrite
  <2>4. CASE Reset
    BY <2>4 DEF Reset
  <2>. QED
    BY <2>0, <2>1, <2>2, <2>3, <2>4 DEF Next
<1>. QED
  BY <1>1, <1>2, PTL DEF Spec

(* What makes the window inductive: the head is one count past the tail,   *)
(* the count is exact, the counter and the bytes in flight account for     *)
(* every byte, and each held position holds the byte of its age.           *)
HeadFollowsTail == ring_head = (ring_tail + ring_count) % RingSize

CountIsExact ==
    ring_count = IF Len(captured) < RingSize THEN Len(captured) ELSE RingSize

BytesAccounted == /\ total_bytes_captured + len = Len(captured) + Len(chunk)
                  /\ Len(chunk) <= len

HeldByAge ==
    \A i \in 0 .. ring_count - 1 :
        ring_buffer[(ring_tail + i) % RingSize]
            = captured[Len(captured) - ring_count + i + 1]

RingInv == /\ HeadFollowsTail
           /\ CountIsExact
           /\ BytesAccounted
           /\ HeldByAge

LEMMA RingInvInit == Init => RingInv
  BY RingAssumption
     DEF Init, RingInv, HeadFollowsTail, CountIsExact, BytesAccounted, HeldByAge

(* The loop body of ring_write keeps the invariant, before the ring is     *)
(* full and on every lap after that.                                       *)
LEMMA RingInvPutByte ==
    ASSUME TypeOK, RingInv, PutByte
    PROVE  RingInv'
<1> DEFINE n == Len(captured)
           b == Head(chunk)
<1>1. /\ RingSize \in Nat \ {0}
      /\ ring_buffer \in [0 .. RingSize - 1 -> Byte]
      /\ ring_head \in 0 .. RingSize - 1
      /\ ring_tail \in 0 .. RingSize - 1
      /\ ring_count \in 0 .. RingSize
      /\ total_bytes_captured \in Nat /\ len \in Nat
  BY RingAssumption DEF TypeOK, Index
<1>2. /\ n \in Nat
      /\ Len(captured') = n + 1
      /\ \A k \in 1 .. n : captured'[k] = captured[k]
      /\ captured'[n + 1] = b
      /\ Len(chunk) \in Nat
      /\ Len(chunk') = Len(chunk) - 1
  BY DEF PutByte, TypeOK
<1>3. /\ ring_head' = (ring_head + 1) % RingSize
      /\ ring_buffer' = [ring_buffer EXCEPT ![ring_head] = b]
      /\ total_bytes_captured' = total_bytes_captured
      /\ len' = len
  BY DEF PutByte
<1>4. /\ ring_head = (ring_tail + ring_count) % RingSize
      /\ ring_count = IF n < RingSize THEN n ELSE RingSize
      /\ total_bytes_captured + len = n + Len(chunk)
      /\ Len(chunk) <= len
  BY DEF RingInv, HeadFollowsTail, CountIsExact, BytesAccounted
<1>5. \A i \in 0 .. ring_count - 1 :
         ring_buffer[(ring_tail + i) % RingSize] = captured[n - ring_count + i + 1]
  BY DEF RingInv, HeldByAge
<1>6. BytesAccounted'
  <2>1. total_bytes_captured + len = (n + 1) + (Len(chunk) - 1) /\ Len(chunk) - 1 <= len
    BY <1>1, <1>2, <1>4, SMTT(30)
  <2>2. QED
    BY <1>2, <1>3, <2>1 DEF BytesAccounted
<1>7. CASE ring_count < RingSize
  <2>1. ring_count' = ring_count + 1 /\ ring_tail' = ring_tail
    BY <1>1, <1>7 DEF PutByte
  <2>2. ring_count = n /\ ring_count \in 0 .. RingSize - 1
    BY <1>1, <1>2, <1>4, <1>7
  <2>3. CountIsExact'
    BY <1>1, <1>2, <2>1, <2>2 DEF CountIsExact
  <2>4. HeadFollowsTail'
    BY <1>1, <1>3, <1>4, <2>1, <2>2, ModStep DEF HeadFollowsTail
  <2>5. ASSUME NEW i \in 0 .. ring_count
        PROVE  ring_buffer'[(ring_tail + i) % RingSize] = captured'[i + 1]
    <3>1. CASE i = ring_count
      BY <1>1, <1>2, <1>3, <1>4, <2>2, <3>1
    <3>2. CASE i # ring_count
      <4>1. i \in 0 .. ring_count - 1 /\ i \in 0 .. RingSize - 1
        BY <1>1, <2>2, <3>2
      <4>2. (ring_tail + i) % RingSize # ring_head
        BY <1>1, <1>4, <2>2, <3>2, <4>1, ModDistinct
      <4>3. ring_buffer'[(ring_tail + i) % RingSize]
              = ring_buffer[(ring_tail + i) % RingSize]
        <5>1. ring_tail + i \in Nat
          BY <1>1, <4>1
        <5>2. (ring_tail + i) % RingSize \in 0 .. RingSize - 1
          BY <1>1, <5>1, ModOneLap
        <5>3. QED
          BY <1>1, <1>3, <4>2, <5>2
      <4>4. n - ring_count + i + 1 = i + 1 /\ i + 1 \in 1 .. n
        BY <1>2, <2>2, <4>1
      <4>5. QED
        BY <1>2, <1>5, <4>1, <4>3, <4>4
    <3>3. QED
      BY <3>1, <3>2
  <2>6. HeldByAge'
    <3>1. ring_count' - 1 = ring_count
      BY <2>1, <2>2, <1>1
    <3>2. ASSUME NEW i \in 0 .. ring_count
          PROVE  Len(captured') - ring_count' + i + 1 = i + 1
      BY <1>1, <1>2, <2>1, <2>2
    <3>3. QED
      BY <2>1, <2>5, <3>1, <3>2 DEF HeldByAge
  <2>7. QED
    BY <1>6, <2>3, <2>4, <2>6 DEF RingInv
<1>8. CASE ring_count = RingSize
  <2>1. /\ ring_count' = RingSize
        /\ ring_tail' = (ring_tail + 1) % RingSize
    BY <1>1, <1>8 DEF PutByte
  <2>2. ring_head = ring_tail /\ n >= RingSize
    <3>1. (ring_tail + RingSize) % RingSize = ring_tail
      BY <1>1, ModLap
    <3>2. ring_head = ring_tail
      BY <1>4, <1>8, <3>1
    <3>3. n >= RingSize
      BY <1>1, <1>2, <1>4, <1>8
    <3>4. QED
      BY <3>2, <3>3
  <2>3. CountIsExact'
    BY <1>1, <1>2, <2>1, <2>2 DEF CountIsExact
  <2>4. (ring_tail + 1) % RingSize \in 0 .. RingSize - 1
    <3>1. ring_tail + 1 \in Nat
      BY <1>1
    <3>2. QED
      BY <1>1, <3>1, ModOneLap
  <2>5. HeadFollowsTail'
    BY <1>1, <1>3, <2>1, <2>2, <2>4, ModLap DEF HeadFollowsTail
  <2>6. ASSUME NEW i \in 0 .. RingSize - 1
        PROVE  ring_buffer'[(((ring_tail + 1) % RingSize) + i) % RingSize]
                 = captured'[(n + 1) - RingSize + i + 1]
    <3>1. (((ring_tail + 1) % RingSize) + i) % RingSize = (ring_tail + (i + 1)) % RingSize
      BY <1>1, ModStep
    <3>2. CASE i = RingSize - 1
      <4>1. (ring_tail + (i + 1)) % RingSize = ring_head
        BY <1>1, <2>2, <3>2, ModLap
      <4>2. (n + 1) - RingSize + i + 1 = n + 1
        BY <1>1, <1>2, <3>2
      <4>3. QED
        BY <1>1, <1>2, <1>3, <3>1, <4>1, <4>2
    <3>3. CASE i # RingSize - 1
      <4>1. i + 1 \in 0 .. RingSize - 1 /\ i + 1 # 0 /\ 0 \in 0 .. RingSize - 1
        BY <1>1, <3>3
      <4>2. (ring_tail + 0) % RingSize = ring_head
        <5>1. ring_tail + 0 = ring_tail /\ ring_tail \in Nat /\ ring_tail < RingSize
          BY <1>1
        <5>2. QED
          BY <1>1, <2>2, <5>1, ModOneLap
      <4>3. (ring_tail + (i + 1)) % RingSize # ring_head
        BY <1>1, <4>1, <4>2, ModDistinct
      <4>4. ring_buffer'[(ring_tail + (i + 1)) % RingSize]
              = ring_buffer[(ring_tail + (i + 1)) % RingSize]
        <5>1. ring_tail + (i + 1) \in Nat
          BY <1>1, <4>1
        <5>2. (ring_tail + (i + 1)) % RingSize \in 0 .. RingSize - 1
          BY <1>1, <5>1, ModOneLap
        <5>3. QED
          BY <1>1, <1>3, <4>3, <5>2
      <4>5. ring_buffer[(ring_tail + (i + 1)) % RingSize]
              = captured[n - RingSize + (i + 1) + 1]
        BY <1>5, <1>8, <4>1
      <4>6. /\ n - RingSize + (i + 1) + 1 = (n + 1) - RingSize + i + 1
            /\ n - RingSize + (i + 1) + 1 \in 1 .. n
        BY <1>1, <1>2, <2>2, <4>1
      <4>7. QED
        BY <1>2, <3>1, <4>4, <4>5, <4>6
    <3>4. QED
      BY <3>2, <3>3
  <2>7. HeldByAge'
    BY <1>2, <2>1, <2>6 DEF HeldByAge
  <2>8. QED
    BY <1>6, <2>3, <2>5, <2>7 DEF RingInv
<1>9. QED
  BY <1>1, <1>7, <1>8

(* The invariant is inductive. *)
LEMMA RingInvStep == TypeOK /\ RingInv /\ [Next]_vars => RingInv'
<1> SUFFICES ASSUME TypeOK, RingInv, [Next]_vars
             PROVE  RingInv'
  OBVIOUS
<1>1. CASE PutByte
  BY <1>1, RingInvPutByte
<1>2. CASE Reset
  <2>1. chunk = <<>>
    BY <1>2 DEF Reset, TypeOK, RingInv, BytesAccounted
  <2>2. QED
    BY <1>2, <2>1, RingAssumption
       DEF Reset, RingInv, HeadFollowsTail, CountIsExact, BytesAccounted, HeldByAge
<1>3. CASE UNCHANGED <<ringVars, captured>>
  <2>1. HeadFollowsTail' /\ CountIsExact' /\ HeldByAge'
    BY <1>3 DEF RingInv, HeadFollowsTail, CountIsExact, HeldByAge, ringVars
  <2>2. /\ total_bytes_captured \in Nat /\ len \in Nat
        /\ Len(captured) \in Nat /\ Len(chunk) \in Nat
        /\ chunk = <<>> <=> Len(chunk) = 0
    BY DEF TypeOK
  <2>3. ASSUME NEW c \in Chunks, BeginWrite(c)
        PROVE  BytesAccounted'
    <3>1. Len(c) \in Nat
      BY <2>3, ChunkType
    <3>2. chunk' = c /\ len' = Len(c) /\ len = 0 /\ captured' = captured
          /\ total_bytes_captured' = total_bytes_captured
      BY <2>3 DEF BeginWrite
    <3>3. total_bytes_captured + len = Len(captured) + Len(chunk) /\ Len(chunk) <= len
      BY DEF RingInv, BytesAccounted
    <3>4. total_bytes_captured = Len(captured)
      BY <2>2, <3>2, <3>3
    <3>5. QED
      BY <2>2, <3>1, <3>2, <3>4 DEF BytesAccounted
  <2>4. ASSUME EndWrite
        PROVE  BytesAccounted'
    <3>1. /\ chunk' = chunk /\ len' = 0 /\ captured' = captured
          /\ total_bytes_captured' = total_bytes_captured + len
          /\ chunk = <<>>
      BY <2>4 DEF EndWrite
    <3>2. total_bytes_captured + len = Len(captured) + Len(chunk)
      BY DEF RingInv, BytesAccounted
    <3>3. QED
      BY <2>2, <3>1, <3>2 DEF BytesAccounted
  <2>5. CASE UNCHANGED vars
    BY <2>1, <2>5 DEF vars, RingInv, BytesAccounted
  <2>6. QED
    BY <1>1, <1>2, <2>1, <2>3, <2>4, <2>5 DEF Next, RingInv
<1>4. QED
  BY <1>1, <1>2, <1>3 DEF Next, BeginWrite, EndWrite, vars, ringVars

(* For every ring size and however the output is cut into reads, what      *)
(* belya_task_ring_read_all returns is the newest part of the output, in   *)
(* order and complete up to the capacity.                                  *)
THEOREM RingReadsNewestBytes == Spec => []ReadsNewestBytes
<1>1. TypeOK /\ RingInv => ReadsNewestBytes
  <2> SUFFICES ASSUME TypeOK, RingInv
               PROVE  ReadsNewestBytes
    OBVIOUS
  <2>1. ring_count \in Nat /\ ring_tail \in Nat
    BY RingAssumption DEF TypeOK, Index
  <2>2. ASSUME NEW i \in 1 .. ring_count
        PROVE  ring_read_all[i] = captured[Len(captured) - ring_count + i]
    <3>1. /\ i - 1 \in 0 .. ring_count - 1
          /\ ring_tail + (i - 1) = ring_tail + i - 1
      BY <2>1
    <3>2. Len(captured) - ring_count + (i - 1) + 1 = Len(captured) - ring_count + i
      BY <2>1 DEF TypeOK
    <3>3. ring_buffer[(ring_tail + (i - 1)) % RingSize]
             = captured[Len(captured) - ring_count + (i - 1) + 1]
      BY <3>1 DEF RingInv, HeldByAge
    <3>4. QED
      BY <3>1, <3>2, <3>3 DEF ring_read_all
  <2>3. QED
    BY <2>2 DEF ReadsNewestBytes, RingInv, CountIsExact
<1>2. QED
  BY <1>1, RingTypeCorrect, RingInvInit, RingInvStep, PTL DEF Spec

(* The byte counter shown to the user is exact whenever no write is in     *)
(* progress, across every reuse of the slot.                               *)
THEOREM RingTotalExact == Spec => []TotalCountsEveryByte
<1>1. TypeOK /\ RingInv => TotalCountsEveryByte
  BY DEF TypeOK, RingInv, BytesAccounted, TotalCountsEveryByte
<1>2. QED
  BY <1>1, RingTypeCorrect, RingInvInit, RingInvStep, PTL DEF Spec

(* Whatever the window held, the next byte enters it at the end and the    *)
(* oldest one leaves it when the ring is full.                             *)
LEMMA PutByteKeeps ==
    ASSUME TypeOK, TypeOK', ReadsNewestBytes, ReadsNewestBytes', PutByte
    PROVE  Window!Keep(Head(chunk))
<1> DEFINE N == RingSize
           b == Head(chunk)
           s == captured
           n == Len(s)
           t == captured'
           c == ring_count
           d == ring_count'
           v == ring_read_all
           w == ring_read_all'
           a == Append(v, b)
<1>1. N \in Nat \ {0} /\ c \in Nat /\ d \in Nat
  BY RingAssumption DEF TypeOK
<1>2. /\ s \in Seq(Byte) /\ b \in Byte
      /\ t = Append(s, b)
  BY DEF TypeOK, PutByte
<1>3. /\ n \in Nat /\ Len(t) = n + 1
      /\ \A i \in 1 .. n : t[i] = s[i] /\ s[i] \in Byte
      /\ t[n + 1] = b
  <2> HIDE DEF s, t, b
  <2> QED
    BY <1>2
<1>4. /\ c = IF n < N THEN n ELSE N
      /\ \A i \in 1 .. c : v[i] = s[n - c + i]
  BY DEF ReadsNewestBytes
<1>5. /\ d = IF Len(t) < N THEN Len(t) ELSE N
      /\ \A i \in 1 .. d : w[i] = t[Len(t) - d + i]
  BY DEF ReadsNewestBytes
<1>6. v = [i \in 1 .. c |-> v[i]] /\ w = [i \in 1 .. d |-> w[i]]
  BY DEF ring_read_all
<1>7. (w = IF Len(a) <= N THEN a ELSE [i \in 1 .. N |-> a[Len(a) - N + i]])
         => Window!Keep(b)
  BY DEF Window!Keep, Window!Newest
<1> HIDE DEF N, b, n, s, t, c, d, v, w
<1>8. \A i \in 1 .. c : n - c + i \in 1 .. n
  BY <1>1, <1>3, <1>4
<1>9. v \in [1 .. c -> Byte]
  BY <1>3, <1>4, <1>6, <1>8
<1>10. v \in Seq(Byte) /\ Len(v) = c
  BY <1>1, <1>9, SeqDef
<1>11. /\ a \in Seq(Byte) /\ Len(a) = c + 1
       /\ \A i \in 1 .. c : a[i] = v[i]
       /\ a[c + 1] = b
  BY <1>2, <1>10, AppendProperties
<1> HIDE DEF a
<1>12. a = [i \in 1 .. c + 1 |-> a[i]]
  BY <1>11, LenProperties
<1>13. CASE n < N
  <2>1. c = n /\ d = n + 1
    BY <1>1, <1>3, <1>4, <1>5, <1>13
  <2>2. ASSUME NEW i \in 1 .. n + 1
        PROVE  w[i] = a[i]
    <3>1. w[i] = t[i]
      <4>1. Len(t) - d + i = i
        BY <1>3, <2>1
      <4>2. QED
        BY <1>5, <2>1, <4>1
    <3>2. CASE i = n + 1
      BY <1>3, <1>11, <2>1, <3>1, <3>2
    <3>3. CASE i \in 1 .. n
      <4>1. n - c + i = i
        BY <1>3, <2>1
      <4>2. QED
        BY <1>3, <1>4, <1>11, <2>1, <3>1, <3>3, <4>1
    <3>4. QED
      BY <1>3, <3>2, <3>3
  <2>3. w = a
    BY <1>6, <1>12, <2>1, <2>2
  <2>4. Len(a) <= N
    BY <1>1, <1>3, <1>11, <1>13, <2>1
  <2>5. QED
    BY <1>7, <2>3, <2>4 DEF b
<1>14. CASE n >= N
  <2>1. c = N /\ d = N
    BY <1>1, <1>3, <1>4, <1>5, <1>14
  <2>2. ASSUME NEW i \in 1 .. N
        PROVE  w[i] = a[Len(a) - N + i]
    <3>1. Len(a) - N + i = i + 1 /\ Len(t) - d + i = n + 1 - N + i
      BY <1>1, <1>3, <1>11, <2>1
    <3>2. w[i] = t[n + 1 - N + i]
      BY <1>5, <2>1, <3>1
    <3>3. CASE i = N
      BY <1>1, <1>3, <1>11, <2>1, <3>1, <3>2, <3>3
    <3>4. CASE i \in 1 .. N - 1
      <4>1. n - N + (i + 1) = n + 1 - N + i /\ i + 1 \in 1 .. N
        BY <1>1, <1>3, <3>4
      <4>2. n + 1 - N + i \in 1 .. n
        BY <1>1, <1>3, <1>14, <3>4
      <4>3. t[n + 1 - N + i] = s[n + 1 - N + i]
        BY <1>3, <4>2
      <4>4. v[i + 1] = s[n + 1 - N + i] /\ a[i + 1] = v[i + 1]
        BY <1>4, <1>11, <2>1, <4>1
      <4>5. QED
        BY <3>1, <3>2, <4>3, <4>4
    <3>5. QED
      BY <1>1, <3>3, <3>4
  <2>3. w = [i \in 1 .. N |-> a[Len(a) - N + i]]
    BY <1>6, <2>1, <2>2
  <2>4. ~(Len(a) <= N)
    BY <1>1, <1>11, <2>1
  <2>5. QED
    BY <1>7, <2>3, <2>4 DEF b
<1>15. QED
  BY <1>1, <1>3, <1>13, <1>14

(* The ring refines the window of RingWindow: PutByte is a Keep, Reset is  *)
(* a Forget, and beginning or ending a write changes nothing of what       *)
(* belya_task_ring_read_all would return.                                  *)
THEOREM RingImplementsWindow == Spec => ImplementsWindow
<1>1. Init => Window!WInit
  BY DEF Init, ring_read_all, Window!WInit
<1>2. ASSUME TypeOK, TypeOK', ReadsNewestBytes, ReadsNewestBytes', [Next]_vars
      PROVE  [Window!WNext]_ring_read_all
  <2>1. ASSUME NEW c \in Chunks, BeginWrite(c)
        PROVE  UNCHANGED ring_read_all
    BY <2>1 DEF BeginWrite, ringVars, ring_read_all
  <2>2. CASE EndWrite
    BY <2>2 DEF EndWrite, ringVars, ring_read_all
  <2>3. CASE Reset
    BY <2>3 DEF Reset, ring_read_all, Window!WNext, Window!Forget
  <2>4. CASE PutByte
    <3>1. Head(chunk) \in Byte
      BY <1>2, <2>4 DEF PutByte, TypeOK
    <3>2. Window!Keep(Head(chunk))
      BY <1>2, <2>4, PutByteKeeps
    <3>3. QED
      BY <3>1, <3>2 DEF Window!WNext
  <2>5. CASE UNCHANGED vars
    BY <2>5 DEF vars, ring_read_all
  <2>6. QED
    BY <1>2, <2>1, <2>2, <2>3, <2>4, <2>5 DEF Next
<1>3. QED
  BY <1>1, <1>2, RingTypeCorrect, RingReadsNewestBytes, PTL
     DEF Spec, ImplementsWindow, Window!WSpec

=============================================================================
