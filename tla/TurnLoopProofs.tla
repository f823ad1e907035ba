---------------------------- MODULE TurnLoopProofs ----------------------------
(***************************************************************************)
(* The guards of a turn, for every set of calls, every ring of at least    *)
(* nine cells and turns of any length.                                     *)
(*                                                                         *)
(* First the loop detector on its own: belya_harness_detect_loop answers   *)
(* what its definition asks, since the ring holds the newest calls of the  *)
(* turn, newest first from the head, and nine of them are enough for three *)
(* cycles of three.  Then the turn: the breaker trips exactly when it      *)
(* should, and who modified files without looking was sent back.           *)
(***************************************************************************)
EXTENDS TurnLoop, TLAPS

(* % within two laps. *)
LEMMA ModOneLap ==
    ASSUME NEW N \in Nat \ {0}, NEW a \in Nat
    PROVE  /\ a < N => a % N = a
           /\ N <= a /\ a < N + N => a % N = a - N
  OBVIOUS

LEMMA RingIsLargeEnough == Size \in Nat /\ Size >= 9 /\ 0 \notin Actions
  BY DetectorAssumption

(* The cell that holds the call made i calls ago. *)
LEMMA AgoCell ==
    ASSUME NEW h \in Cell, NEW i \in 0 .. Size - 1
    PROVE  (h - 1 - i + Size) % Size
              = IF i < h THEN h - 1 - i ELSE h - 1 - i + Size
<1> DEFINE a == h - 1 - i + Size
<1>1. a \in Nat /\ Size \in Nat \ {0} /\ a < Size + Size
  BY RingIsLargeEnough DEF Cell
<1>2. (i < h <=> Size <= a) /\ (a < Size \/ Size <= a)
  BY RingIsLargeEnough DEF Cell
<1> HIDE DEF a
<1>3. a % Size = IF Size <= a THEN a - Size ELSE a
  BY <1>1, <1>2, ModOneLap
<1>4. a - Size = h - 1 - i
  BY RingIsLargeEnough DEF a, Cell
<1>5. QED
  BY <1>2, <1>3, <1>4 DEF a

(* The head moves to the next cell, or from the last one to the first. *)
LEMMA HeadMoves ==
    ASSUME DetectorTypeOK
    PROVE  NextHead = (IF head + 1 < Size THEN head + 1 ELSE 0) /\ NextHead \in Cell
<1> DEFINE a == head + 1
           r == IF a < Size THEN a ELSE 0
<1>1. /\ a \in Nat /\ Size \in Nat \ {0} /\ a < Size + Size
      /\ a < Size \/ (Size <= a /\ a - Size = 0)
      /\ r \in 0 .. Size - 1
  BY RingIsLargeEnough DEF DetectorTypeOK, Cell
<1>2. NextHead = a % Size
  BY DEF NextHead
<1> HIDE DEF a
<1>3. a % Size = r
  BY <1>1, ModOneLap
<1>4. NextHead = r /\ NextHead \in Cell
  <2> HIDE DEF r
  <2>1. QED
    BY <1>1, <1>2, <1>3 DEF Cell
<1>5. QED
  BY <1>4 DEF a

(* The type invariant of the detector: the head stays inside the ring and  *)
(* the count never exceeds it, in turns of any length.                     *)
LEMMA DetectorTypeStep ==
    ASSUME DetectorTypeOK,
           (\E a \in Actions : Record(a)) \/ Reset \/ UNCHANGED detectorVars
    PROVE  DetectorTypeOK'
<1>1. CASE \E a \in Actions : Record(a)
  BY <1>1, HeadMoves, RingIsLargeEnough DEF DetectorTypeOK, Record, Cell
<1>2. CASE Reset
  BY <1>2, RingIsLargeEnough DEF DetectorTypeOK, Reset, Cell
<1>3. CASE UNCHANGED detectorVars
  BY <1>3 DEF DetectorTypeOK, detectorVars, Cell
<1>4. QED
  BY <1>1, <1>2, <1>3

(* What the ring holds: all calls of the turn, or the newest Size of them, *)
(* at the distance from the head at which detect_loop looks for them.      *)
RingHoldsCalls ==
    /\ count = IF Len(calls) < Size THEN Len(calls) ELSE Size
    /\ \A i \in 0 .. count - 1 : Ago(i) = calls[Len(calls) - i]

DetectorInv == DetectorTypeOK /\ RingHoldsCalls

(* Recording a call moves every earlier one a place further away; only the *)
(* one that is Size calls old is lost.                                     *)
LEMMA RecordShifts ==
    ASSUME DetectorInv, NEW a \in Actions, Record(a)
    PROVE  /\ Ago(0)' = a
           /\ \A i \in 0 .. Size - 2 : Ago(i + 1)' = Ago(i)
<1>1. head \in Cell /\ head' \in Cell /\ Size \in Nat /\ Size >= 9
      /\ head' = IF head + 1 < Size THEN head + 1 ELSE 0
  BY HeadMoves, RingIsLargeEnough DEF DetectorInv, Record, DetectorTypeOK
<1>2. history' = [history EXCEPT ![head] = a] /\ DOMAIN history = Cell
  BY DEF Record, DetectorInv, DetectorTypeOK
<1>3. Ago(0)' = a
  <2>1. 0 \in 0 .. Size - 1
    BY <1>1
  <2>2. (head' - 1 - 0 + Size) % Size
          = IF 0 < head' THEN head' - 1 - 0 ELSE head' - 1 - 0 + Size
    BY <1>1, <2>1, AgoCell
  <2>3. (head' - 1 - 0 + Size) % Size = head
    BY <1>1, <2>2 DEF Cell
  <2>4. QED
    BY <1>1, <1>2, <2>3 DEF Ago
<1>4. ASSUME NEW i \in 0 .. Size - 2 PROVE Ago(i + 1)' = Ago(i)
  <2>1. i \in 0 .. Size - 1 /\ i + 1 \in 0 .. Size - 1
    BY <1>1
  <2>2. (head - 1 - i + Size) % Size = IF i < head THEN head - 1 - i ELSE head - 1 - i + Size
    BY <1>1, <2>1, AgoCell
  <2>3. (head' - 1 - (i + 1) + Size) % Size
          = IF i + 1 < head' THEN head' - 1 - (i + 1) ELSE head' - 1 - (i + 1) + Size
    BY <1>1, <2>1, AgoCell
  <2>4. /\ (head' - 1 - (i + 1) + Size) % Size = (head - 1 - i + Size) % Size
        /\ (head - 1 - i + Size) % Size \in Cell \ {head}
    BY <1>1, <2>1, <2>2, <2>3 DEF Cell
  <2>5. QED
    BY <1>2, <2>4 DEF Ago
<1>5. QED
  BY <1>3, <1>4

(* The ring goes on holding the calls of the turn. *)
LEMMA DetectorStep ==
    ASSUME DetectorInv,
           (\E a \in Actions : Record(a)) \/ Reset \/ UNCHANGED detectorVars
    PROVE  DetectorInv'
<1>1. ASSUME NEW a \in Actions, Record(a) PROVE RingHoldsCalls'
  <2>1. calls \in Seq(Actions) /\ calls' = Append(calls, a) /\ Len(calls) \in Nat
        /\ Len(calls') = Len(calls) + 1
    BY <1>1 DEF DetectorInv, DetectorTypeOK, Record
  <2>2. /\ count' = IF Len(calls') < Size THEN Len(calls') ELSE Size
        /\ count' \in Nat /\ count' <= Size /\ count' - 1 <= count
        /\ count \in Nat /\ count <= Len(calls)
    BY <1>1, <2>1, RingIsLargeEnough DEF Record, DetectorInv, RingHoldsCalls
  <2>3. Ago(0)' = calls'[Len(calls')]
    BY <1>1, <2>1, RecordShifts
  <2>4. ASSUME NEW i \in 1 .. count' - 1 PROVE Ago(i)' = calls'[Len(calls') - i]
    <3> DEFINE j == i - 1
    <3>1. j \in 0 .. Size - 2 /\ j \in 0 .. count - 1 /\ j + 1 = i
      BY <2>2, RingIsLargeEnough
    <3>2. Ago(j + 1)' = Ago(j)
      BY <1>1, <3>1, RecordShifts
    <3>3. Ago(j) = calls[Len(calls) - j]
      BY <3>1 DEF DetectorInv, RingHoldsCalls
    <3>4. Len(calls) - j \in 1 .. Len(calls) /\ Len(calls') - i = Len(calls) - j
      BY <2>1, <2>2, <3>1
    <3>5. calls'[Len(calls) - j] = calls[Len(calls) - j]
      BY <2>1, <3>4
    <3>6. QED
      BY <3>1, <3>2, <3>3, <3>4, <3>5
  <2>5. QED
    BY <2>1, <2>2, <2>3, <2>4 DEF RingHoldsCalls
<1>2. ASSUME Reset PROVE RingHoldsCalls'
  BY <1>2, RingIsLargeEnough DEF Reset, RingHoldsCalls
<1>3. ASSUME UNCHANGED detectorVars PROVE RingHoldsCalls'
  BY <1>3 DEF DetectorInv, RingHoldsCalls, Ago, detectorVars
<1>4. QED
  BY <1>1, <1>2, <1>3, DetectorTypeStep DEF DetectorInv

LEMMA DetectorStarts == DetectorInit => DetectorInv
<1>1. DetectorInit => DetectorTypeOK
  BY RingIsLargeEnough DEF DetectorInit, DetectorTypeOK, Cell
<1>2. DetectorInit => RingHoldsCalls
  BY RingIsLargeEnough DEF DetectorInit, RingHoldsCalls
<1>3. QED
  BY <1>1, <1>2 DEF DetectorInv

(* The detector on its own: its type and the inductive invariant hold in   *)
(* every turn.                                                             *)
THEOREM DetectorInvariant == DetectorSpec => []DetectorInv
<1>1. DetectorInv /\ [DetectorNext]_detectorVars => DetectorInv'
  BY DetectorStep DEF DetectorNext, detectorVars
<1>2. QED
  BY <1>1, DetectorStarts, PTL DEF DetectorSpec

(* The type invariant of the loop detector. *)
THEOREM DetectorTypeCorrect == DetectorSpec => []DetectorTypeOK
  BY DetectorInvariant, PTL DEF DetectorInv

(* A cycle found in the ring is a repetition in the turn, and conversely. *)
LEMMA CycleIsRepetition ==
    ASSUME DetectorInv, NEW k \in 1 .. 3
    PROVE  Cycle(k) <=> Repeats(calls, k)
<1> DEFINE n == Len(calls)
<1>1. n \in Nat /\ Size \in Nat /\ Size >= 9 /\ 3 * k <= 9 /\ 3 * k \in Nat
  BY RingIsLargeEnough DEF DetectorInv, DetectorTypeOK
<1>2. count = IF n < Size THEN n ELSE Size
  BY DEF DetectorInv, RingHoldsCalls
<1>3. count >= 3 * k <=> n >= 3 * k
  BY <1>1, <1>2
<1>4. ASSUME n >= 3 * k, NEW i \in 0 .. 3 * k - 1 PROVE Ago(i) = calls[n - i]
  <2>1. i \in 0 .. count - 1
    BY <1>1, <1>2, <1>4
  <2>2. QED
    BY <2>1 DEF DetectorInv, RingHoldsCalls
<1>5. ASSUME Cycle(k) PROVE Repeats(calls, k)
  <2>1. n >= 3 * k
    BY <1>3, <1>5 DEF Cycle
  <2>2. ASSUME NEW j \in n - 2 * k + 1 .. n PROVE calls[j] = calls[j - k]
    <3>1. CASE j > n - k
      <4> DEFINE i == n - j
      <4>1. i \in 0 .. k - 1 /\ i \in 0 .. 3 * k - 1 /\ i + k \in 0 .. 3 * k - 1
            /\ n - i = j /\ n - (i + k) = j - k
        BY <1>1, <3>1
      <4>2. Ago(i) = calls[n - i] /\ Ago(i + k) = calls[n - (i + k)]
        BY <1>4, <2>1, <4>1
      <4>3. Ago(i) = Ago(i + k)
        BY <1>5, <4>1 DEF Cycle
      <4>4. QED
        BY <4>1, <4>2, <4>3
    <3>2. CASE ~(j > n - k)
      <4> DEFINE i == n - j - k
      <4>1. i \in 0 .. k - 1 /\ i + k \in 0 .. 3 * k - 1 /\ i + 2 * k \in 0 .. 3 * k - 1
            /\ n - (i + k) = j /\ n - (i + 2 * k) = j - k
        BY <1>1, <3>2
      <4>2. Ago(i + k) = calls[n - (i + k)] /\ Ago(i + 2 * k) = calls[n - (i + 2 * k)]
        BY <1>4, <2>1, <4>1
      <4>3. Ago(i + k) = Ago(i + 2 * k)
        BY <1>5, <4>1 DEF Cycle
      <4>4. QED
        BY <4>1, <4>2, <4>3
    <3>3. QED
      BY <3>1, <3>2
  <2>3. QED
    BY <2>1, <2>2 DEF Repeats
<1>6. ASSUME Repeats(calls, k) PROVE Cycle(k)
  <2>1. n >= 3 * k
    BY <1>6 DEF Repeats
  <2>2. ASSUME NEW i \in 0 .. k - 1
        PROVE  Ago(i) = Ago(i + k) /\ Ago(i) = Ago(i + 2 * k)
    <3>1. /\ {i, i + k, i + 2 * k} \subseteq 0 .. 3 * k - 1
          /\ {n - i, n - (i + k)} \subseteq n - 2 * k + 1 .. n
          /\ (n - i) - k = n - (i + k) /\ (n - (i + k)) - k = n - (i + 2 * k)
      BY <1>1
    <3>2. calls[n - i] = calls[n - (i + k)] /\ calls[n - (i + k)] = calls[n - (i + 2 * k)]
      BY <1>6, <3>1 DEF Repeats
    <3>3. /\ Ago(i) = calls[n - i] /\ Ago(i + k) = calls[n - (i + k)]
          /\ Ago(i + 2 * k) = calls[n - (i + 2 * k)]
      BY <1>4, <2>1, <3>1
    <3>4. QED
      BY <3>2, <3>3
  <2>3. QED
    BY <1>3, <2>1, <2>2 DEF Cycle
<1>7. QED
  BY <1>5, <1>6

(* detect_loop reports exactly the repetitions of the turn, the shortest   *)
(* first.                                                                  *)
THEOREM DetectorIsExact == DetectorSpec => []DetectsExactly
<1>1. DetectorInv => DetectsExactly
  <2> SUFFICES ASSUME DetectorInv PROVE DetectsExactly
    OBVIOUS
  <2>1. /\ Cycle(1) <=> Repeats(calls, 1)
        /\ Cycle(2) <=> Repeats(calls, 2)
        /\ Cycle(3) <=> Repeats(calls, 3)
    BY CycleIsRepetition
  <2>2. /\ detect_loop \in 0 .. 3
        /\ detect_loop = 1 <=> Cycle(1)
        /\ detect_loop = 2 <=> ~Cycle(1) /\ Cycle(2)
        /\ detect_loop = 3 <=> ~Cycle(1) /\ ~Cycle(2) /\ Cycle(3)
    BY DEF detect_loop
  <2>3. ASSUME NEW k \in 1 .. 3
        PROVE  detect_loop = k <=>
                  Repeats(calls, k) /\ \A j \in 1 .. k - 1 : ~Repeats(calls, j)
    <3>1. CASE k = 1
      BY <2>1, <2>2, <3>1
    <3>2. CASE k = 2
      BY <2>1, <2>2, <3>2
    <3>3. CASE k = 3
      BY <2>1, <2>2, <3>3
    <3>4. QED
      BY <3>1, <3>2, <3>3
  <2>4. QED
    BY <2>2, <2>3 DEF DetectsExactly
<1>2. QED
  BY <1>1, DetectorInvariant, PTL
-----------------------------------------------------------------------------
(* The turn.                                                               *)

(* detect_loop is positive exactly when one to three calls were made three *)
(* times over.                                                             *)
LEMMA DetectsSome ==
    DetectorInv => (detect_loop > 0 <=> \E k \in 1 .. 3 : Repeats(calls, k))
<1> SUFFICES ASSUME DetectorInv
             PROVE  detect_loop > 0 <=> \E k \in 1 .. 3 : Repeats(calls, k)
  OBVIOUS
<1>1. /\ Cycle(1) <=> Repeats(calls, 1)
      /\ Cycle(2) <=> Repeats(calls, 2)
      /\ Cycle(3) <=> Repeats(calls, 3)
  BY CycleIsRepetition
<1>2. detect_loop > 0 <=> Cycle(1) \/ Cycle(2) \/ Cycle(3)
  BY DEF detect_loop
<1>3. (\E k \in 1 .. 3 : Repeats(calls, k))
        <=> Repeats(calls, 1) \/ Repeats(calls, 2) \/ Repeats(calls, 3)
  <2>1. 1 .. 3 = {1, 2, 3}
    OBVIOUS
  <2>2. QED
    BY <2>1, Zenon
<1>4. QED
  BY <1>1, <1>2, <1>3

(* A turn is in its tools only with a call left to do, and has concluded   *)
(* only between turns.                                                     *)
Placed == /\ pc = "tools" => todo > 0
          /\ ended = "concluded" => pc = "idle"

(* Call i failed, and failed like the one before it. *)
Failed(i)    == ~outcomes[i]
FailsLike(i) == i > 1 /\ Failed(i) /\ Failed(i - 1) /\ Prefix[calls[i - 1]] = Prefix[calls[i]]

(* Until the breaker trips, the prefix and the counter say how the last    *)
(* calls of the turn failed.  (When it trips the counter starts again, the *)
(* prefix stays.)                                                          *)
StreakIsTrue ==
    LET n == Len(calls)
    IN  /\ Len(outcomes) = n
        /\ ~loop_breaker_tripped =>
             /\ (n = 0 \/ outcomes[n]) => last_failed = NoPrefix /\ failures = 0
             /\ n > 0 /\ ~outcomes[n] =>
                  /\ last_failed = Prefix[calls[n]]
                  /\ failures = IF FailsLike(n) THEN 2 ELSE 1

(* The flags of the guard say what the calls of the turn were. *)
FlagsAreTrue ==
    /\ files_modified <=> \E i \in 1 .. Len(calls) : calls[i] \in Edits
    /\ verification_performed <=> \E i \in 1 .. Len(calls) : calls[i] \in Verifies
    /\ guard_tripped <=> sent # <<>>

TurnIInv == /\ TurnInv /\ DetectorInv /\ StreakIsTrue /\ Placed
            /\ FlagsAreTrue /\ SentBackWhenDue

(* What the breaker is to be tripped by, at call i. *)
Trips(i) == (\E k \in 1 .. 3 : Repeats(SubSeq(calls, 1, i), k)) \/ FailsThrice(i)

(* A call adds its own reason to trip, or none, to those of the calls      *)
(* before it.                                                              *)
LEMMA ReasonsStay ==
    ASSUME TypeOK, Len(outcomes) = Len(calls), NEW a \in Actions, NEW ok \in BOOLEAN,
           calls' = Append(calls, a), outcomes' = Append(outcomes, ok)
    PROVE  /\ \A i \in DOMAIN calls : Trips(i)' <=> Trips(i)
           /\ DOMAIN calls' = DOMAIN calls \cup {Len(calls) + 1}
           /\ SubSeq(calls', 1, Len(calls) + 1) = calls'
<1> DEFINE n == Len(calls)
<1>1. calls \in Seq(Actions) /\ outcomes \in Seq(BOOLEAN) /\ n \in Nat
      /\ DOMAIN calls = 1 .. n /\ DOMAIN outcomes = 1 .. n
  BY DEF TypeOK, DetectorTypeOK
<1>2. calls' \in Seq(Actions) /\ Len(calls') = n + 1 /\ DOMAIN calls' = 1 .. n + 1
      /\ \A j \in 1 .. n : calls'[j] = calls[j] /\ outcomes'[j] = outcomes[j]
  BY <1>1
<1>3. ASSUME NEW i \in DOMAIN calls PROVE Trips(i)' <=> Trips(i)
  <2>1. SubSeq(calls', 1, i) = SubSeq(calls, 1, i)
    <3>1. i \in 1 .. n
      BY <1>1
    <3>2. \A j \in 1 .. i : calls'[j] = calls[j]
      BY <1>1, <1>2, <3>1
    <3>3. SubSeq(calls', 1, i) = [j \in 1 .. i |-> calls'[j]]
          /\ SubSeq(calls, 1, i) = [j \in 1 .. i |-> calls[j]]
      BY <1>1, <1>2, <3>1
    <3>4. QED
      BY <3>2, <3>3
  <2>2. FailsThrice(i)' <=> FailsThrice(i)
    BY <1>1, <1>2 DEF FailsThrice
  <2>3. QED
    BY <2>1, <2>2 DEF Trips, Repeats
<1>4. SubSeq(calls', 1, n + 1) = calls'
  BY <1>2
<1>5. QED
  BY <1>1, <1>2, <1>3, <1>4

(* The breaker and the counter after a call. *)
LEMMA RecordIsExact ==
    ASSUME TurnIInv, NEW a \in Actions, NEW ok \in BOOLEAN, record_tool_observation(a, ok)
    PROVE  DetectorInv' /\ StreakIsTrue' /\ BreakerIsExact' /\ failures' \in 0 .. 2
<1> DEFINE trips == detect_loop' > 0 \/ (~ok /\ Streak(a) >= 3)
<1>0. PICK n \in Nat : n = Len(calls)
  BY DEF TurnIInv, TurnInv, TypeOK, DetectorTypeOK
<1>1. /\ Record(a) /\ calls' = Append(calls, a) /\ outcomes' = Append(outcomes, ok)
      /\ last_failed' = IF ok THEN NoPrefix ELSE Prefix[a]
      /\ failures' = IF ok \/ trips THEN 0 ELSE Streak(a)
      /\ loop_breaker_tripped' = (loop_breaker_tripped \/ trips)
  BY DEF record_tool_observation, Record
<1>2. /\ TypeOK /\ DetectorInv /\ BreakerIsExact /\ StreakIsTrue /\ Len(outcomes) = n
      /\ Prefix[a] # NoPrefix
  BY <1>0, TurnAssumption DEF TurnIInv, TurnInv, StreakIsTrue
<1>3. DetectorInv'
  BY <1>1, <1>2, DetectorStep
<1>4. /\ calls \in Seq(Actions) /\ outcomes \in Seq(BOOLEAN) /\ n \in Nat /\ failures \in 0 .. 2
      /\ loop_breaker_tripped \in BOOLEAN
      /\ DOMAIN calls = 1 .. n
  BY <1>0, <1>2 DEF TypeOK, DetectorTypeOK
<1>5. /\ Len(calls') = n + 1 /\ Len(outcomes') = n + 1
      /\ calls'[n + 1] = a /\ outcomes'[n + 1] = ok
      /\ \A j \in 1 .. n : calls'[j] = calls[j] /\ outcomes'[j] = outcomes[j]
  BY <1>0, <1>1, <1>2, <1>4
<1>6. Streak(a) \in 1 .. 3 /\ failures' \in 0 .. 2
  BY <1>1, <1>4 DEF Streak
<1> HIDE DEF trips
<1>7. ASSUME ~loop_breaker_tripped, ~ok
      PROVE  /\ Streak(a) >= 2 <=> FailsLike(n + 1)'
             /\ Streak(a) >= 3 <=> FailsThrice(n + 1)'
  <2>1. CASE n = 0
    BY <1>0, <1>2, <1>4, <1>5, <1>7, <2>1 DEF StreakIsTrue, Streak, FailsLike, FailsThrice, Failed
  <2>2. CASE n > 0 /\ outcomes[n]
    BY <1>0, <1>2, <1>4, <1>5, <1>7, <2>2 DEF StreakIsTrue, Streak, FailsLike, FailsThrice, Failed
  <2>3. CASE n > 0 /\ ~outcomes[n] /\ Prefix[calls[n]] # Prefix[a]
    BY <1>0, <1>2, <1>4, <1>5, <1>7, <2>3 DEF StreakIsTrue, Streak, FailsLike, FailsThrice, Failed
  <2>4. CASE n > 0 /\ ~outcomes[n] /\ Prefix[calls[n]] = Prefix[a]
    <3>1. Streak(a) = failures + 1 /\ failures = IF FailsLike(n) THEN 2 ELSE 1
      BY <1>0, <1>2, <1>7, <2>4 DEF StreakIsTrue, Streak
    <3>2. FailsLike(n + 1)'
      BY <1>4, <1>5, <1>7, <2>4 DEF FailsLike, Failed
    <3>3. FailsThrice(n + 1)' <=> FailsLike(n)
      <4>1. CASE n = 1
        BY <1>4, <1>5, <4>1 DEF FailsThrice, FailsLike
      <4>2. CASE n > 1
        <5>1. (n + 1) - 2 .. n + 1 = {n - 1, n, n + 1} /\ n - 1 \in 1 .. n /\ n \in 1 .. n
          BY <1>4, <4>2
        <5>2. QED
          BY <1>4, <1>5, <1>7, <2>4, <4>2, <5>1, SMTT(30) DEF FailsThrice, FailsLike, Failed
      <4>3. QED
        BY <1>4, <2>4, <4>1, <4>2
    <3>4. QED
      BY <3>1, <3>2, <3>3
  <2>5. QED
    BY <1>4, <2>1, <2>2, <2>3, <2>4
<1>8. ASSUME ok PROVE ~FailsThrice(n + 1)'
  <2>1. n + 1 \in (n + 1) - 2 .. n + 1
    OBVIOUS
  <2>2. QED
    BY <1>5, <1>8, <2>1 DEF FailsThrice
<1>9. StreakIsTrue'
  <2>1. CASE ok
    BY <1>1, <1>4, <1>5, <2>1 DEF StreakIsTrue
  <2>2. CASE ~ok /\ ~loop_breaker_tripped'
    <3>1. ~loop_breaker_tripped /\ ~trips /\ failures' = Streak(a)
      BY <1>1, <2>2
    <3>2. Streak(a) = IF FailsLike(n + 1)' THEN 2 ELSE 1
      BY <1>6, <1>7, <2>2, <3>1 DEF trips
    <3>3. QED
      BY <1>1, <1>4, <1>5, <2>2, <3>1, <3>2 DEF StreakIsTrue
  <2>3. CASE loop_breaker_tripped'
    BY <1>5, <2>3 DEF StreakIsTrue
  <2>4. QED
    BY <2>1, <2>2, <2>3
<1>10. BreakerIsExact'
  <2>1. /\ \A i \in DOMAIN calls : Trips(i)' <=> Trips(i)
        /\ DOMAIN calls' = DOMAIN calls \cup {n + 1}
        /\ SubSeq(calls', 1, n + 1) = calls'
    BY <1>0, <1>1, <1>2, ReasonsStay
  <2>2. detect_loop' > 0 <=> \E k \in 1 .. 3 : Repeats(calls', k)
    <3>1. DetectorInv' => (detect_loop > 0
                            <=> \E k \in 1 .. 3 : Repeats(calls, k))'
      BY DetectsSome, PTL
    <3>2. QED
      BY <1>3, <3>1
  <2>3. ~loop_breaker_tripped => (trips <=> Trips(n + 1)')
    BY <1>7, <1>8, <2>1, <2>2 DEF trips, Trips
  <2>4. loop_breaker_tripped <=> \E i \in DOMAIN calls : Trips(i)
    BY <1>2 DEF BreakerIsExact, Trips
  <2>5. loop_breaker_tripped' <=> \E i \in DOMAIN calls' : Trips(i)'
    BY <1>1, <2>1, <2>3, <2>4
  <2>6. QED
    BY <2>5 DEF BreakerIsExact, Trips
<1>11. QED
  BY <1>3, <1>6, <1>9, <1>10

(* A step that makes no call leaves the guards of the calls alone. *)
LEMMA RecordUnchanged ==
    ASSUME TurnIInv, UNCHANGED recordVars
    PROVE  DetectorInv' /\ StreakIsTrue' /\ BreakerIsExact' /\ DetectorTypeOK'
<1>1. UNCHANGED <<history, head, count, calls, outcomes, last_failed, failures,
                  loop_breaker_tripped>>
  BY DEF recordVars
<1>2. DetectorInv' /\ DetectorTypeOK'
  BY <1>1, DetectorStep DEF TurnIInv, detectorVars, DetectorInv
<1>3. StreakIsTrue'
  BY <1>1 DEF TurnIInv, StreakIsTrue, FailsLike, Failed
<1>4. BreakerIsExact'
  BY <1>1, ZenonT(60) DEF TurnIInv, TurnInv, BreakerIsExact, FailsThrice, Repeats
<1>5. QED
  BY <1>2, <1>3, <1>4

LEMMA StepsAreEnough ==
    front \in FrontEnd => Steps[front] \in Nat /\ Steps[front] > 1
  BY TurnAssumption DEF FrontEnd

LEMMA GoOnPlaces ==
    ASSUME TypeOK, GoOn, UNCHANGED front
    PROVE  /\ pc' \in {"idle", "ask"} /\ ended' \in {"none", "budget"}
           /\ steps' \in 0 .. Steps[front]
  BY StepsAreEnough DEF TypeOK, GoOn

(* A turn that goes on without a call leaves the record of the guard be. *)
LEMMA GuardUnchanged ==
    ASSUME TurnIInv, UNCHANGED recordVars, UNCHANGED <<guard_tripped, sent>>
    PROVE  /\ FlagsAreTrue'
           /\ ended' # "concluded" \/ UNCHANGED <<ended, front, steps>> => SentBackWhenDue'
<1>1. UNCHANGED <<calls, files_modified, verification_performed>>
  BY DEF recordVars
<1>2. FlagsAreTrue'
  BY <1>1 DEF TurnIInv, FlagsAreTrue
<1>3. ASSUME NEW n \in Int PROVE Unverified(n)' <=> Unverified(n)
  BY <1>1 DEF Unverified
<1>4. Unverified(Len(calls))' <=> Unverified(Len(calls))
  BY <1>1 DEF Unverified
<1>5. \A i \in DOMAIN sent : sent[i] \in 1 .. Len(calls) /\ Unverified(sent[i])
  BY DEF TurnIInv, SentBackWhenDue
<1>6. \A i \in DOMAIN sent' : sent'[i] \in 1 .. Len(calls') /\ Unverified(sent[i])'
  BY <1>1, <1>5 DEF Unverified
<1>7. QED
  BY <1>1, <1>2, <1>4, <1>6 DEF TurnIInv, SentBackWhenDue

(* A recorded call is in the flags at once, and what the guard answered    *)
(* before it stays true of the calls there were then.                      *)
LEMMA GuardRecords ==
    ASSUME TurnIInv, NEW a \in Actions, NEW ok \in BOOLEAN,
           record_tool_observation(a, ok), UNCHANGED <<guard_tripped, sent>>
    PROVE  /\ FlagsAreTrue'
           /\ ended' # "concluded" => SentBackWhenDue'
<1>1. calls \in Seq(Actions) /\ calls' = Append(calls, a)
  BY DEF TurnIInv, TurnInv, TypeOK, DetectorTypeOK, record_tool_observation, Record
<1>2. /\ Len(calls) \in Nat /\ Len(calls') = Len(calls) + 1
      /\ calls'[Len(calls) + 1] = a
      /\ \A i \in 1 .. Len(calls) : calls'[i] = calls[i]
  BY <1>1
<1>3. /\ files_modified' <=> files_modified \/ a \in Edits
      /\ verification_performed' <=> verification_performed \/ a \in Verifies
  BY DEF record_tool_observation, TurnIInv, TurnInv, TypeOK
<1>4. FlagsAreTrue'
  BY <1>2, <1>3 DEF TurnIInv, FlagsAreTrue
<1>5. \A i \in DOMAIN sent : sent[i] \in 1 .. Len(calls) /\ Unverified(sent[i])
  BY DEF TurnIInv, SentBackWhenDue
<1>6. ASSUME NEW n \in 1 .. Len(calls), Unverified(n)
      PROVE  n \in 1 .. Len(calls') /\ Unverified(n)'
  <2>1. n \in 1 .. Len(calls') /\ 1 .. n \subseteq 1 .. Len(calls)
    BY <1>2, <1>6
  <2>2. Unverified(n)'
    BY <1>2, <1>6, <2>1 DEF Unverified
  <2>3. QED
    BY <2>1, <2>2
<1>7. \A i \in DOMAIN sent' : sent'[i] \in 1 .. Len(calls') /\ Unverified(sent[i])'
  BY <1>5, <1>6
<1>8. QED
  BY <1>4, <1>7 DEF TurnIInv, SentBackWhenDue

(* The inductive invariant holds in every turn. *)
THEOREM TurnInvariant == Spec => []TurnIInv
<1>1. Init => TurnIInv
  <2> SUFFICES ASSUME Init PROVE TurnIInv
    OBVIOUS
  <2>1. DetectorInv /\ DetectorTypeOK /\ calls = <<>>
    BY DetectorStarts DEF Init, DetectorInv, DetectorInit
  <2>2. TypeOK
    <3>1. outcomes \in Seq(BOOLEAN) /\ last_failed \in {Prefix[a] : a \in Actions} \cup {NoPrefix}
      BY DEF Init
    <3>2. failures \in 0 .. 2 /\ steps \in 0 .. Steps[front] /\ todo \in 0 .. MaxPar
      BY StepsAreEnough, TurnAssumption DEF Init
    <3>3. sent \in Seq(Nat)
      BY DEF Init
    <3>4. QED
      BY <2>1, <3>1, <3>2, <3>3 DEF Init, TypeOK
  <2>3. BreakerIsExact /\ StreakIsTrue
    BY <2>1 DEF Init, BreakerIsExact, StreakIsTrue
  <2>4. Placed /\ FlagsAreTrue /\ SentBackWhenDue
    BY <2>1 DEF Init, Placed, FlagsAreTrue, SentBackWhenDue, Unverified
  <2>5. QED
    BY <2>1, <2>2, <2>3, <2>4 DEF TurnIInv, TurnInv
<1>2. TurnIInv /\ [Next]_vars => TurnIInv'
  <2> SUFFICES ASSUME TurnIInv, [Next]_vars PROVE TurnIInv'
    OBVIOUS
  <2>1. /\ TypeOK /\ BreakerIsExact /\ DetectorInv /\ StreakIsTrue /\ Placed
        /\ FlagsAreTrue /\ SentBackWhenDue
    BY DEF TurnIInv, TurnInv
  <2>2. CASE StartTurn
    <3>1. DetectorInv' /\ DetectorTypeOK' /\ calls' = <<>> /\ outcomes' = <<>>
      BY <2>1, <2>2, DetectorStep DEF StartTurn, DetectorInv, Reset
    <3>2. TypeOK'
      <4>1. /\ outcomes' \in Seq(BOOLEAN) /\ failures' \in 0 .. 2
            /\ last_failed' \in {Prefix[a] : a \in Actions} \cup {NoPrefix}
        BY <2>2 DEF StartTurn
      <4>2. steps' \in 0 .. Steps[front] /\ UNCHANGED <<front, todo>>
        BY <2>1, <2>2, StepsAreEnough DEF StartTurn, TypeOK
      <4>3. sent' \in Seq(Nat)
        BY <2>2 DEF StartTurn
      <4>4. QED
        BY <2>1, <2>2, <3>1, <4>1, <4>2, <4>3 DEF TypeOK, StartTurn
    <3>3. BreakerIsExact' /\ StreakIsTrue'
      BY <2>2, <3>1 DEF StartTurn, BreakerIsExact, StreakIsTrue
    <3>4. Placed' /\ FlagsAreTrue' /\ SentBackWhenDue'
      BY <2>2, <3>1 DEF StartTurn, Placed, FlagsAreTrue, SentBackWhenDue, Unverified
    <3>5. QED
      BY <3>1, <3>2, <3>3, <3>4 DEF TurnIInv, TurnInv
  <2>3. CASE AnswerText
    <3>1. DetectorInv' /\ StreakIsTrue' /\ BreakerIsExact' /\ DetectorTypeOK'
      BY <2>3, RecordUnchanged DEF AnswerText
    <3>2. CASE GuardIsDue
      <4>1. /\ guard_tripped' = TRUE /\ sent' = Append(sent, Len(calls)) /\ GoOn
            /\ UNCHANGED recordVars /\ UNCHANGED <<front, todo>>
        BY <2>3, <3>2 DEF AnswerText
      <4>2. /\ UNCHANGED <<calls, files_modified, verification_performed>>
            /\ calls \in Seq(Actions) /\ Len(calls) \in Nat /\ sent = <<>>
        BY <2>1, <3>2, <4>1 DEF recordVars, TypeOK, DetectorTypeOK, FlagsAreTrue, GuardIsDue
      <4>3. sent' = <<Len(calls)>> /\ sent' \in Seq(Nat)
        BY <4>1, <4>2
      <4>4. TypeOK'
        BY <2>1, <3>1, <4>1, <4>3, GoOnPlaces DEF TypeOK, recordVars
      <4>5. Placed' /\ ended' # "concluded"
        BY <2>1, <4>1, GoOnPlaces DEF Placed
      <4>6. Len(calls) \in 1 .. Len(calls) /\ Unverified(Len(calls))
        BY <2>1, <3>2, <4>2 DEF FlagsAreTrue, GuardIsDue, Unverified
      <4>7. SentBackWhenDue'
        <5>1. Len(sent') <= 1 /\ DOMAIN sent' = {1} /\ sent'[1] = Len(calls)
          BY <4>3
        <5>2. sent'[1] \in 1 .. Len(calls') /\ Unverified(sent[1])'
          BY <4>2, <4>6, <5>1 DEF Unverified
        <5>3. QED
          BY <4>5, <5>1, <5>2 DEF SentBackWhenDue
      <4>8. FlagsAreTrue'
        BY <2>1, <4>1, <4>2, <4>3 DEF FlagsAreTrue
      <4>9. QED
        BY <3>1, <4>4, <4>5, <4>7, <4>8 DEF TurnIInv, TurnInv
    <3>3. CASE ~GuardIsDue
      <4>1. /\ pc' = "idle" /\ ended' = "concluded"
            /\ UNCHANGED <<guard_tripped, sent, steps>>
            /\ UNCHANGED recordVars /\ UNCHANGED <<front, todo>>
        BY <2>3, <3>3 DEF AnswerText
      <4>2. TypeOK'
        BY <2>1, <3>1, <4>1 DEF TypeOK, recordVars
      <4>3. Placed'
        BY <4>1 DEF Placed
      <4>4. FlagsAreTrue' /\ UNCHANGED <<calls, sent, steps, front>>
        BY <4>1, GuardUnchanged DEF recordVars
      <4>5. Unverified(Len(calls)) => sent # <<>> \/ (front = "telegram" /\ steps <= 1)
        BY <2>1, <3>3 DEF FlagsAreTrue, GuardIsDue, Unverified, TypeOK
      <4>6. \A i \in DOMAIN sent' : sent'[i] \in 1 .. Len(calls') /\ Unverified(sent[i])'
        BY <2>1, <4>4 DEF SentBackWhenDue, Unverified
      <4>7. Unverified(Len(calls))' <=> Unverified(Len(calls))
        BY <4>4 DEF Unverified
      <4>8. SentBackWhenDue'
        BY <2>1, <4>4, <4>5, <4>6, <4>7 DEF SentBackWhenDue
      <4>9. QED
        BY <3>1, <4>2, <4>3, <4>4, <4>8 DEF TurnIInv, TurnInv
    <3>4. QED
      BY <3>2, <3>3
  <2>4. ASSUME NEW n \in 1 .. MaxPar, AnswerCalls(n) PROVE TurnIInv'
    <3>1. DetectorInv' /\ StreakIsTrue' /\ BreakerIsExact' /\ DetectorTypeOK'
      BY <2>4, RecordUnchanged DEF AnswerCalls
    <3>2. TypeOK'
      BY <2>1, <2>4, <3>1, TurnAssumption DEF TypeOK, AnswerCalls, recordVars
    <3>3. Placed' /\ FlagsAreTrue' /\ SentBackWhenDue'
      <4>1. Placed' /\ ended' # "concluded"
        BY <2>1, <2>4, TurnAssumption DEF Placed, AnswerCalls, TypeOK
      <4>2. QED
        BY <2>4, <4>1, GuardUnchanged DEF AnswerCalls
    <3>4. QED
      BY <3>1, <3>2, <3>3 DEF TurnIInv, TurnInv
  <2>5. ASSUME pc = "tools", CallDone, UNCHANGED front
        PROVE  /\ pc' \in {"idle", "ask", "tools"} /\ todo' \in 0 .. MaxPar
               /\ steps' \in 0 .. Steps[front] /\ ended' \in {"none", "budget"}
               /\ Placed'
    <3>1. todo \in 1 .. MaxPar /\ MaxPar \in Nat /\ ended \in {"none", "budget"}
      BY <2>1, <2>5, TurnAssumption DEF TypeOK, Placed
    <3>2. CASE todo = 1
      <4>1. GoOn /\ todo' = 0
        BY <2>5, <3>2 DEF CallDone
      <4>2. QED
        BY <2>1, <2>5, <3>1, <4>1, GoOnPlaces DEF Placed
    <3>3. CASE todo # 1
      <4>1. UNCHANGED <<pc, steps, ended>> /\ todo' = todo - 1
        BY <2>5, <3>3 DEF CallDone
      <4>2. todo' \in 1 .. MaxPar
        BY <3>1, <3>3, <4>1
      <4>3. QED
        BY <2>1, <2>5, <3>1, <4>1, <4>2 DEF Placed, TypeOK
    <3>4. QED
      BY <3>2, <3>3
  <2>6. CASE Refuse
    <3>1. DetectorInv' /\ StreakIsTrue' /\ BreakerIsExact' /\ DetectorTypeOK'
      BY <2>6, RecordUnchanged DEF Refuse
    <3>2. TypeOK' /\ Placed' /\ ended' # "concluded"
      BY <2>1, <2>5, <2>6, <3>1 DEF TypeOK, Refuse, recordVars
    <3>3. FlagsAreTrue' /\ SentBackWhenDue'
      BY <2>6, <3>2, GuardUnchanged DEF Refuse
    <3>4. QED
      BY <3>1, <3>2, <3>3 DEF TurnIInv, TurnInv
  <2>7. ASSUME NEW a \in Actions, NEW ok \in BOOLEAN, RunTool(a, ok) PROVE TurnIInv'
    <3>1. DetectorInv' /\ StreakIsTrue' /\ BreakerIsExact' /\ failures' \in 0 .. 2
      BY <2>7, RecordIsExact DEF RunTool
    <3>2. DetectorTypeOK'
      BY <3>1 DEF DetectorInv
    <3>3. /\ outcomes' \in Seq(BOOLEAN) /\ loop_breaker_tripped' \in BOOLEAN
          /\ last_failed' \in {Prefix[b] : b \in Actions} \cup {NoPrefix}
          /\ files_modified' \in BOOLEAN /\ verification_performed' \in BOOLEAN
      BY <2>1, <2>7 DEF TypeOK, RunTool, record_tool_observation
    <3>4. TypeOK' /\ Placed' /\ ended' # "concluded"
      BY <2>1, <2>5, <2>7, <3>1, <3>2, <3>3 DEF TypeOK, RunTool
    <3>5. FlagsAreTrue' /\ SentBackWhenDue'
      BY <2>7, <3>4, GuardRecords DEF RunTool
    <3>6. QED
      BY <3>1, <3>4, <3>5 DEF TurnIInv, TurnInv
  <2>8. CASE UNCHANGED vars
    <3>1. UNCHANGED recordVars
      BY <2>8 DEF vars, recordVars
    <3>2. DetectorInv' /\ StreakIsTrue' /\ BreakerIsExact' /\ DetectorTypeOK'
      BY <3>1, RecordUnchanged
    <3>3. TypeOK' /\ Placed'
      BY <2>1, <2>8, <3>2 DEF TypeOK, vars, Placed
    <3>4. FlagsAreTrue' /\ SentBackWhenDue'
      BY <2>8, <3>1, GuardUnchanged DEF vars
    <3>5. QED
      BY <3>2, <3>3, <3>4 DEF TurnIInv, TurnInv
  <2>9. QED
    BY <2>2, <2>3, <2>4, <2>6, <2>7, <2>8 DEF Next
<1>3. QED
  BY <1>1, <1>2, PTL DEF Spec

(* The guards of a turn stay of their type, and the breaker is exact: it   *)
(* has tripped if and only if some calls of the turn were made three times *)
(* over or failed three times in a row, in turns of any length.            *)
THEOREM BreakerTripsExactly == Spec => []TurnInv
  BY TurnInvariant, PTL DEF TurnIInv

(* A turn that the model concludes after an edit and without verification  *)
(* was sent back, but for Telegram's last step; no turn is sent back twice *)
(* or without an unverified edit among its calls.                          *)
THEOREM GuardSendsBack == Spec => []SentBackWhenDue
  BY TurnInvariant, PTL DEF TurnIInv

=============================================================================
