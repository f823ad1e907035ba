------------------------------ MODULE LoopDetector ------------------------------
(***************************************************************************)
(* The loop detector of belya_harness.c: the ring of the hashes of the     *)
(* tool calls carried out in a turn, and belya_harness_detect_loop, which  *)
(* looks in it for a sequence of one to three calls made three times over. *)
(*                                                                         *)
(* An action stands for the hash of a tool's name and arguments; two calls *)
(* are the same when their hashes are.  0 is the zeroed record.            *)
(***************************************************************************)
EXTENDS Integers, Sequences

CONSTANTS Actions,    \* the calls the model can make
          Size,       \* HARNESS_ACTION_HISTORY_SIZE
          MaxCalls    \* bound of the model: calls recorded in one turn

ASSUME DetectorAssumption ==
    Size \in Nat /\ Size >= 9 /\ MaxCalls \in Nat /\ 0 \notin Actions

VARIABLES history, head, count,  \* loop_detector
          calls                  \* every call recorded in the turn, in order

detectorVars == <<history, head, count, calls>>

Cell == 0 .. Size - 1

DetectorInit == /\ history = [c \in Cell |-> 0]
        /\ head = 0 /\ count = 0 /\ calls = <<>>

(* Fault: the last cell is never used. *)
NextHead_OneShort == (head + 1) % (Size - 1)

NextHead == (head + 1) % Size

(* The recording half of belya_harness_record_tool_observation. *)
Record(a) ==
    /\ Len(calls) < MaxCalls
    /\ history' = [history EXCEPT ![head] = a]
    /\ head' = NextHead
    /\ count' = IF count < Size THEN count + 1 ELSE count
    /\ calls' = Append(calls, a)

(* belya_harness_reset_turn_state clears the whole detector. *)
Reset == /\ history' = [c \in Cell |-> 0]
         /\ head' = 0 /\ count' = 0 /\ calls' = <<>>

DetectorNext == (\E a \in Actions : Record(a)) \/ Reset

DetectorSpec == DetectorInit /\ [][DetectorNext]_detectorVars

-----------------------------------------------------------------------------

(* The record i calls before the newest one. *)
Ago(i) == history[(head - 1 - i + Size) % Size]

(* Three cycles of length k, compared one step of the cycle at a time. *)
Cycle(k) == /\ count >= 3 * k
            /\ \A i \in 0 .. k - 1 : Ago(i) = Ago(i + k) /\ Ago(i) = Ago(i + 2 * k)

detect_loop == CASE Cycle(1) -> 1
                 [] ~Cycle(1) /\ Cycle(2) -> 2
                 [] ~Cycle(1) /\ ~Cycle(2) /\ Cycle(3) -> 3
                 [] OTHER -> 0

-----------------------------------------------------------------------------
(* Properties.                                                             *)

DetectorTypeOK == /\ history \in [Cell -> Actions \cup {0}]
          /\ head \in Cell /\ count \in 0 .. Size
          /\ calls \in Seq(Actions)

(* The last 3k calls of the turn are one sequence of k calls, three times. *)
Repeats(s, k) ==
    /\ Len(s) >= 3 * k
    /\ \A j \in Len(s) - 2 * k + 1 .. Len(s) : s[j] = s[j - k]

(* detect_loop answers k exactly when the turn's last calls repeat a       *)
(* sequence of k calls three times, and no shorter one: however often the  *)
(* ring has wrapped, and with nothing left over from an earlier turn.      *)
DetectsExactly ==
    /\ detect_loop \in 0 .. 3
    /\ \A k \in 1 .. 3 :
        detect_loop = k <=> Repeats(calls, k) /\ \A j \in 1 .. k - 1 : ~Repeats(calls, j)

=============================================================================
