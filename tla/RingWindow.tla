------------------------------- MODULE RingWindow -------------------------------
(***************************************************************************)
(* What the capture buffer of a background task promises: it is a window   *)
(* on the task's output that always holds the newest bytes, at most        *)
(* RingSize of them, in the order the task wrote them, and forgets         *)
(* everything when the slot is given to another task.                      *)
(***************************************************************************)
EXTENDS Naturals, Sequences

CONSTANTS Byte,       \* what a task writes
          RingSize    \* BELYA_TASK_RING_BUFFER_SIZE

VARIABLE window

(* The newest n elements of s, or all of them when there are fewer. *)
Newest(s, n) ==
    IF Len(s) <= n THEN s
    ELSE [i \in 1 .. n |-> s[Len(s) - n + i]]

WInit == window = <<>>

Keep(b) == window' = Newest(Append(window, b), RingSize)

Forget == window' = <<>>

WNext == Forget \/ \E b \in Byte : Keep(b)

WSpec == WInit /\ [][WNext]_window

=============================================================================
