-------------------------------- MODULE TaskRing --------------------------------
(***************************************************************************)
(* The circular buffer in which belya_harness.c keeps the output of one    *)
(* background task: belya_task_ring_write and belya_task_ring_read_all,    *)
(* with the reset that belya_harness_spawn_task makes when it gives the    *)
(* slot to a new task.                                                     *)
(*                                                                         *)
(* ring_write is a loop over the bytes of one read(); the model takes one  *)
(* step per iteration, so that the bookkeeping of head, tail and count is  *)
(* the code's and not a closed form of it.                                 *)
(***************************************************************************)
EXTENDS Naturals, Sequences

CONSTANTS Byte,       \* what a task writes
          RingSize,   \* BELYA_TASK_RING_BUFFER_SIZE
          ChunkMax,   \* most bytes one read() returns, sizeof(buf) - 1
          MaxBytes    \* bound of the model: bytes captured between resets

ASSUME RingAssumption == /\ RingSize \in Nat \ {0}
                         /\ ChunkMax \in Nat \ {0}
                         /\ MaxBytes \in Nat

VARIABLES ring_buffer,  \* the bytes, indexed from 0
          ring_head,    \* where the next byte goes
          ring_tail,    \* the oldest byte
          ring_count,   \* bytes held
          total_bytes_captured,
          chunk,        \* bytes of the write in progress, still to be stored
          len,          \* length of the write in progress, 0 between writes
          captured      \* history: every byte stored since the last reset

ringVars == <<ring_buffer, ring_head, ring_tail, ring_count>>
vars == <<ring_buffer, ring_head, ring_tail, ring_count,
          total_bytes_captured, chunk, len, captured>>

Index == 0 .. RingSize - 1

-----------------------------------------------------------------------------
(* calloc gives an arbitrary but fixed byte; nothing may ever read it. *)
Init == /\ \E b \in Byte : ring_buffer = [i \in Index |-> b]
        /\ ring_head = 0
        /\ ring_tail = 0
        /\ ring_count = 0
        /\ total_bytes_captured = 0
        /\ chunk = <<>>
        /\ len = 0
        /\ captured = <<>>

(* belya_task_drain_output read n bytes and calls ring_write with them. *)
BeginWrite(c) ==
    /\ len = 0
    /\ Len(captured) + Len(c) <= MaxBytes
    /\ chunk' = c
    /\ len' = Len(c)
    /\ UNCHANGED <<ringVars, total_bytes_captured, captured>>

(* Fault: a full ring forgets to move its tail past the overwritten byte. *)
PutByte_TailStays ==
    /\ chunk # <<>>
    /\ ring_buffer' = [ring_buffer EXCEPT ![ring_head] = Head(chunk)]
    /\ ring_head' = (ring_head + 1) % RingSize
    /\ ring_count' = IF ring_count < RingSize THEN ring_count + 1 ELSE ring_count
    /\ chunk' = Tail(chunk)
    /\ captured' = Append(captured, Head(chunk))
    /\ UNCHANGED <<ring_tail, total_bytes_captured, len>>

(* One iteration of the loop of ring_write. *)
PutByte ==
    /\ chunk # <<>>
    /\ ring_buffer' = [ring_buffer EXCEPT ![ring_head] = Head(chunk)]
    /\ ring_head' = (ring_head + 1) % RingSize
    /\ \/ /\ ring_count < RingSize
          /\ ring_count' = ring_count + 1
          /\ ring_tail' = ring_tail
       \/ /\ ring_count >= RingSize
          /\ ring_tail' = (ring_tail + 1) % RingSize
          /\ ring_count' = ring_count
    /\ chunk' = Tail(chunk)
    /\ captured' = Append(captured, Head(chunk))
    /\ UNCHANGED <<total_bytes_captured, len>>

(* The loop is over: the byte counter is raised once for the whole chunk. *)
EndWrite ==
    /\ len > 0
    /\ chunk = <<>>
    /\ total_bytes_captured' = total_bytes_captured + len
    /\ len' = 0
    /\ UNCHANGED <<ringVars, chunk, captured>>

(* Fault: the slot is reused without clearing the indices. *)
Reset_KeepsIndices ==
    /\ len = 0
    /\ ring_count' = 0
    /\ ring_head' = 0
    /\ total_bytes_captured' = 0
    /\ captured' = <<>>
    /\ UNCHANGED <<ring_buffer, ring_tail, chunk, len>>

(* spawn_task reuses the slot: the indices go back to 0, the old bytes stay. *)
Reset ==
    /\ len = 0
    /\ ring_head' = 0
    /\ ring_tail' = 0
    /\ ring_count' = 0
    /\ total_bytes_captured' = 0
    /\ captured' = <<>>
    /\ UNCHANGED <<ring_buffer, chunk, len>>

(* What belya_task_ring_read_all returns. *)
ring_read_all ==
    [i \in 1 .. ring_count |-> ring_buffer[(ring_tail + i - 1) % RingSize]]

Chunks == UNION {[1 .. n -> Byte] : n \in 1 .. ChunkMax}

Next == \/ \E c \in Chunks : BeginWrite(c)
        \/ PutByte
        \/ EndWrite
        \/ Reset

Spec == Init /\ [][Next]_vars

-----------------------------------------------------------------------------
TypeOK == /\ ring_buffer \in [Index -> Byte]
          /\ ring_head \in Index
          /\ ring_tail \in Index
          /\ ring_count \in 0 .. RingSize
          /\ total_bytes_captured \in Nat
          /\ chunk \in Seq(Byte)
          /\ len \in Nat
          /\ captured \in Seq(Byte)

(* belya_task_ring_read_all returns the newest bytes the task wrote, as    *)
(* many as the buffer holds, oldest first: across any number of laps no    *)
(* byte is skipped, repeated, reordered or left over from the slot's       *)
(* previous task.                                                          *)
ReadsNewestBytes ==
    /\ ring_count = IF Len(captured) < RingSize THEN Len(captured) ELSE RingSize
    /\ \A i \in 1 .. ring_count :
           ring_read_all[i] = captured[Len(captured) - ring_count + i]

(* Between writes the figure that task_list and task_status show as the    *)
(* task's output is the number of bytes ring_write stored for this task,   *)
(* those the ring has already overwritten included.                        *)
TotalCountsEveryByte ==
    len = 0 => total_bytes_captured = Len(captured)

(* The ring implements the window: each stored byte enters it at the end,  *)
(* and nothing leaves it except the oldest byte of a full window, or the   *)
(* reset of the slot.                                                      *)
Window == INSTANCE RingWindow WITH window <- ring_read_all
ImplementsWindow == Window!WSpec

=============================================================================
