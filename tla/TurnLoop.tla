------------------------------- MODULE TurnLoop -------------------------------
(***************************************************************************)
(* One turn of the harness: belya_harness_execute_turn and the Telegram    *)
(* loop beside it, with what they keep about the calls of the turn: the    *)
(* loop detector, the consecutive failure counter and the verification     *)
(* guard of belya_harness_record_tool_observation.                         *)
(*                                                                         *)
(* What the turn does to the conversation is AgentHistory's subject; here  *)
(* a call is an action of LoopDetector that succeeds or fails, and the     *)
(* variables of LoopDetector are the loop_detector of the turn.            *)
(***************************************************************************)
EXTENDS LoopDetector

CONSTANTS Edits,      \* those to write_file, edit_file and apply_patch
          Verifies,   \* those to bash, git_diff and git_status
          Prefix,     \* a call's tool and the first 255 bytes of its arguments
          Steps,      \* max_steps of each front end
          MaxPar      \* bound of the model: calls in one answer

FrontEnd == {"repl", "telegram"}
NoPrefix == 0

ASSUME TurnAssumption ==
    /\ Edits \subseteq Actions /\ Verifies \subseteq Actions
    /\ \A a \in Actions : Prefix[a] # NoPrefix
    /\ Steps \in [FrontEnd -> Nat \ {0, 1}] /\ MaxPar \in Nat \ {0}
    /\ MaxCalls >= MaxPar * (Steps["repl"] + Steps["telegram"])   \* no turn reaches it

VARIABLES
    outcomes,                           \* which of calls succeeded
    last_failed, failures,              \* consecutive_tool_failures
    loop_breaker_tripped,
    files_modified, verification_performed, guard_tripped,
    front, pc, steps,                   \* where the turn is
    todo,                               \* calls of the answer still to do
    ended,                              \* how the last turn ended
    sent                                \* how many calls there were when the
                                        \* guard sent the model back: a record

recordVars == <<history, head, count, calls, outcomes, last_failed, failures,
                loop_breaker_tripped, files_modified, verification_performed>>
vars == <<history, head, count, calls, outcomes, last_failed, failures,
          loop_breaker_tripped, files_modified, verification_performed,
          guard_tripped, front, pc, steps, todo, ended, sent>>

Init == /\ DetectorInit
        /\ outcomes = <<>> /\ last_failed = NoPrefix /\ failures = 0
        /\ loop_breaker_tripped = FALSE
        /\ files_modified = FALSE /\ verification_performed = FALSE
        /\ guard_tripped = FALSE
        /\ front \in FrontEnd
        /\ pc = "idle" /\ steps = 0 /\ todo = 0 /\ ended = "none"
        /\ sent = <<>>

(* Fault: one of the two flags of the guard outlives its turn. *)
StartTurn_KeepsVerified ==
    /\ pc = "idle"
    /\ Reset
    /\ outcomes' = <<>> /\ last_failed' = NoPrefix /\ failures' = 0
    /\ loop_breaker_tripped' = FALSE
    /\ files_modified' = FALSE /\ UNCHANGED verification_performed
    /\ guard_tripped' = FALSE
    /\ pc' = "ask" /\ steps' = Steps[front] - 1 /\ ended' = "none"
    /\ sent' = <<>>
    /\ UNCHANGED <<front, todo>>

(* belya_harness_reset_turn_state, and the first pass of the loop. *)
StartTurn ==
    /\ pc = "idle"
    /\ Reset
    /\ outcomes' = <<>> /\ last_failed' = NoPrefix /\ failures' = 0
    /\ loop_breaker_tripped' = FALSE
    /\ files_modified' = FALSE /\ verification_performed' = FALSE
    /\ guard_tripped' = FALSE
    /\ pc' = "ask" /\ steps' = Steps[front] - 1 /\ ended' = "none"
    /\ sent' = <<>>
    /\ UNCHANGED <<front, todo>>

(* The loop condition, after Telegram's check for forced text. *)
GoOn == \/ /\ steps > (IF front = "telegram" THEN 1 ELSE 0)
           /\ pc' = "ask" /\ steps' = steps - 1 /\ ended' = "none"
        \/ /\ steps <= (IF front = "telegram" THEN 1 ELSE 0)
           /\ pc' = "idle" /\ ended' = "budget" /\ UNCHANGED steps

(* Files were modified, nothing was verified, and nobody was told yet. *)
GuardIsDue == /\ files_modified /\ ~verification_performed /\ ~guard_tripped
              /\ front = "telegram" => steps > 1

(* An answer without calls ends the turn, unless the guard sends it back. *)
AnswerText ==
    /\ pc = "ask"
    /\ IF GuardIsDue
       THEN guard_tripped' = TRUE /\ sent' = Append(sent, Len(calls)) /\ GoOn
       ELSE /\ pc' = "idle" /\ ended' = "concluded"
            /\ UNCHANGED <<guard_tripped, sent, steps>>
    /\ UNCHANGED recordVars /\ UNCHANGED <<front, todo>>

AnswerCalls(n) ==
    /\ pc = "ask"
    /\ todo' = n /\ pc' = "tools"
    /\ UNCHANGED recordVars /\ UNCHANGED <<guard_tripped, sent, front, steps, ended>>

(* The next call of the answer, or the next step. *)
CallDone == /\ todo' = todo - 1
            /\ IF todo = 1 THEN GoOn ELSE UNCHANGED <<pc, steps, ended>>

(* A call that a gate refuses: unknown tool, policy, plan mode, operator,  *)
(* risk guard, hook, or arguments that are not JSON.  Nothing is recorded. *)
Refuse == /\ pc = "tools"
          /\ CallDone
          /\ UNCHANGED recordVars /\ UNCHANGED <<guard_tripped, sent, front>>

(* Fault: the streak is counted whatever the call was. *)
Streak_AnyCall(a) == failures + 1

(* How many times in a row this call has now failed. *)
Streak(a) == IF last_failed = Prefix[a] THEN failures + 1 ELSE 1

(* The breaker replaces what the model is told; the turn goes on. *)
record_tool_observation(a, ok) ==
    LET trips == detect_loop' > 0 \/ (~ok /\ Streak(a) >= 3)
    IN  /\ Record(a)
        /\ outcomes' = Append(outcomes, ok)
        /\ files_modified' = (files_modified \/ a \in Edits)
        /\ verification_performed' = (verification_performed \/ a \in Verifies)
        /\ last_failed' = IF ok THEN NoPrefix ELSE Prefix[a]
        /\ failures' = IF ok \/ trips THEN 0 ELSE Streak(a)
        /\ loop_breaker_tripped' = (loop_breaker_tripped \/ trips)

RunTool(a, ok) == /\ pc = "tools"
                  /\ record_tool_observation(a, ok)
                  /\ CallDone
                  /\ UNCHANGED <<guard_tripped, sent, front>>

Next == \/ StartTurn
        \/ AnswerText
        \/ \E n \in 1 .. MaxPar : AnswerCalls(n)
        \/ Refuse
        \/ \E a \in Actions, ok \in BOOLEAN : RunTool(a, ok)

Spec == Init /\ [][Next]_vars

-----------------------------------------------------------------------------
(* Properties.                                                             *)

TypeOK == /\ DetectorTypeOK
          /\ outcomes \in Seq(BOOLEAN)
          /\ last_failed \in {Prefix[a] : a \in Actions} \cup {NoPrefix}
          /\ failures \in 0 .. 2
          /\ loop_breaker_tripped \in BOOLEAN
          /\ files_modified \in BOOLEAN /\ verification_performed \in BOOLEAN
          /\ guard_tripped \in BOOLEAN
          /\ front \in FrontEnd /\ pc \in {"idle", "ask", "tools"}
          /\ steps \in 0 .. Steps[front] /\ todo \in 0 .. MaxPar
          /\ ended \in {"none", "concluded", "budget"} /\ sent \in Seq(Nat)

(* Calls i-2, i-1 and i all failed, with one tool and one prefix. *)
FailsThrice(i) ==
    /\ i >= 3
    /\ \A j \in i - 2 .. i : ~outcomes[j] /\ Prefix[calls[j]] = Prefix[calls[i]]

(* The breaker has tripped exactly when, at some point of the turn, the    *)
(* last calls were one to three calls made three times over, or the same   *)
(* call had failed three times in a row; the counter it resets when it     *)
(* trips and the ring never make it miss one or trip for nothing.          *)
BreakerIsExact ==
    loop_breaker_tripped <=>
        \E i \in DOMAIN calls :
            \/ \E k \in 1 .. 3 : Repeats(SubSeq(calls, 1, i), k)
            \/ FailsThrice(i)

(* The guards of a turn are of their type and the breaker is exact: in     *)
(* particular the counter of failures never gets past its limit.           *)
TurnInv == TypeOK /\ BreakerIsExact

(* Among the first n calls of the turn one edits and none verifies. *)
Unverified(n) == /\ \E i \in 1 .. n : calls[i] \in Edits
                 /\ \A i \in 1 .. n : calls[i] \notin Verifies

(* The guard is true to the calls of this very turn, whatever earlier      *)
(* turns, refused calls and the breaker did: a turn that the model         *)
(* concludes on its own, after an edit and without any verification, was   *)
(* sent back, only the last step Telegram allows going without; nobody is  *)
(* sent back twice, or without an edit, or after a verification.           *)
SentBackWhenDue ==
    /\ ended = "concluded" /\ Unverified(Len(calls)) =>
           sent # <<>> \/ (front = "telegram" /\ steps <= 1)
    /\ Len(sent) <= 1
    /\ \A i \in DOMAIN sent : sent[i] \in 1 .. Len(calls) /\ Unverified(sent[i])

=============================================================================
