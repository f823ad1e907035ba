------------------------------- MODULE TaskTable -------------------------------
(***************************************************************************)
(* The background task table of belya_harness.c: spawn_task, task_list,    *)
(* task_status, task_send_input, task_kill, the drain-and-reap helper they *)
(* share, and the teardown in belya_harness_free.                          *)
(*                                                                         *)
(* The harness is one thread.  The shells it forks, and the kernel that    *)
(* delivers their signals and keeps their terminals, run beside it: an     *)
(* operation is split wherever it makes a system call whose answer depends *)
(* on how far a shell has got.                                             *)
(*                                                                         *)
(* Bytes are counted, not named: the n-th byte a shell writes is read as   *)
(* the n-th (TaskRing models what becomes of the bytes themselves).        *)
(***************************************************************************)
EXTENDS Integers, FiniteSets

CONSTANTS NumSlots,   \* BELYA_MAX_BACKGROUND_TASKS
          MaxSpawns,  \* bound of the model: tasks ever started
          MaxOut,     \* bound of the model: bytes one shell writes
          PtyCap,     \* bytes the terminal holds before the writer blocks
          ReadMax     \* most bytes one read() returns

ASSUME TableAssumption ==
    /\ NumSlots \in Nat \ {0} /\ MaxSpawns \in Nat /\ MaxOut \in Nat
    /\ PtyCap \in Nat \ {0} /\ ReadMax \in Nat \ {0}

VARIABLES
    state,      \* BelyaTaskState of each slot
    id,         \* task id of each slot, 0 before its first task
    exit_code,  \* as recorded by the harness
    master_fd,  \* is the master side of the slot's terminal open?
    captured,   \* bytes read from the slot's terminal
    next_id,    \* last id handed out
    proc,       \* kernel: the slot's shell
    wstatus,    \* kernel: what waitpid reports once the shell is gone
    written,    \* kernel: bytes the shell wrote to its terminal
    pending,    \* kernel: signals sent to the shell's group
    pc, op, cur \* the harness: where it is, in which operation, on which slot

tableVars == <<state, id, exit_code, master_fd, captured, next_id>>
procVars  == <<proc, wstatus, written, pending>>
vars == <<state, id, exit_code, master_fd, captured, next_id,
          proc, wstatus, written, pending, pc, op, cur>>

Slot == 1 .. NumSlots

Ended == {"completed", "failed", "killed"}
TaskState == {"unused", "running"} \cup Ended
Status == {"exit0", "exit1", "sigterm", "sigkill"}

(* WEXITSTATUS, or 128 + WTERMSIG. *)
Code == [w \in Status |-> CASE w = "exit0" -> 0
                            [] w = "exit1" -> 1
                            [] w = "sigterm" -> 143
                            [] w = "sigkill" -> 137]

(* The state belya_task_drain_output gives a task it has just reaped. *)
Verdict == [w \in Status |-> CASE w = "exit0" -> "completed"
                               [] w = "exit1" -> "failed"
                               [] OTHER -> "killed"]

Init == /\ state = [s \in Slot |-> "unused"]
        /\ id = [s \in Slot |-> 0]
        /\ exit_code = [s \in Slot |-> 0]
        /\ master_fd = [s \in Slot |-> FALSE]
        /\ captured = [s \in Slot |-> 0]
        /\ next_id = 0
        /\ proc = [s \in Slot |-> "none"]
        /\ wstatus = [s \in Slot |-> "exit0"]
        /\ written = [s \in Slot |-> 0]
        /\ pending = [s \in Slot |-> {}]
        /\ pc = "idle" /\ op = "none" /\ cur = 1

-----------------------------------------------------------------------------
(* The shells and the kernel.                                              *)

ShellWrites(s) ==
    /\ proc[s] = "alive"
    /\ written[s] < MaxOut
    /\ written[s] - captured[s] < PtyCap
    /\ written' = [written EXCEPT ![s] = @ + 1]
    /\ UNCHANGED <<tableVars, proc, wstatus, pending, pc, op, cur>>

ShellDies(s, w) ==
    /\ proc[s] = "alive"
    /\ proc' = [proc EXCEPT ![s] = "zombie"]
    /\ wstatus' = [wstatus EXCEPT ![s] = w]
    /\ UNCHANGED <<tableVars, written, pending, pc, op, cur>>

(* By itself, or by a signal the harness did not send (a crash, the kernel  *)
(* short of memory).                                                       *)
ShellExits(s) == \E w \in {"exit0", "exit1", "sigkill"} : ShellDies(s, w)

(* A shell may catch or ignore SIGTERM; it cannot refuse SIGKILL. *)
TermKills(s) == "sigterm" \in pending[s] /\ ShellDies(s, "sigterm")
KillKills(s) == "sigkill" \in pending[s] /\ ShellDies(s, "sigkill")

Shell(s) == ShellWrites(s) \/ ShellExits(s) \/ TermKills(s) \/ KillKills(s)

-----------------------------------------------------------------------------
(* Entering an operation.  Slots are visited in index order, as the loops  *)
(* of the code do; an operation on one task starts at that task's slot.    *)

Idle == pc = "idle"

Enter(o, where, s) ==
    /\ Idle
    /\ pc' = where /\ op' = o /\ cur' = s

Return == pc' = "idle" /\ op' = "none" /\ cur' = 1

(* The slot an id names: the first one in use that carries it. *)
Named(i, s) ==
    /\ id[s] = i /\ state[s] # "unused"
    /\ \A t \in 1 .. s - 1 : ~(id[t] = i /\ state[t] # "unused")

task_list == Enter("list", "drain", 1) /\ UNCHANGED <<tableVars, procVars>>

spawn_task == /\ next_id < MaxSpawns
              /\ Enter("spawn", "drain", 1)
              /\ UNCHANGED <<tableVars, procVars>>

task_status(i) == \E s \in Slot :
    /\ Named(i, s)
    /\ Enter("one", "drain", s)
    /\ UNCHANGED <<tableVars, procVars>>

(* The bytes sent are the shell's business; what it answers is a write. *)
task_send_input(i) == \E s \in Slot :
    /\ Named(i, s)
    /\ state[s] = "running" /\ master_fd[s]
    /\ Enter("one", "drain", s)
    /\ UNCHANGED <<tableVars, procVars>>

-----------------------------------------------------------------------------
(* belya_task_drain_output on slot cur.  The read loop and the waitpid are *)
(* different system calls: the shell runs between them.                    *)

(* What follows the drain of slot cur in the operation under way. *)
AfterDrain ==
    \/ /\ op \in {"list", "spawn"} /\ cur < NumSlots
       /\ pc' = "drain" /\ cur' = cur + 1 /\ op' = op
    \/ /\ op = "spawn" /\ cur = NumSlots
       /\ pc' = "pick" /\ cur' = cur /\ op' = op
    \/ /\ op = "one" \/ (op = "list" /\ cur = NumSlots)
       /\ Return

DrainNothing ==
    /\ pc = "drain" /\ ~master_fd[cur]
    /\ AfterDrain
    /\ UNCHANGED <<tableVars, procVars>>

DrainRead ==
    /\ pc = "drain" /\ master_fd[cur]
    /\ \E n \in 1 .. ReadMax :
          /\ captured[cur] + n <= written[cur]
          /\ n = ReadMax \/ captured[cur] + n = written[cur]
          /\ captured' = [captured EXCEPT ![cur] = @ + n]
    /\ UNCHANGED <<state, id, exit_code, master_fd, next_id, procVars, pc, op, cur>>

DrainEmpty ==
    /\ pc = "drain" /\ master_fd[cur]
    /\ captured[cur] = written[cur]
    /\ pc' = "reap"
    /\ UNCHANGED <<tableVars, procVars, op, cur>>

(* Fault: the exit status of a signalled shell is taken for an exit code 0. *)
DrainReap_SignalIsSuccess ==
    /\ pc = "reap"
    /\ \/ /\ state[cur] = "running" /\ proc[cur] = "zombie"
          /\ proc' = [proc EXCEPT ![cur] = "reaped"]
          /\ exit_code' = [exit_code EXCEPT ![cur] =
                             IF wstatus[cur] = "exit1" THEN 1 ELSE 0]
          /\ state' = [state EXCEPT ![cur] =
                         IF wstatus[cur] = "exit1" THEN "failed" ELSE "completed"]
          /\ master_fd' = [master_fd EXCEPT ![cur] = FALSE]
       \/ /\ ~(state[cur] = "running" /\ proc[cur] = "zombie")
          /\ UNCHANGED <<proc, exit_code, state, master_fd>>
    /\ AfterDrain
    /\ UNCHANGED <<id, captured, next_id, wstatus, written, pending>>

DrainReap ==
    /\ pc = "reap"
    /\ \/ /\ state[cur] = "running" /\ proc[cur] = "zombie"
          /\ proc' = [proc EXCEPT ![cur] = "reaped"]
          /\ exit_code' = [exit_code EXCEPT ![cur] = Code[wstatus[cur]]]
          /\ state' = [state EXCEPT ![cur] = Verdict[wstatus[cur]]]
          /\ master_fd' = [master_fd EXCEPT ![cur] = FALSE]
       \/ /\ ~(state[cur] = "running" /\ proc[cur] = "zombie")
          /\ UNCHANGED <<proc, exit_code, state, master_fd>>
    /\ AfterDrain
    /\ UNCHANGED <<id, captured, next_id, wstatus, written, pending>>

-----------------------------------------------------------------------------
(* spawn_task, after the drain of every slot.                              *)

FirstSlot(P(_)) == {s \in Slot : P(s) /\ \A t \in 1 .. s - 1 : ~P(t)}

(* Fault: with no unused slot the first slot is taken, whatever it runs. *)
Choice_TakesAny ==
    LET unused == FirstSlot(LAMBDA s : state[s] = "unused")
    IN  IF unused # {} THEN unused ELSE {1}

(* The first unused slot, or failing that the first whose task has ended. *)
Choice ==
    LET unused == FirstSlot(LAMBDA s : state[s] = "unused")
    IN  IF unused # {} THEN unused
        ELSE FirstSlot(LAMBDA s : state[s] # "running")

SpawnFails ==           \* no slot, or no terminal, or no process
    /\ pc = "pick"
    /\ Return
    /\ UNCHANGED <<tableVars, procVars>>

SpawnStarts ==
    /\ pc = "pick"
    /\ \E s \in Choice :
          /\ next_id' = next_id + 1
          /\ id' = [id EXCEPT ![s] = next_id + 1]
          /\ state' = [state EXCEPT ![s] = "running"]
          /\ exit_code' = [exit_code EXCEPT ![s] = -1]
          /\ master_fd' = [master_fd EXCEPT ![s] = TRUE]
          /\ captured' = [captured EXCEPT ![s] = 0]
          /\ proc' = [proc EXCEPT ![s] = "alive"]
          /\ written' = [written EXCEPT ![s] = 0]
          /\ pending' = [pending EXCEPT ![s] = {}]
          /\ pc' = "drain" /\ op' = "one" /\ cur' = s
    /\ UNCHANGED wstatus

-----------------------------------------------------------------------------
(* task_kill: SIGTERM, a pause of 20 ms, and SIGKILL with a blocking wait  *)
(* for a shell that is still there.                                        *)

Send(sig, s) == pending' = [pending EXCEPT ![s] = @ \cup {sig}]

task_kill(i) == \E s \in Slot :
    /\ Named(i, s)
    /\ state[s] = "running"       \* otherwise nothing is left to do
    /\ Enter("kill", "killcheck", s)
    /\ Send("sigterm", s)
    /\ UNCHANGED <<tableVars, proc, wstatus, written>>

(* Fault: the blocking wait is not preceded by SIGKILL. *)
KillCheck_NoSigkill ==
    /\ pc = "killcheck"
    /\ pc' = "killwait"
    /\ UNCHANGED <<tableVars, procVars, op, cur>>

KillCheck ==
    /\ pc = "killcheck"
    /\ \/ /\ proc[cur] = "alive"
          /\ Send("sigkill", cur)
       \/ /\ proc[cur] = "zombie"
          /\ UNCHANGED pending
    /\ pc' = "killwait"
    /\ UNCHANGED <<tableVars, proc, wstatus, written, op, cur>>

(* Fault: the kill does not wait for the shell it has signalled. *)
KillDone_NoWait ==
    /\ pc = "killwait"
    /\ proc' = [proc EXCEPT ![cur] = IF @ = "zombie" THEN "reaped" ELSE @]
    /\ state' = [state EXCEPT ![cur] = "killed"]
    /\ master_fd' = [master_fd EXCEPT ![cur] = FALSE]
    /\ Return
    /\ UNCHANGED <<id, exit_code, captured, next_id, wstatus, written, pending>>

(* One of the two waitpid calls has returned the shell.  Its exit code is  *)
(* not recorded and its last output is not read.                           *)
KillDone ==
    /\ pc = "killwait"
    /\ proc[cur] = "zombie"
    /\ proc' = [proc EXCEPT ![cur] = "reaped"]
    /\ state' = [state EXCEPT ![cur] = "killed"]
    /\ master_fd' = [master_fd EXCEPT ![cur] = FALSE]
    /\ Return
    /\ UNCHANGED <<id, exit_code, captured, next_id, wstatus, written, pending>>

-----------------------------------------------------------------------------
(* belya_harness_free: the same two signals to every running task, and one *)
(* waitpid that does not wait.                                             *)

harness_free == Enter("free", "freeterm", 1) /\ UNCHANGED <<tableVars, procVars>>

FreeNext == IF cur < NumSlots THEN pc' = "freeterm" /\ cur' = cur + 1 /\ op' = op
                              ELSE pc' = "freed" /\ cur' = cur /\ op' = op

FreeSkip ==
    /\ pc = "freeterm" /\ state[cur] # "running"
    /\ master_fd' = [master_fd EXCEPT ![cur] = FALSE]
    /\ FreeNext
    /\ UNCHANGED <<state, id, exit_code, captured, next_id, procVars>>

FreeTerm ==
    /\ pc = "freeterm" /\ state[cur] = "running"
    /\ Send("sigterm", cur)
    /\ pc' = "freekill"
    /\ UNCHANGED <<tableVars, proc, wstatus, written, op, cur>>

FreeKill ==
    /\ pc = "freekill"
    /\ Send("sigkill", cur)
    /\ pc' = "freereap"
    /\ UNCHANGED <<tableVars, proc, wstatus, written, op, cur>>

FreeReap ==
    /\ pc = "freereap"
    /\ proc' = [proc EXCEPT ![cur] = IF @ = "zombie" THEN "reaped" ELSE @]
    /\ master_fd' = [master_fd EXCEPT ![cur] = FALSE]
    /\ state' = [state EXCEPT ![cur] = "killed"]
    /\ FreeNext
    /\ UNCHANGED <<id, exit_code, captured, next_id, wstatus, written, pending>>

-----------------------------------------------------------------------------
Drain == DrainNothing \/ DrainRead \/ DrainEmpty \/ DrainReap
Kill  == KillCheck \/ KillDone
Free  == FreeSkip \/ FreeTerm \/ FreeKill \/ FreeReap

(* The harness finishing what it has begun. *)
Proceed == Drain \/ SpawnFails \/ SpawnStarts \/ Kill \/ Free

Call == \/ task_list
        \/ spawn_task
        \/ harness_free
        \/ \E i \in 1 .. next_id : task_status(i) \/ task_send_input(i) \/ task_kill(i)

Next == Proceed \/ Call \/ \E s \in Slot : Shell(s)

Spec == Init /\ [][Next]_vars

(* The harness thread runs whenever it is not blocked, and the kernel      *)
(* delivers SIGKILL.  Nothing is assumed of the shells: they may ignore    *)
(* SIGTERM and need never write or exit.                                   *)
FairSpec == /\ Spec
            /\ WF_vars(Proceed)
            /\ \A s \in Slot : WF_vars(KillKills(s))

-----------------------------------------------------------------------------
TypeOK == /\ state \in [Slot -> TaskState]
          /\ id \in [Slot -> Nat]
          /\ exit_code \in [Slot -> Int]
          /\ master_fd \in [Slot -> BOOLEAN]
          /\ captured \in [Slot -> Nat]
          /\ next_id \in Nat
          /\ proc \in [Slot -> {"none", "alive", "zombie", "reaped"}]
          /\ wstatus \in [Slot -> Status]
          /\ written \in [Slot -> Nat]
          /\ pending \in [Slot -> SUBSET {"sigterm", "sigkill"}]
          /\ pc \in {"idle", "drain", "reap", "pick", "killcheck", "killwait",
                     "freeterm", "freekill", "freereap", "freed"}
          /\ op \in {"none", "list", "spawn", "one", "kill", "free"}
          /\ cur \in Slot

(* The terminal of a slot is open exactly while its task is shown as       *)
(* running: no descriptor outlives its task through any of the exits,      *)
(* kills and reuses, and no running task has lost its terminal.            *)
OpenWhileRunning == \A s \in Slot : master_fd[s] <=> state[s] = "running"

(* A task the table shows as completed, failed or killed has no process    *)
(* left behind it, not even a zombie, and a slot is only ever the slot of  *)
(* a task whose predecessor is gone.  The teardown is excepted: its        *)
(* waitpid does not wait for the SIGKILL just sent.                        *)
EndedIsReaped ==
    op # "free" => \A s \in Slot : state[s] # "running" => proc[s] \in {"none", "reaped"}

(* The state and the exit code that task_status shows are the shell's own: *)
(* completed only after exit 0, failed only after another exit, and a code *)
(* of a task that was not killed by hand is the one waitpid reported.      *)
VerdictIsTrue ==
    \A s \in Slot :
        /\ state[s] = "completed" => proc[s] = "reaped" /\ wstatus[s] = "exit0"
        /\ state[s] = "failed" => proc[s] = "reaped" /\ wstatus[s] = "exit1"
        /\ state[s] \in Ended /\ exit_code[s] # -1 => exit_code[s] = Code[wstatus[s]]

(* An id names at most one task of the table, however often slots are      *)
(* reused, so status, send_input and kill never reach a different task     *)
(* than the one their caller was given the id of.                          *)
IdsDistinct ==
    \A s, t \in Slot :
        /\ state[s] # "unused" => id[s] \in 1 .. next_id
        /\ s # t /\ state[s] # "unused" /\ state[t] # "unused" => id[s] # id[t]

(* What the table says of a task agrees with the kernel and with itself,   *)
(* through every exit, kill and reuse: terminals are open exactly while    *)
(* their tasks run, ended tasks are reaped, and ids are distinct.          *)
TableConsistent == TypeOK /\ OpenWhileRunning /\ EndedIsReaped /\ IdsDistinct

(* A slot is given to a new task only when the shell of the previous one   *)
(* has been reaped: a full table refuses a task rather than lose track of  *)
(* a live one.                                                             *)
NeverEvictsALiveTask ==
    [][\A s \in Slot : id'[s] # id[s] => proc[s] \in {"none", "reaped"}]_vars

(* Every operation returns, whatever the shells do, SIGTERM ignored        *)
(* included: the blocking wait of task_kill is always ended by the SIGKILL *)
(* sent before it.                                                         *)
EveryCallReturns == pc # "idle" ~> pc \in {"idle", "freed"}

=============================================================================
