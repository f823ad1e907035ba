---------------------------- MODULE TaskTableProofs ----------------------------
(***************************************************************************)
(* Safety of the background task table for any number of slots, tasks and  *)
(* bytes.                                                                  *)
(***************************************************************************)
EXTENDS TaskTable, TLAPS

(* The control state says which operation is under way. *)
Control == /\ op = "free" <=> pc \in {"freeterm", "freekill", "freereap", "freed"}
           /\ op = "none" <=> pc = "idle"

(* A task being killed or torn down is still shown as running. *)
Signalling == pc \in {"killcheck", "killwait", "freekill", "freereap"}
                 => state[cur] = "running"

(* A new task gets a slot whose state is not running. *)
LEMMA ChoiceIsFree ==
    ASSUME NEW s \in Choice
    PROVE  s \in Slot /\ state[s] # "running"
<1> DEFINE unused == FirstSlot(LAMBDA t : state[t] = "unused")
           ended  == FirstSlot(LAMBDA t : state[t] # "running")
<1>1. s \in unused \/ s \in ended
  BY DEF Choice
<1>2. CASE s \in unused
  BY <1>2 DEF FirstSlot
<1>3. CASE s \in ended
  BY <1>3 DEF FirstSlot
<1>4. QED
  BY <1>1, <1>2, <1>3

LEMMA VerdictType == \A w \in Status : Verdict[w] \in Ended /\ Code[w] \in Int
  BY DEF Verdict, Code, Ended, Status

(* One step per action: the table and the kernel keep their types. *)
LEMMA TypeStep == TypeOK /\ [Next]_vars => TypeOK'
<1> SUFFICES ASSUME TypeOK, [Next]_vars
             PROVE  TypeOK'
  OBVIOUS
<1> USE TableAssumption DEF TypeOK, tableVars, procVars
<1>1. ASSUME NEW s \in Slot, ShellWrites(s) PROVE TypeOK'
  BY <1>1 DEF ShellWrites
<1>2. ASSUME NEW s \in Slot, NEW w \in Status, ShellDies(s, w) PROVE TypeOK'
  BY <1>2 DEF ShellDies
<1>3. ASSUME NEW s \in Slot, Shell(s) PROVE TypeOK'
  BY <1>1, <1>2, <1>3 DEF Shell, ShellExits, TermKills, KillKills, Status
<1>4. 1 \in Slot
  BY DEF Slot
<1>5. CASE Call
  BY <1>4, <1>5 DEF Call, task_list, spawn_task, harness_free, task_status,
                     task_send_input, task_kill, Enter, Send
<1>6. AfterDrain => /\ pc' \in {"idle", "drain", "pick"}
                    /\ op' \in {"none", "list", "spawn", "one", "kill", "free"}
                    /\ cur' \in Slot
  BY <1>4, SMTT(30) DEF AfterDrain, Return, Slot
<1>7. CASE DrainNothing
  BY <1>6, <1>7 DEF DrainNothing
<1>8. CASE DrainRead
  BY <1>8 DEF DrainRead
<1>9. CASE DrainEmpty
  BY <1>9 DEF DrainEmpty
<1>10. CASE DrainReap
  <2>1. /\ Verdict[wstatus[cur]] \in TaskState
        /\ Code[wstatus[cur]] \in Int
    BY VerdictType DEF TaskState
  <2>2. QED
    BY <1>6, <1>10, <2>1 DEF DrainReap
<1>11. CASE SpawnFails
  BY <1>4, <1>11 DEF SpawnFails, Return
<1>12. CASE SpawnStarts
  BY <1>12, ChoiceIsFree DEF SpawnStarts, TaskState
<1>13. CASE KillCheck
  BY <1>13 DEF KillCheck, Send
<1>14. CASE KillDone
  BY <1>4, <1>14 DEF KillDone, Return, TaskState, Ended
<1>15. CASE Free
  <2>1. ASSUME FreeNext
        PROVE  pc' \in {"freeterm", "freed"} /\ op' = op /\ cur' \in Slot
    <3>1. CASE cur < NumSlots
      BY <2>1, <3>1 DEF FreeNext, Slot
    <3>2. CASE ~(cur < NumSlots)
      BY <2>1, <3>2 DEF FreeNext, Slot
    <3>3. QED
      BY <3>1, <3>2
  <2>2. CASE FreeSkip
    BY <2>1, <2>2 DEF FreeSkip
  <2>3. CASE FreeTerm
    BY <2>3 DEF FreeTerm, Send
  <2>4. CASE FreeKill
    BY <2>4 DEF FreeKill, Send
  <2>5. CASE FreeReap
    BY <2>1, <2>5 DEF FreeReap, TaskState, Ended
  <2>6. QED
    BY <1>15, <2>2, <2>3, <2>4, <2>5 DEF Free
<1>16. CASE UNCHANGED vars
  BY <1>16 DEF vars
<1>17. QED
  BY <1>3, <1>5, <1>7, <1>8, <1>9, <1>10, <1>11, <1>12, <1>13, <1>14, <1>15, <1>16
     DEF Next, Proceed, Drain, Kill

(* The type invariant of the table, for every number of slots. *)
THEOREM TableTypeCorrect == Spec => []TypeOK
<1>1. Init => TypeOK
  BY TableAssumption DEF Init, TypeOK, Slot, TaskState, Status
<1>2. QED
  BY <1>1, TypeStep, PTL DEF Spec

(* The inductive invariant: none of the parts is inductive without the     *)
(* control state, which says that only the teardown runs the teardown.     *)
TableInv == /\ TypeOK
            /\ Control
            /\ Signalling
            /\ OpenWhileRunning
            /\ EndedIsReaped
            /\ IdsDistinct

LEMMA ControlStep == TypeOK /\ Control /\ [Next]_vars => Control'
  BY DEF TypeOK, Control, Next, vars, Proceed, Drain, Kill, Free, Call, Shell,
         ShellWrites, ShellDies, ShellExits, TermKills, KillKills,
         task_list, spawn_task, harness_free, task_status, task_send_input, task_kill,
         Enter, Idle, Return, AfterDrain, DrainNothing, DrainRead, DrainEmpty, DrainReap,
         SpawnFails, SpawnStarts, KillCheck, KillDone, FreeNext, FreeSkip, FreeTerm,
         FreeKill, FreeReap

LEMMA SignallingStep == TypeOK /\ Signalling /\ [Next]_vars => Signalling'
  BY DEF TypeOK, Signalling, Next, vars, Proceed, Drain, Kill, Free, Call, Shell, tableVars,
         ShellWrites, ShellDies, ShellExits, TermKills, KillKills,
         task_list, spawn_task, harness_free, task_status, task_send_input, task_kill,
         Enter, Return, AfterDrain, DrainNothing, DrainRead, DrainEmpty, DrainReap,
         SpawnFails, SpawnStarts, KillCheck, KillDone, FreeNext, FreeSkip, FreeTerm,
         FreeKill, FreeReap

LEMMA OpenStep == TableInv /\ [Next]_vars => OpenWhileRunning'
<1> SUFFICES ASSUME TableInv, [Next]_vars
             PROVE  OpenWhileRunning'
  OBVIOUS
<1> USE DEF TableInv, TypeOK, OpenWhileRunning
<1>1. CASE UNCHANGED <<state, master_fd>>
  BY <1>1
<1>2. CASE DrainReap
  <2>1. Verdict[wstatus[cur]] # "running"
    BY VerdictType DEF Ended
  <2>2. QED
    BY <1>2, <2>1 DEF DrainReap
<1>3. CASE SpawnStarts
  BY <1>3, ChoiceIsFree DEF SpawnStarts
<1>4. CASE KillDone
  BY <1>4 DEF KillDone
<1>5. CASE FreeSkip \/ FreeReap
  BY <1>5 DEF FreeSkip, FreeReap
<1>6. QED
  BY <1>1, <1>2, <1>3, <1>4, <1>5
     DEF Next, vars, Proceed, Drain, Kill, Free, Call, Shell, tableVars,
         ShellWrites, ShellDies, ShellExits, TermKills, KillKills,
         task_list, spawn_task, harness_free, task_status, task_send_input, task_kill,
         DrainNothing, DrainRead, DrainEmpty, SpawnFails, KillCheck, FreeTerm, FreeKill

LEMMA ReapedStep == TableInv /\ [Next]_vars => EndedIsReaped'
<1> SUFFICES ASSUME TableInv, [Next]_vars
             PROVE  EndedIsReaped'
  OBVIOUS
<1> USE DEF TableInv, TypeOK, EndedIsReaped
<1>1. op = "free" => op' = "free"
  BY DEF Control, Next, vars, Proceed, Drain, Kill, Free, Call, Shell,
         ShellWrites, ShellDies, ShellExits, TermKills, KillKills,
         task_list, spawn_task, harness_free, task_status, task_send_input, task_kill,
         Enter, Idle, DrainNothing, DrainRead, DrainEmpty, DrainReap,
         SpawnFails, SpawnStarts, KillCheck, KillDone, FreeNext, FreeSkip, FreeTerm,
         FreeKill, FreeReap
<1>2. CASE op = "free"
  BY <1>1, <1>2
<1>3. ASSUME op # "free", UNCHANGED <<state, proc>>
      PROVE  EndedIsReaped'
  BY <1>3
<1>4. ASSUME op # "free", NEW s \in Slot, NEW w \in Status, ShellDies(s, w)
      PROVE  EndedIsReaped'
  BY <1>4 DEF ShellDies, tableVars
<1>5. ASSUME op # "free", DrainReap
      PROVE  EndedIsReaped'
  BY <1>5 DEF DrainReap
<1>6. ASSUME op # "free", SpawnStarts
      PROVE  EndedIsReaped'
  BY <1>6, ChoiceIsFree DEF SpawnStarts
<1>7. ASSUME op # "free", KillDone
      PROVE  EndedIsReaped'
  BY <1>7 DEF KillDone
<1>8. Free => op = "free"
  BY DEF Control, Free, FreeSkip, FreeTerm, FreeKill, FreeReap
<1>9. QED
  BY <1>2, <1>3, <1>4, <1>5, <1>6, <1>7, <1>8
     DEF Next, vars, Proceed, Drain, Kill, Call, Shell, tableVars, procVars, Status,
         ShellWrites, ShellExits, TermKills, KillKills,
         task_list, spawn_task, harness_free, task_status, task_send_input, task_kill,
         DrainNothing, DrainRead, DrainEmpty, SpawnFails, KillCheck

LEMMA IdsStep == TableInv /\ [Next]_vars => IdsDistinct'
<1> SUFFICES ASSUME TableInv, [Next]_vars
             PROVE  IdsDistinct'
  OBVIOUS
<1> USE DEF TableInv, TypeOK, IdsDistinct
<1>1. ASSUME UNCHANGED <<id, next_id>>,
             \A s \in Slot : state'[s] # "unused" => state[s] # "unused"
      PROVE  IdsDistinct'
  BY <1>1
<1>2. CASE SpawnStarts
  <2> PICK s \in Choice :
            /\ next_id' = next_id + 1
            /\ id' = [id EXCEPT ![s] = next_id + 1]
            /\ state' = [state EXCEPT ![s] = "running"]
    BY <1>2 DEF SpawnStarts
  <2>1. s \in Slot
    BY ChoiceIsFree
  <2>2. \A t \in Slot : state[t] # "unused" => id[t] # next_id + 1
    OBVIOUS
  <2>3. QED
    BY <2>1, <2>2
<1>3. CASE UNCHANGED <<id, next_id, state>>
  BY <1>3
<1>4. CASE DrainReap \/ KillDone \/ FreeReap
  <2>1. UNCHANGED <<id, next_id>>
    BY <1>4 DEF DrainReap, KillDone, FreeReap
  <2>2. ASSUME NEW s \in Slot, state'[s] # state[s]
        PROVE  state[s] # "unused"
    BY <1>4, <2>2 DEF DrainReap, KillDone, FreeReap, Signalling
  <2>3. QED
    BY <1>1, <2>1, <2>2
<1>5. QED
  BY <1>2, <1>3, <1>4
     DEF Next, vars, Proceed, Drain, Kill, Free, Call, Shell, tableVars,
         ShellWrites, ShellDies, ShellExits, TermKills, KillKills,
         task_list, spawn_task, harness_free, task_status, task_send_input, task_kill,
         DrainNothing, DrainRead, DrainEmpty, SpawnFails, KillCheck, FreeSkip, FreeTerm, FreeKill

LEMMA TableInvInit == Init => TableInv
  BY TableAssumption
     DEF Init, TableInv, TypeOK, Control, Signalling, OpenWhileRunning, EndedIsReaped,
         IdsDistinct, Slot, TaskState, Status

LEMMA TableInvStep == TableInv /\ [Next]_vars => TableInv'
  BY TypeStep, ControlStep, SignallingStep, OpenStep, ReapedStep, IdsStep DEF TableInv

(* The invariant holds of every reachable state of the table. *)
THEOREM TableInvariant == Spec => []TableInv
  BY TableInvInit, TableInvStep, PTL DEF Spec

(* No terminal descriptor leaks and no running task loses its own, for any *)
(* number of slots and any schedule of the shells.                         *)
THEOREM DescriptorsFollowTasks == Spec => []OpenWhileRunning
<1>1. TableInv => OpenWhileRunning
  BY DEF TableInv
<1>2. QED
  BY <1>1, TableInvariant, PTL

(* No ended task has a process left, for any number of slots and any       *)
(* schedule of the shells.                                                 *)
THEOREM EndedTasksAreReaped == Spec => []EndedIsReaped
<1>1. TableInv => EndedIsReaped
  BY DEF TableInv
<1>2. QED
  BY <1>1, TableInvariant, PTL

(* An id never names two tasks of the table. *)
THEOREM TaskIdsAreDistinct == Spec => []IdsDistinct
<1>1. TableInv => IdsDistinct
  BY DEF TableInv
<1>2. QED
  BY <1>1, TableInvariant, PTL

(* Descriptors, processes and ids of the table stay consistent, for any    *)
(* number of slots and tasks and any schedule of the shells.               *)
THEOREM TableIsConsistent == Spec => []TableConsistent
<1>1. TableInv => TableConsistent
  BY DEF TableInv, TableConsistent
<1>2. QED
  BY <1>1, TableInvariant, PTL

(* A live task is never evicted: only spawn_task changes the id of a slot, *)
(* it chooses a slot that is not running, and such a slot has no process.  *)
THEOREM LiveTasksAreNotEvicted == Spec => NeverEvictsALiveTask
<1>1. TableInv /\ [Next]_vars
        => [\A s \in Slot : id'[s] # id[s] => proc[s] \in {"none", "reaped"}]_vars
  <2> SUFFICES ASSUME TableInv, [Next]_vars, NEW s \in Slot, id'[s] # id[s]
               PROVE  proc[s] \in {"none", "reaped"}
    OBVIOUS
  <2>1. SpawnStarts
    BY DEF Next, vars, Proceed, Drain, Kill, Free, Call, Shell, tableVars,
           ShellWrites, ShellDies, ShellExits, TermKills, KillKills,
           task_list, spawn_task, harness_free, task_status, task_send_input, task_kill,
           DrainNothing, DrainRead, DrainEmpty, DrainReap, SpawnFails, KillCheck, KillDone,
           FreeSkip, FreeTerm, FreeKill, FreeReap
  <2>2. s \in Choice /\ op # "free"
    BY <2>1 DEF SpawnStarts, TableInv, TypeOK, Control
  <2>3. QED
    BY <2>2, ChoiceIsFree DEF TableInv, EndedIsReaped
<1>2. QED
  BY <1>1, TableInvariant, PTL DEF Spec, NeverEvictsALiveTask

(* What a slot holds between the spawn of a task and its end: no exit code *)
(* while the task is shown as running, and a recorded code only once the   *)
(* shell has been reaped, after which waitpid has nothing more to report.  *)
Recorded ==
    \A s \in Slot :
        /\ state[s] = "running" => exit_code[s] = -1
        /\ state[s] \in Ended /\ exit_code[s] # -1 => proc[s] = "reaped"

VerdictInv == VerdictIsTrue /\ Recorded

LEMMA VerdictStep == TableInv /\ VerdictInv /\ [Next]_vars => VerdictInv'
<1> SUFFICES ASSUME TableInv, VerdictInv, [Next]_vars
             PROVE  VerdictInv'
  OBVIOUS
<1> USE DEF TableInv, TypeOK, VerdictInv, VerdictIsTrue, Recorded
<1>1. CASE UNCHANGED <<state, exit_code, proc, wstatus>>
  BY <1>1
<1>2. ASSUME NEW s \in Slot, NEW w \in Status, ShellDies(s, w)
      PROVE  VerdictInv'
  BY <1>2 DEF ShellDies, tableVars
<1>3. CASE DrainReap
  <2>1. CASE UNCHANGED <<proc, exit_code, state, master_fd>>
    BY <1>3, <2>1 DEF DrainReap
  <2>2. CASE /\ state[cur] = "running" /\ proc[cur] = "zombie"
             /\ proc' = [proc EXCEPT ![cur] = "reaped"]
             /\ exit_code' = [exit_code EXCEPT ![cur] = Code[wstatus[cur]]]
             /\ state' = [state EXCEPT ![cur] = Verdict[wstatus[cur]]]
    <3>1. wstatus' = wstatus
      BY <1>3 DEF DrainReap
    <3>2. /\ Verdict[wstatus[cur]] \in Ended
          /\ Verdict[wstatus[cur]] = "completed" => wstatus[cur] = "exit0"
          /\ Verdict[wstatus[cur]] = "failed" => wstatus[cur] = "exit1"
      BY DEF Verdict, Status, Ended
    <3>3. /\ proc'[cur] = "reaped" /\ exit_code'[cur] = Code[wstatus[cur]]
          /\ state'[cur] = Verdict[wstatus[cur]]
      BY <2>2
    <3>4. \A s \in Slot : s # cur =>
             proc'[s] = proc[s] /\ exit_code'[s] = exit_code[s] /\ state'[s] = state[s]
      BY <2>2
    <3>5. ASSUME NEW s \in Slot
          PROVE  /\ state'[s] = "completed" => proc'[s] = "reaped" /\ wstatus'[s] = "exit0"
                 /\ state'[s] = "failed" => proc'[s] = "reaped" /\ wstatus'[s] = "exit1"
                 /\ state'[s] \in Ended /\ exit_code'[s] # -1
                       => exit_code'[s] = Code[wstatus'[s]]
                 /\ state'[s] = "running" => exit_code'[s] = -1
                 /\ state'[s] \in Ended /\ exit_code'[s] # -1 => proc'[s] = "reaped"
      <4>1. CASE s = cur
        BY <3>1, <3>2, <3>3, <4>1 DEF Ended
      <4>2. CASE s # cur
        BY <3>1, <3>4, <4>2
      <4>3. QED
        BY <4>1, <4>2
    <3>6. QED
      BY <3>5
  <2>3. QED
    BY <1>3, <2>1, <2>2 DEF DrainReap
<1>4. CASE SpawnStarts
  BY <1>4, ChoiceIsFree DEF SpawnStarts, Ended
<1>5. CASE KillDone
  BY <1>5 DEF KillDone, Signalling
<1>6. CASE FreeReap
  BY <1>6 DEF FreeReap, Signalling
<1>7. QED
  BY <1>1, <1>2, <1>3, <1>4, <1>5, <1>6
     DEF Next, vars, Proceed, Drain, Kill, Free, Call, Shell, tableVars, procVars, Status,
         ShellWrites, ShellExits, TermKills, KillKills,
         task_list, spawn_task, harness_free, task_status, task_send_input, task_kill,
         DrainNothing, DrainRead, DrainEmpty, SpawnFails, KillCheck, FreeSkip, FreeTerm, FreeKill

(* The state and the exit code task_status shows are those of the slot's   *)
(* own shell, whatever the shells do between the read loop and the waitpid *)
(* and however often the slot is reused.  What the proof needs beyond the  *)
(* property is Recorded: task_kill and the teardown write no exit code, so *)
(* the -1 that spawn_task left there must still be in place.               *)
THEOREM VerdictsAreTrue == Spec => []VerdictIsTrue
<1>1. Init => VerdictInv
  BY DEF Init, VerdictInv, VerdictIsTrue, Recorded, Ended
<1>2. VerdictInv => VerdictIsTrue
  BY DEF VerdictInv
<1>3. QED
  BY <1>1, <1>2, VerdictStep, TableInvariant, PTL DEF Spec

=============================================================================
