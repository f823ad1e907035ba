---------------------------- MODULE WorkersProofs ----------------------------
(***************************************************************************)
(* The workspace and its workers, for any calls, roles and profiles, any   *)
(* number of turns of a subagent and of edits by others.                   *)
(*                                                                         *)
(* One invariant carries all: it ties pc to the stack of harnesses and to  *)
(* what was checked of the call (Control), the directory of the process to *)
(* the harness (Located, AtWork), and the speculation to the worktrees     *)
(* there are (Speculation).  A step is then shown to keep it by what it    *)
(* leaves alone: most leave harnesses and directories (Steady), some move  *)
(* one harness (Shift), the rest push, pop or speculate.                   *)
(***************************************************************************)
EXTENDS Workers, SequenceTheorems, TLAPS

-----------------------------------------------------------------------------
(* The invariant.                                                          *)

(* Where a call of the model is with its hooks; where a file tool has      *)
(* passed its checks; where a call is in progress.                         *)
Gate   == {"idle", "pre", "prewait", "post", "postwait"}
Filing == {"write", "check", "checkwait"}
Busy   == {"pre", "prewait", "run", "sh", "tool", "test", "testwait"} \cup Filing

Outcome  == [mods : BOOLEAN, passed : BOOLEAN, churn : 0 .. 1]
SpecType == [n : 0 .. MaxCands, home : Places, cands : Seq(Outcome), best : Nat,
             mods : BOOLEAN, strayed : BOOLEAN, before : [Kept -> Text]]

Typed ==
    /\ profile \in Profiles /\ dir \in Places /\ root \in {"main", "wt"}
    /\ stack \in Seq(Frame) /\ Len(stack) \in 1 .. 2
    /\ tree \in [Trees -> Text] /\ added \subseteq Cands /\ exists \subseteq Trees \ {"main"}
    /\ pc \in Gate \cup Busy \cup {"sub", "add", "score", "teardown"}
    /\ call \in Calls \cup {NoCall}
    /\ edit \in [at : Trees, read : Text, new : Text]
    /\ result \in {"ok", "failed", "stuck"} /\ edits \in 0 .. MaxEdits
    /\ spec \in SpecType

(* A worker is at work, from the start of its harness to its score. *)
Working == Len(stack) = 2 /\ g_harness.kind = "worker"

(* What pc says of the stack and of the call: who is running, which tool   *)
(* it is in, and what has been checked on the way there.                   *)
Control ==
    /\ stack[1].kind = "top"
    /\ Len(stack) = 2 => g_harness.kind \in {"sub", "worker"}
    /\ pc \in Gate \cup {"add", "teardown"} => Len(stack) = 1
    /\ pc \in {"sub", "score"} => Len(stack) = 2
    /\ pc = "score" => Working
    /\ pc \in Busy => call \in Calls
    /\ pc \in {"idle", "post", "postwait", "sub", "score"} => call = NoCall
    /\ pc \in {"add", "teardown"} => call.tool \in {"none", "dispatch_worker_task"}
    /\ pc \in Filing => /\ call.tool \in WriteTools /\ ~g_harness.plan
                        /\ ~is_secret_path /\ (Working => spec.strayed)
    /\ pc = "sh" => call.tool = "bash"
    /\ pc = "tool" => call.tool = "custom"
    /\ pc \in {"test", "testwait"} => call.tool = "run_test_cycle"
    /\ Len(stack) = 2 =>
         call.tool \notin {"spawn_subagent", "dispatch_agent", "dispatch_worker_task"}

(* The directory of the process exists and is the one g_harness is in, if  *)
(* that exists; the way back from a worktree leads to the project.         *)
Located ==
    /\ Exists(dir)
    /\ Exists(g_harness.cwd) => dir = g_harness.cwd
    /\ stack[1].cwd \notin Cands
    /\ ~Working => dir \notin Cands /\ g_harness.cwd \notin Cands
    /\ g_harness.inwt => g_harness.orig = "main"
    /\ stack[1].inwt => stack[1].orig = "main"
    /\ pc \in {"pre", "prewait", "run"} /\ call.tool = "enter_worktree" /\ ~g_harness.inwt
         => dir \in {"main", "out"}

(* A worker stays in the tree of its candidate until it strays. *)
AtWork ==
    Working =>
      /\ g_harness.list = WorkerTools /\ ~g_harness.plan /\ ~g_harness.inwt
      /\ Len(spec.cands) < spec.n
      /\ ~spec.strayed => g_harness.cwd = Candidate /\ dir = Candidate
      /\ pc \in Busy => /\ call.tool \in WorkerTools
                        /\ ~spec.strayed => "cd" \notin call.cmd /\ call.path # "abs"

(* The way home stays open, and what is registered is there and will be    *)
(* torn down.                                                              *)
Speculation ==
    /\ spec.n > 0 <=> Working \/ pc \in {"add", "teardown"}
    /\ registered \subseteq exists
    /\ registered \subseteq TornDown
    /\ spec.n > 0 => /\ Exists(spec.home) /\ spec.home \notin Cands
                     /\ Exists(stack[1].cwd) => spec.home = stack[1].cwd
    /\ Len(spec.cands) <= spec.n
    /\ pc \in {"add", "teardown"} => dir = spec.home
    /\ pc = "teardown" => Len(spec.cands) = spec.n

(* BestIsMerged, of the candidates scored so far. *)
Good == {i \in 1 .. Len(spec.cands) : spec.cands[i].mods /\ spec.cands[i].passed}
BestSoFar ==
    IF spec.best = 0 THEN Good = {}
    ELSE /\ spec.best \in Good
         /\ \A i \in Good \ {spec.best} :
              \/ spec.cands[spec.best].churn < spec.cands[i].churn
              \/ spec.cands[spec.best].churn = spec.cands[i].churn /\ spec.best < i

(* With strict permissions and nobody to ask, what runs was allowed. *)
Strict ==
    profile.mode = "strict" /\ ~profile.approver =>
      /\ Len(stack) = 1 /\ pc \notin {"sub", "add", "score", "teardown"}
      /\ pc \in Busy => permission_classify(call) = "allow"

(* The operator's trees are as others left them until a worker strays or   *)
(* something is merged; this part needs the kernel to confine the workers' *)
(* programs.                                                               *)
Untouched ==
    spec.n > 0 /\ ~spec.strayed /\ (pc = "teardown" => spec.best = 0) =>
        \A p \in Kept : tree[p] = spec.before[p]

(* The parts of the invariant that hold whatever the kernel confines. *)
Plain == Typed /\ Control /\ Located /\ AtWork /\ Speculation /\ BestSoFar /\ Strict

-----------------------------------------------------------------------------
(* The names of the trees, and the stack.                                  *)

LEMMA TreeFacts ==
    /\ {"main", "wt", "out"} \cap Cands = {}
    /\ \A i \in 1 .. MaxCands : Cand[i] \in Cands
    /\ Cands \subseteq Trees /\ Trees \subseteq Places /\ {"main", "wt", "out"} \subseteq Places
    /\ {"main", "wt"} \subseteq Trees /\ "out" \notin Trees
    /\ Places = {"main", "wt", "out"} \cup Cands
<1>1. \A i \in 1 .. MaxCands : Cand[i] \in {"c1", "c2", "c3"}
  BY WorkspaceAssumption DEF Cand
<1>2. Cands \subseteq {"c1", "c2", "c3"}
  BY <1>1 DEF Cands
<1>3. {"main", "wt", "out"} \cap Cands = {}
  BY <1>2
<1>4. \A i \in 1 .. MaxCands : Cand[i] \in Cands
  BY DEF Cands
<1>5. QED
  BY <1>3, <1>4 DEF Trees, Places

LEMMA StackFacts ==
    ASSUME NEW S, NEW s \in Seq(S), Len(s) \in 1 .. 2
    PROVE  /\ Last(s) = s[Len(s)] /\ Last(s) \in S /\ s[1] \in S
           /\ \A f \in S : /\ [s EXCEPT ![Len(s)] = f] \in Seq(S)
                           /\ Len([s EXCEPT ![Len(s)] = f]) = Len(s)
                           /\ Last([s EXCEPT ![Len(s)] = f]) = f
                           /\ [s EXCEPT ![Len(s)] = f][1] = IF Len(s) = 1 THEN f ELSE s[1]
           /\ Len(s) = 1 => \A f \in S : /\ Append(s, f) \in Seq(S) /\ Len(Append(s, f)) = 2
                                         /\ Append(s, f)[1] = s[1] /\ Last(Append(s, f)) = f
           /\ Len(s) = 2 => /\ Front(s) \in Seq(S) /\ Len(Front(s)) = 1
                            /\ Front(s)[1] = s[1] /\ Last(Front(s)) = s[1]
                            /\ s[Len(s) - 1] = s[1]
<1>1. Last(s) = s[Len(s)] /\ Last(s) \in S /\ s[1] \in S
  BY DEF Last
<1>2. ASSUME NEW f \in S
      PROVE  /\ [s EXCEPT ![Len(s)] = f] \in Seq(S)
             /\ Len([s EXCEPT ![Len(s)] = f]) = Len(s)
             /\ Last([s EXCEPT ![Len(s)] = f]) = f
             /\ [s EXCEPT ![Len(s)] = f][1] = IF Len(s) = 1 THEN f ELSE s[1]
  BY <1>2 DEF Last
<1>3. ASSUME Len(s) = 1, NEW f \in S
      PROVE  /\ Append(s, f) \in Seq(S) /\ Len(Append(s, f)) = 2
             /\ Append(s, f)[1] = s[1] /\ Last(Append(s, f)) = f
  <2>1. Append(s, f) \in Seq(S) /\ Len(Append(s, f)) = 2
    BY <1>3
  <2>2. Append(s, f)[1] = s[1] /\ Append(s, f)[2] = f
    BY <1>3, AppendProperties, SMTT(30)
  <2>3. QED
    BY <2>1, <2>2 DEF Last
<1>4. ASSUME Len(s) = 2
      PROVE  /\ Front(s) \in Seq(S) /\ Len(Front(s)) = 1
             /\ Front(s)[1] = s[1] /\ Last(Front(s)) = s[1]
             /\ s[Len(s) - 1] = s[1]
  <2>1. Front(s) = SubSeq(s, 1, 1)
    BY <1>4 DEF Front
  <2>2. Front(s) \in Seq(S) /\ Len(Front(s)) = 1 /\ Front(s)[1] = s[1]
    BY <1>4, <2>1, SubSeqProperties
  <2>3. QED
    BY <1>4, <2>2 DEF Last
<1>5. QED
  BY <1>1, <1>2, <1>3, <1>4

(* g_harness is a harness, and Working is about it. *)
LEMMA HarnessFacts ==
    ASSUME Typed
    PROVE  /\ g_harness \in Frame /\ stack[1] \in Frame
           /\ Len(stack) = 1 => g_harness = stack[1]
           /\ Len(stack) = 2 => Parent = stack[1]
<1>1. stack \in Seq(Frame) /\ Len(stack) \in 1 .. 2
  BY DEF Typed
<1>2. QED
  BY <1>1, StackFacts DEF g_harness, Parent

LEMMA SetHarnessFacts ==
    ASSUME Typed, NEW f \in Frame, SetHarness(f)
    PROVE  /\ stack' \in Seq(Frame) /\ Len(stack') = Len(stack)
           /\ g_harness' = f
           /\ stack'[1] = IF Len(stack) = 1 THEN f ELSE stack[1]
<1>1. stack \in Seq(Frame) /\ Len(stack) \in 1 .. 2
  BY DEF Typed
<1> DEFINE s == [stack EXCEPT ![Len(stack)] = f]
<1>2. /\ s \in Seq(Frame) /\ Len(s) = Len(stack) /\ Last(s) = f
      /\ s[1] = IF Len(stack) = 1 THEN f ELSE stack[1]
  BY <1>1, StackFacts
<1>3. stack' = s
  BY DEF SetHarness
<1> HIDE DEF s
<1>4. QED
  BY <1>2, <1>3 DEF g_harness

-----------------------------------------------------------------------------
(* What is to be shown of a step, by what it leaves alone.                 *)

(* The data of a call, of their types. *)
DataTyped ==
    /\ tree \in [Trees -> Text] /\ added \subseteq Cands
    /\ edit \in [at : Trees, read : Text, new : Text]
    /\ result \in {"ok", "failed", "stuck"} /\ edits \in 0 .. MaxEdits

LEMMA TypedData == Typed => DataTyped
  BY DEF Typed, DataTyped

(* A step of a call that leaves directories, harnesses and speculation     *)
(* where they are.                                                         *)
LEMMA Steady ==
    ASSUME Plain, UNCHANGED <<profile, dir, root, stack, exists, spec, registered>>,
           DataTyped', Control', call' \in Calls \cup {NoCall},
           pc' \in Gate \cup Busy \cup {"sub", "add", "score", "teardown"},
           pc' \in Busy => pc \in Busy /\ call' = call,
           pc' \in {"pre", "prewait", "run"} => pc \in {"pre", "prewait", "run"},
           pc \notin {"add", "teardown"}, pc' \notin {"add", "teardown"}
    PROVE  Plain'
<1>1. g_harness' = g_harness /\ Working' = Working
  BY DEF g_harness, Working
<1>2. Typed'
  BY DEF Plain, Typed, DataTyped
<1>3. Located'
  BY <1>1 DEF Plain, Located, Exists, Busy
<1>4. AtWork'
  BY <1>1 DEF Plain, AtWork, Candidate
<1>5. Speculation'
  BY <1>1 DEF Plain, Speculation, TornDown, Exists
<1>6. BestSoFar'
  BY DEF Plain, BestSoFar, Good
<1>7. Strict'
  BY DEF Plain, Strict, Control
<1>8. QED
  BY <1>2, <1>3, <1>4, <1>5, <1>6, <1>7 DEF Plain

(* The call goes on. *)
LEMMA SteadyGoesOn ==
    ASSUME Plain, UNCHANGED <<profile, dir, root, stack, exists, spec, registered, call>>,
           DataTyped', pc \in Busy, pc' \in Busy,
           pc' \in {"pre", "prewait"} => pc \in {"pre", "prewait"},
           pc' = "run" => pc \in {"pre", "prewait", "run"},
           pc' \in Filing => \/ pc \in Filing
                             \/ /\ call.tool \in WriteTools /\ ~g_harness.plan
                                /\ ~is_secret_path /\ (Working => spec.strayed),
           pc' = "sh" => call.tool = "bash",
           pc' = "tool" => call.tool = "custom",
           pc' \in {"test", "testwait"} => call.tool = "run_test_cycle"
    PROVE  Plain'
<1>1. g_harness' = g_harness /\ Working' = Working /\ is_secret_path' = is_secret_path
  BY DEF g_harness, Working, is_secret_path
<1>2. Control'
  BY <1>1 DEF Plain, Control, Gate, Busy, Filing
<1>3. /\ call' \in Calls \cup {NoCall}
      /\ {pc, pc'} \cap {"add", "teardown"} = {}
      /\ pc' \in {"pre", "prewait", "run"} => pc \in {"pre", "prewait", "run"}
  BY DEF Plain, Typed, Busy, Filing
<1>4. QED
  BY <1>2, <1>3, Steady

(* The call returns, to the model or to the loop of the subagent. *)
LEMMA SteadyReturns ==
    ASSUME Plain, UNCHANGED <<profile, dir, root, stack, exists, spec, registered>>,
           tree' \in [Trees -> Text], added' \subseteq Cands, edits' \in 0 .. MaxEdits,
           pc \in Busy \ {"pre", "prewait"}, NEW r \in {"ok", "failed", "stuck"}, Returns(r)
    PROVE  Plain'
<1>1. Len(stack) \in 1 .. 2
  BY DEF Plain, Typed
<1>2. g_harness' = g_harness /\ Working' = Working
  BY DEF g_harness, Working
<1>3. /\ pc' = IF Len(stack) = 1 THEN "post" ELSE "sub"
      /\ call' = NoCall /\ call'.tool = "none" /\ result' = r /\ edit' = NoEdit
  BY DEF Returns, ReturnsTo, NoCall, Call
<1>4. Control'
  BY <1>1, <1>2, <1>3 DEF Plain, Control, Gate, Busy, Filing
<1>5. DataTyped'
  BY <1>3, TreeFacts DEF DataTyped, NoEdit, HEAD, Text
<1>6. {pc, pc'} \cap {"add", "teardown"} = {} /\ pc' \in {"post", "sub"}
  BY <1>3 DEF Busy, Filing
<1>7. QED
  BY <1>3, <1>4, <1>5, <1>6, Steady DEF Gate, Busy, Filing

-----------------------------------------------------------------------------
(* The gates and the hooks.                                                *)

(* The hook stays, the call goes on to its tool, or it is over. *)
LEMMA AfterHookStep ==
    ASSUME Plain, pc \in {"pre", "prewait", "post", "postwait"}, NEW blocks \in BOOLEAN,
           AfterHook(blocks), UNCHANGED specVars
    PROVE  Plain'
<1>1. /\ UNCHANGED <<profile, dir, root, stack, exists, spec, registered>>
      /\ UNCHANGED <<tree, added, edit, edits>>
  BY DEF AfterHook, treeVars, specVars
<1>2. CASE pc' = "run"
  <2>1. pc \in {"pre", "prewait"} /\ UNCHANGED <<call, result>>
    BY <1>2 DEF AfterHook
  <2>2. DataTyped'
    BY <1>1, <2>1, TypedData DEF Plain, DataTyped
  <2>3. QED
    BY <1>1, <1>2, <2>1, <2>2, SteadyGoesOn DEF Busy, Filing
<1>3. CASE pc' # "run"
  <2>1. pc' = "idle" /\ call' = NoCall /\ result' = "ok"
    BY <1>3 DEF AfterHook
  <2>2. DataTyped'
    BY <1>1, <2>1, TypedData DEF Plain, DataTyped
  <2>3. g_harness' = g_harness /\ Working' = Working /\ call'.tool = "none"
    BY <1>1, <2>1 DEF g_harness, Working, NoCall, Call
  <2>4. Control'
    BY <1>1, <2>1, <2>3 DEF Plain, Control, Gate, Busy, Filing
  <2>5. QED
    BY <1>1, <2>1, <2>2, <2>4, Steady DEF Gate, Busy, Filing
<1>4. QED
  BY <1>2, <1>3

LEMMA HookStep ==
    ASSUME Plain, UNCHANGED specVars,
           \/ HookTimesOut \/ HookIsWaitedFor
           \/ \E blocks \in BOOLEAN : HookEnds(blocks) \/ HookExits(blocks)
    PROVE  Plain'
<1>1. CASE HookIsWaitedFor
  <2>1. /\ UNCHANGED <<profile, dir, root, stack, exists, spec, registered>>
        /\ UNCHANGED <<tree, added, edit, edits, call, result>>
    BY <1>1 DEF HookIsWaitedFor, treeVars, specVars
  <2>2. DataTyped'
    BY <2>1, TypedData DEF Plain, DataTyped
  <2>3. CASE pc = "pre"
    BY <1>1, <2>1, <2>2, <2>3, SteadyGoesOn DEF HookIsWaitedFor, Busy, Filing
  <2>4. CASE pc = "post"
    <3>1. pc' = "postwait"
      BY <1>1, <2>4 DEF HookIsWaitedFor
    <3>2. g_harness' = g_harness /\ Working' = Working
      BY <2>1 DEF g_harness, Working
    <3>3. Control'
      BY <2>1, <2>4, <3>1, <3>2 DEF Plain, Control, Gate, Busy, Filing
    <3>4. call' \in Calls \cup {NoCall}
      BY <2>1 DEF Plain, Typed
    <3>5. QED
      BY <2>1, <2>2, <2>4, <3>1, <3>3, <3>4, Steady DEF Gate, Busy, Filing
  <2>5. QED
    BY <1>1, <2>3, <2>4 DEF HookIsWaitedFor
<1>2. QED
  BY <1>1, AfterHookStep DEF HookTimesOut, HookEnds, HookExits

-----------------------------------------------------------------------------
(* The tools that leave harnesses and directories alone.                   *)

(* A call that is over with nothing done. *)
LEMMA QuietReturns ==
    ASSUME Plain, pc \in Busy \ {"pre", "prewait"}, NEW r \in {"ok", "failed", "stuck"}, Returns(r),
           UNCHANGED <<profile, dir, root, stack, edits>>, UNCHANGED treeVars, UNCHANGED specVars
    PROVE  Plain'
<1>1. /\ UNCHANGED <<profile, dir, root, stack, exists, spec, registered>>
      /\ UNCHANGED <<tree, added, edits>>
  BY DEF treeVars, specVars
<1>2. tree' \in [Trees -> Text] /\ added' \subseteq Cands /\ edits' \in 0 .. MaxEdits
  BY <1>1 DEF Plain, Typed
<1>3. QED
  BY <1>1, <1>2, SteadyReturns

LEMMA QuietStep ==
    ASSUME Plain, UNCHANGED specVars,
           \/ read_file \/ FileToolRefuses \/ NoRunnerFound
           \/ \E risk : BashRefuses(risk) \/ BashInBackground(risk)
           \/ ProgramEnds \/ ProgramIsKilled \/ TestExits
    PROVE  Plain'
<1>1. pc \in Busy \ {"pre", "prewait"}
  BY DEF read_file, FileToolRefuses, NoRunnerFound, BashRefuses, BashInBackground,
         ProgramEnds, ProgramIsKilled, TestExits, Runs, Busy, Filing
<1>2. /\ \E r \in {"ok", "failed", "stuck"} : Returns(r)
      /\ UNCHANGED <<profile, dir, root, stack, edits>> /\ UNCHANGED treeVars
  <2>1. CASE read_file
    BY <2>1 DEF read_file
  <2>2. QED
    BY <2>1 DEF FileToolRefuses, NoRunnerFound, BashRefuses, BashInBackground,
                ProgramEnds, ProgramIsKilled, TestExits
<1>3. QED
  BY <1>1, <1>2, QuietReturns

(* A program is started, or waited for. *)
LEMMA StartStep ==
    ASSUME Plain, UNCHANGED specVars,
           \/ \E risk : BashStarts(risk) \/ exec_remote(risk)
           \/ ScriptStarts \/ PreflightIsWaitedFor \/ TestIsWaitedFor
    PROVE  Plain'
<1>1. /\ UNCHANGED <<profile, dir, root, stack, exists, spec, registered, call>>
      /\ UNCHANGED <<tree, added, edit, edits, result>>
  BY DEF BashStarts, exec_remote, ScriptStarts, PreflightIsWaitedFor, TestIsWaitedFor,
         treeVars, specVars
<1>2. DataTyped'
  BY <1>1, TypedData DEF Plain, DataTyped
<1>3. CASE \E risk : BashStarts(risk) \/ exec_remote(risk)
  <2>1. pc = "run" /\ pc' = "sh" /\ call.tool = "bash"
    BY <1>3 DEF BashStarts, exec_remote, Runs
  <2>2. QED
    BY <1>1, <1>2, <2>1, SteadyGoesOn DEF Busy, Filing
<1>4. CASE ScriptStarts
  <2>1. /\ pc = "run" /\ pc' \in {"tool", "test"}
        /\ pc' = "tool" => call.tool = "custom"
        /\ pc' = "test" => call.tool = "run_test_cycle"
    BY <1>4 DEF ScriptStarts, Runs
  <2>2. QED
    BY <1>1, <1>2, <2>1, SteadyGoesOn DEF Busy, Filing
<1>5. CASE PreflightIsWaitedFor
  BY <1>1, <1>2, <1>5, SteadyGoesOn DEF PreflightIsWaitedFor, Busy, Filing
<1>6. CASE TestIsWaitedFor
  <2>1. pc = "test" /\ pc' = "testwait" /\ call.tool = "run_test_cycle"
    BY <1>6 DEF TestIsWaitedFor, Plain, Control
  <2>2. QED
    BY <1>1, <1>2, <2>1, SteadyGoesOn DEF Busy, Filing
<1>7. QED
  BY <1>3, <1>4, <1>5, <1>6

(* What a running program can change. *)
LEMMA WriteStep ==
    ASSUME Plain, UNCHANGED specVars,
           \/ \E p \in Trees, text \in Text : ProgramWrites(p, text)
           \/ \E p \in Cands : ProgramAdds(p)
    PROVE  Plain'
<1>1. /\ UNCHANGED <<profile, dir, root, stack, exists, spec, registered, call, pc>>
      /\ UNCHANGED <<edit, edits, result>>
  BY DEF ProgramWrites, ProgramAdds, specVars
<1>2. DataTyped'
  <2>1. tree' \in [Trees -> Text] /\ added' \subseteq Cands
    BY DEF ProgramWrites, ProgramAdds, Plain, Typed
  <2>2. QED
    BY <1>1, <2>1, TypedData DEF Plain, DataTyped
<1>3. pc \in {"sh", "tool", "test", "testwait"}
  BY DEF ProgramWrites, ProgramAdds, Writable
<1>4. /\ pc = "sh" => call.tool = "bash"
      /\ pc = "tool" => call.tool = "custom"
      /\ pc \in {"test", "testwait"} => call.tool = "run_test_cycle"
  BY DEF Plain, Control
<1>5. QED
  BY <1>1, <1>2, <1>3, <1>4, SteadyGoesOn DEF Busy, Filing

(* A file tool never gets past the path jail in a candidate's tree, and    *)
(* what it goes on to write is a text of the file.                         *)
LEMMA JailFacts ==
    ASSUME Typed, is_path_jailed(TRUE)
    PROVE  Target \in {"main", "wt"} /\ ~is_secret_path /\ Exists(Target)
  BY DEF Typed, is_path_jailed, Inside

LEMMA UpdatedFacts ==
    ASSUME Typed, call \in Calls, call.tool \in WriteTools, Target \in Trees, Matches
    PROVE  Updated \in Text
<1>1. tree[Target] \in Text
  BY DEF Typed
<1>2. CASE call.tool = "write_file"
  BY <1>2, CallsAssumption DEF Updated
<1>3. CASE call.tool = "edit_file"
  BY <1>1, <1>3 DEF Updated, Matches, edit_file_matches, Text
<1>4. CASE call.tool = "apply_patch"
  <2>1. call.n \in 1 .. tree[Target]
    BY <1>4 DEF Matches, apply_patch_matches
  <2>2. Updated = tree[Target] - call.n
    BY <1>4 DEF Updated
  <2>3. QED
    BY <1>1, <2>1, <2>2 DEF Text
<1>5. QED
  BY <1>2, <1>3, <1>4 DEF WriteTools

LEMMA FileReadStep ==
    ASSUME Plain, FileToolReads, UNCHANGED specVars
    PROVE  Plain'
<1>1. /\ pc = "run" /\ call.tool \in WriteTools /\ ~g_harness.plan /\ is_path_jailed(TRUE)
      /\ UNCHANGED <<profile, dir, root, stack, edits>> /\ UNCHANGED treeVars
  BY DEF FileToolReads, Runs
<1>2. Target \in {"main", "wt"} /\ ~is_secret_path
  BY <1>1, JailFacts DEF Plain
<1>3. CASE ~Matches
  BY <1>1, <1>3, QuietReturns DEF FileToolReads, Busy, Filing
<1>4. CASE Matches
  <2>1. /\ edit' = [at |-> Target, read |-> tree[Target], new |-> Updated] /\ pc' = "write"
        /\ UNCHANGED <<call, result, tree, added, exists, spec, registered>>
    BY <1>4 DEF FileToolReads, treeVars, specVars
  <2>2. call \in Calls /\ Target \in Trees
    BY <1>1, <1>2, TreeFacts DEF Plain, Control, Busy
  <2>3. Updated \in Text
    BY <1>1, <1>4, <2>2, UpdatedFacts DEF Plain
  <2>4. edit' \in [at : Trees, read : Text, new : Text]
    BY <2>1, <2>2, <2>3 DEF Plain, Typed
  <2>5. DataTyped'
    BY <1>1, <2>1, <2>4, TypedData DEF Plain, DataTyped
  <2>6. Working => spec.strayed
    <3> SUFFICES ASSUME Working, ~spec.strayed PROVE FALSE
      OBVIOUS
    <3>1. dir = Candidate /\ call.path # "abs" /\ Len(spec.cands) < spec.n
      BY <1>1 DEF Plain, AtWork, Busy
    <3>2. Candidate \in Cands
      <4>1. Len(spec.cands) \in Nat /\ spec.n \in 0 .. MaxCands /\ MaxCands \in Nat
        BY WorkspaceAssumption DEF Plain, Typed, SpecType
      <4>2. Len(spec.cands) + 1 \in 1 .. MaxCands
        BY <3>1, <4>1
      <4>3. QED
        BY <4>2, TreeFacts DEF Candidate
    <3>3. QED
      BY <1>2, <3>1, <3>2, TreeFacts DEF Target
  <2>7. QED
    BY <1>1, <1>2, <2>1, <2>5, <2>6, SteadyGoesOn DEF Busy, Filing
<1>5. QED
  BY <1>3, <1>4

LEMMA FileWriteStep ==
    ASSUME Plain, UNCHANGED specVars,
           \/ FileToolWrites \/ FileToolCannotWrite \/ PreflightTimesOut
           \/ \E diag \in BOOLEAN : PreflightEnds(diag) \/ PreflightExits(diag)
    PROVE  Plain'
<1>1. edit.at \in Trees /\ edit.new \in Text /\ edit.read \in Text
  BY DEF Plain, Typed
<1>2. CASE FileToolWrites
  <2>1. /\ UNCHANGED <<profile, dir, root, stack, exists, spec, registered, call>>
        /\ UNCHANGED <<added, edit, edits, result>> /\ pc = "write" /\ pc' = "check"
    BY <1>2 DEF FileToolWrites, specVars
  <2>2. tree' \in [Trees -> Text]
    BY <1>1, <1>2 DEF FileToolWrites, Plain, Typed
  <2>3. DataTyped'
    BY <2>1, <2>2, TypedData DEF Plain, DataTyped
  <2>4. QED
    BY <2>1, <2>3, SteadyGoesOn DEF Busy, Filing
<1>3. ASSUME NEW diag \in BOOLEAN, FileToolEnds(diag), pc \in {"check", "checkwait"} PROVE Plain'
  <2>1. /\ UNCHANGED <<profile, dir, root, stack, exists, spec, registered>>
        /\ UNCHANGED <<added, edits>>
    BY <1>3 DEF FileToolEnds, specVars
  <2>2. \E r \in {"ok", "failed", "stuck"} : Returns(r)
    BY <1>3 DEF FileToolEnds
  <2>3. tree' \in [Trees -> Text]
    BY <1>1, <1>3 DEF FileToolEnds, Plain, Typed
  <2>4. added' \subseteq Cands /\ edits' \in 0 .. MaxEdits
    BY <2>1 DEF Plain, Typed
  <2>5. pc \in Busy \ {"pre", "prewait"}
    BY <1>3 DEF Busy, Filing
  <2>6. QED
    BY <2>1, <2>2, <2>3, <2>4, <2>5, SteadyReturns
<1>4. CASE FileToolCannotWrite
  BY <1>4, QuietReturns DEF FileToolCannotWrite, Busy, Filing
<1>5. QED
  BY <1>2, <1>3, <1>4 DEF PreflightTimesOut, PreflightEnds, PreflightExits

-----------------------------------------------------------------------------
(* The tools that move a harness.                                          *)

(* Outside a speculation: there is none, and no worktree is registered. *)
LEMMA NoSpeculation ==
    ASSUME Plain, ~Working, pc \notin {"add", "teardown"}
    PROVE  spec.n = 0 /\ registered = {}
<1>1. spec.n \in 0 .. MaxCands /\ ~(spec.n > 0)
  BY DEF Plain, Typed, SpecType, Speculation
<1>2. spec.n = 0
  BY <1>1, WorkspaceAssumption
<1>3. TornDown = {}
  BY <1>2 DEF TornDown
<1>4. QED
  BY <1>2, <1>3 DEF Plain, Speculation

LEMMA Shift ==
    ASSUME Plain, pc = "run", NEW f \in Frame, SetHarness(f), f.kind = g_harness.kind,
           UNCHANGED <<profile, added, edits, spec, registered>>,
           f.inwt => f.orig = "main", f.cwd \notin Cands,
           dir' \in Places \ Cands, root' \in {"main", "wt"}, Exists(dir)',
           f.cwd \in {"main", "out"} \cup exists' => dir' = f.cwd,
           exists' \subseteq Trees \ {"main"}, tree' \in [Trees -> Text],
           Working => /\ spec.strayed /\ UNCHANGED exists
                      /\ f.list = g_harness.list /\ f.plan = g_harness.plan /\ ~f.inwt,
           \/ \E r \in {"ok", "failed", "stuck"} : Returns(r)
           \/ pc' = "sh" /\ call.tool = "bash" /\ UNCHANGED <<call, edit, result>>
    PROVE  Plain'
<1>0. Len(stack) \in 1 .. 2 /\ g_harness \in Frame
  BY HarnessFacts DEF Plain, Typed
<1>1. /\ stack' \in Seq(Frame) /\ Len(stack') = Len(stack)
      /\ g_harness' = f
      /\ stack'[1] = IF Len(stack) = 1 THEN f ELSE stack[1]
      /\ Len(stack) = 1 => g_harness = stack[1]
  BY SetHarnessFacts, HarnessFacts DEF Plain
<1>2. Working' = Working
  BY <1>1 DEF Working
<1>3. \/ /\ pc' = IF Len(stack) = 1 THEN "post" ELSE "sub"
         /\ call' = NoCall /\ call'.tool = "none" /\ result' \in {"ok", "failed", "stuck"} /\ edit' = NoEdit
      \/ pc' = "sh" /\ call.tool = "bash" /\ UNCHANGED <<call, edit, result>>
  BY DEF Returns, ReturnsTo, NoCall, Call
<1>4. Typed'
  <2>1. call' \in Calls \cup {NoCall} /\ result' \in {"ok", "failed", "stuck"}
    BY <1>3 DEF Plain, Typed
  <2>2. edit' \in [at : Trees, read : Text, new : Text]
    BY <1>3, TreeFacts DEF Plain, Typed, NoEdit, HEAD, Text
  <2>3. pc' \in Gate \cup Busy \cup {"sub", "add", "score", "teardown"}
    BY <1>3 DEF Gate, Busy
  <2>4. QED
    BY <1>0, <1>1, <2>1, <2>2, <2>3 DEF Plain, Typed
<1>5. Control'
  <2>1. stack'[1].kind = "top" /\ (Len(stack') = 2 => g_harness'.kind \in {"sub", "worker"})
    BY <1>1 DEF Plain, Control
  <2>2. call \in Calls
    BY DEF Plain, Control, Busy
  <2>3. QED
    BY <1>0, <1>1, <1>2, <1>3, <2>1, <2>2 DEF Plain, Control, Gate, Busy, Filing
<1>6. Located'
  <2>1. stack'[1].cwd \notin Cands /\ (stack'[1].inwt => stack'[1].orig = "main")
    BY <1>1 DEF Plain, Located
  <2>2. Exists(g_harness.cwd)' => dir' = g_harness'.cwd
    BY <1>1 DEF Exists
  <2>3. QED
    BY <1>1, <1>2, <1>3, <2>1, <2>2 DEF Located
<1>7. ~Working => spec.n = 0 /\ registered = {}
  BY NoSpeculation DEF Plain
<1>8. Speculation'
  <2>1. CASE Working
    <3>1. Len(stack) = 2 /\ pc' \in {"sub", "sh"} /\ stack'[1] = stack[1]
      BY <1>1, <1>3, <2>1 DEF Working
    <3>2. QED
      BY <1>2, <2>1, <3>1 DEF Plain, Speculation, Exists, TornDown
  <2>2. CASE ~Working
    BY <1>2, <1>3, <1>7, <2>2 DEF Plain, Speculation
  <2>3. QED
    BY <2>1, <2>2
<1>9. AtWork' /\ BestSoFar'
  <2>1. pc' \in Busy => call' = call
    BY <1>3 DEF Busy, Filing
  <2>2. pc \in Busy
    BY DEF Busy
  <2>3. AtWork'
    BY <1>1, <1>2, <2>1, <2>2 DEF Plain, AtWork
  <2>4. QED
    BY <2>3 DEF Plain, BestSoFar, Good
<1>10. Strict'
  <2>1. pc' \in Busy => call' = call
    BY <1>3 DEF Busy, Filing
  <2>2. pc \in Busy
    BY DEF Busy
  <2>3. QED
    BY <1>0, <1>1, <1>3, <2>1, <2>2 DEF Plain, Strict
<1>11. QED
  BY <1>4, <1>5, <1>6, <1>8, <1>9, <1>10 DEF Plain

LEMMA WipedFacts ==
    ASSUME Typed, NEW ps, Wiped(ps)
    PROVE  tree' \in [Trees -> Text] /\ added' \subseteq Cands
  BY DEF Typed, Wiped, HEAD, Text

(* None of these tools is a worker's. *)
LEMMA NotAWorker ==
    ASSUME Plain, pc = "run",
           call.tool \in {"enter_plan_mode", "exit_plan_mode", "enter_worktree", "leave_worktree"}
    PROVE  ~Working
  BY DEF Plain, AtWork, Busy, WorkerTools

LEMMA ChangesDirStep ==
    ASSUME Plain, NEW risk, BashChangesDir(risk), UNCHANGED specVars
    PROVE  Plain'
<1>1. /\ pc = "run" /\ call.tool = "bash" /\ "cd" \in call.cmd
      /\ UNCHANGED <<profile, root, edits, tree, added, exists, spec, registered>>
  BY DEF BashChangesDir, Runs, treeVars, specVars
<1>2. call \in Calls /\ call.path \in {"main", "wt", "out"}
  BY <1>1, CallsAssumption DEF Plain, Control, Busy
<1>3. CASE ~Exists(call.path)
  BY <1>1, <1>3, QuietReturns DEF BashChangesDir, Busy, Filing, treeVars, specVars
<1>4. CASE Exists(call.path)
  <2> DEFINE f == [g_harness EXCEPT !.cwd = call.path]
  <2>1. /\ dir' = call.path /\ SetHarness(f)
        /\ \/ \E r \in {"ok", "failed", "stuck"} : Returns(r)
           \/ pc' = "sh" /\ UNCHANGED <<call, edit, result>>
    BY <1>4 DEF BashChangesDir, Moved
  <2>2. g_harness \in Frame
    BY HarnessFacts DEF Plain
  <2>3. /\ f \in Frame /\ f.kind = g_harness.kind /\ f.cwd = call.path
        /\ f.inwt = g_harness.inwt /\ f.orig = g_harness.orig
        /\ f.list = g_harness.list /\ f.plan = g_harness.plan
    BY <1>2, <2>2, TreeFacts DEF Frame
  <2> HIDE DEF f
  <2>4. /\ g_harness.inwt => g_harness.orig = "main"
        /\ Working => spec.strayed /\ ~g_harness.inwt
    BY <1>1 DEF Plain, Located, AtWork, Busy
  <2>5. /\ root' \in {"main", "wt"} /\ exists' \subseteq Trees \ {"main"}
        /\ tree' \in [Trees -> Text]
    BY <1>1 DEF Plain, Typed
  <2>6. dir' \in Places \ Cands /\ f.cwd \notin Cands /\ Exists(dir)'
    BY <1>1, <1>2, <1>4, <2>1, <2>3, TreeFacts DEF Exists
  <2>7. QED
    BY <1>1, <2>1, <2>3, <2>4, <2>5, <2>6, Shift
<1>5. QED
  BY <1>3, <1>4

LEMMA PlanStep ==
    ASSUME Plain, SetsPlanMode, UNCHANGED specVars
    PROVE  Plain'
<1> DEFINE f == [g_harness EXCEPT !.plan = call.tool = "enter_plan_mode"]
<1>1. /\ pc = "run" /\ call.tool \in {"enter_plan_mode", "exit_plan_mode"}
      /\ UNCHANGED <<profile, dir, root, edits, tree, added, exists, spec, registered>>
      /\ SetHarness(f) /\ Returns("ok")
  BY DEF SetsPlanMode, Runs, treeVars, specVars
<1>2. g_harness \in Frame
  BY HarnessFacts DEF Plain
<1>3. /\ f \in Frame /\ f.kind = g_harness.kind /\ f.cwd = g_harness.cwd
      /\ f.inwt = g_harness.inwt /\ f.orig = g_harness.orig
  BY <1>2 DEF Frame
<1> HIDE DEF f
<1>4. ~Working
  BY <1>1, NotAWorker
<1>5. /\ root' \in {"main", "wt"} /\ exists' \subseteq Trees \ {"main"}
      /\ tree' \in [Trees -> Text] /\ dir' \in Places
  BY <1>1 DEF Plain, Typed
<1>6. /\ dir' \notin Cands /\ f.cwd \notin Cands /\ (f.inwt => f.orig = "main")
      /\ Exists(dir)' /\ (f.cwd \in {"main", "out"} \cup exists' => dir' = f.cwd)
  BY <1>1, <1>3, <1>4 DEF Plain, Located, Exists
<1>7. QED
  BY <1>1, <1>3, <1>4, <1>5, <1>6, Shift

(* The worktree of the project. *)
LEMMA WorktreeWiped ==
    ASSUME Plain, Wiped({"wt"}), exists' \in {exists \cup {"wt"}, exists \ {"wt"}}
    PROVE  /\ tree' \in [Trees -> Text] /\ added' = added
           /\ exists' \subseteq Trees \ {"main"}
<1>1. tree' \in [Trees -> Text]
  BY WipedFacts DEF Plain
<1>2. added \subseteq Cands /\ exists \subseteq Trees \ {"main"} /\ "wt" \notin Cands /\ "wt" \in Trees
  BY TreeFacts DEF Plain, Typed
<1>3. QED
  BY <1>1, <1>2 DEF Wiped

LEMMA EnterStep ==
    ASSUME Plain, NEW ok \in BOOLEAN, enter_worktree(ok), UNCHANGED specVars
    PROVE  Plain'
<1>1. /\ pc = "run" /\ call.tool = "enter_worktree"
      /\ UNCHANGED <<profile, edits, spec, registered>> /\ Returns("ok")
  BY DEF enter_worktree, Runs, specVars
<1>2. CASE g_harness.inwt
  <2>1. UNCHANGED <<dir, root, stack>> /\ UNCHANGED treeVars
    BY <1>2 DEF enter_worktree
  <2>2. QED
    BY <1>1, <2>1, QuietReturns DEF Busy, Filing, specVars
<1>3. g_harness \in Frame /\ ~Working
  BY <1>1, NotAWorker, HarnessFacts DEF Plain
<1>4. g_harness.cwd \notin Cands /\ (Exists(g_harness.cwd) => dir = g_harness.cwd)
  BY <1>3 DEF Plain, Located
<1>5. CASE ~g_harness.inwt
  <2>1. dir \in {"main", "out"}
    BY <1>1, <1>5 DEF Plain, Located
  <2>2. CASE dir = "out" \/ ~ok
    <3> DEFINE f == [g_harness EXCEPT !.orig = dir]
    <3>1. /\ SetHarness(f) /\ UNCHANGED <<dir, root>>
          /\ \/ dir = "main" /\ exists' = exists \ {"wt"} /\ Wiped({"wt"})
             \/ UNCHANGED treeVars
      BY <1>5, <2>2 DEF enter_worktree
    <3>2. /\ f \in Frame /\ f.kind = g_harness.kind /\ f.cwd = g_harness.cwd /\ ~f.inwt
      BY <1>3, <1>5, <2>1 DEF Frame
    <3> HIDE DEF f
    <3>3. /\ tree' \in [Trees -> Text] /\ added' = added /\ exists' \subseteq exists
          /\ exists' \subseteq Trees \ {"main"}
      <4>1. CASE exists' = exists \ {"wt"} /\ Wiped({"wt"})
        BY <4>1, WorktreeWiped
      <4>2. CASE UNCHANGED treeVars
        BY <4>2 DEF treeVars, Plain, Typed
      <4>3. QED
        BY <3>1, <4>1, <4>2
    <3>4. dir' \in Places \ Cands /\ Exists(dir)' /\ root' \in {"main", "wt"}
      BY <2>1, <3>1, TreeFacts DEF Exists, Plain, Typed
    <3>5. f.cwd \in {"main", "out"} \cup exists' => dir' = f.cwd
      BY <1>4, <3>1, <3>2, <3>3 DEF Exists
    <3>6. QED
      BY <1>1, <1>3, <1>4, <3>1, <3>2, <3>3, <3>4, <3>5, Shift
  <2>3. CASE dir = "main" /\ ok
    <3> DEFINE f == [g_harness EXCEPT !.cwd = "wt", !.inwt = TRUE, !.orig = dir]
    <3>1. /\ SetHarness(f) /\ dir' = "wt" /\ root' = "wt"
          /\ exists' = exists \cup {"wt"} /\ Wiped({"wt"})
      BY <1>5, <2>3 DEF enter_worktree
    <3>2. /\ f \in Frame /\ f.kind = g_harness.kind /\ f.cwd = "wt" /\ f.orig = "main"
      BY <1>3, <2>3, TreeFacts DEF Frame
    <3> HIDE DEF f
    <3>3. /\ tree' \in [Trees -> Text] /\ added' = added
          /\ exists' \subseteq Trees \ {"main"}
      BY <3>1, WorktreeWiped
    <3>4. dir' \in Places \ Cands /\ Exists(dir)' /\ root' \in {"main", "wt"} /\ f.cwd \notin Cands
      BY <3>1, <3>2, TreeFacts DEF Exists
    <3>5. QED
      BY <1>1, <1>3, <3>1, <3>2, <3>3, <3>4, Shift
  <2>4. QED
    BY <2>1, <2>2, <2>3
<1>6. QED
  BY <1>2, <1>5

LEMMA LeaveStep ==
    ASSUME Plain, leave_worktree, UNCHANGED specVars
    PROVE  Plain'
<1>1. /\ pc = "run" /\ call.tool = "leave_worktree"
      /\ UNCHANGED <<profile, edits, spec, registered>> /\ Returns("ok")
  BY DEF leave_worktree, Runs, specVars
<1>2. CASE ~g_harness.inwt
  <2>1. UNCHANGED <<dir, root, stack>> /\ UNCHANGED treeVars
    BY <1>2 DEF leave_worktree
  <2>2. QED
    BY <1>1, <2>1, QuietReturns DEF Busy, Filing, specVars
<1>3. CASE g_harness.inwt
  <2> DEFINE f == [g_harness EXCEPT !.cwd = g_harness.orig, !.inwt = FALSE]
  <2>1. g_harness \in Frame /\ ~Working /\ g_harness.orig = "main"
    BY <1>1, <1>3, NotAWorker, HarnessFacts DEF Plain, Located
  <2>2. /\ SetHarness(f) /\ dir' = "main" /\ root' = "main"
        /\ \/ exists' = exists \ {"wt"} /\ Wiped({"wt"})
           \/ UNCHANGED treeVars
    BY <1>3, <2>1 DEF leave_worktree
  <2>3. /\ f \in Frame /\ f.kind = g_harness.kind /\ f.cwd = "main" /\ ~f.inwt
    BY <2>1, TreeFacts DEF Frame
  <2> HIDE DEF f
  <2>4. /\ tree' \in [Trees -> Text] /\ added' = added
        /\ exists' \subseteq Trees \ {"main"}
    <3>1. CASE exists' = exists \ {"wt"} /\ Wiped({"wt"})
      BY <3>1, WorktreeWiped
    <3>2. CASE UNCHANGED treeVars
      BY <3>2 DEF treeVars, Plain, Typed
    <3>3. QED
      BY <2>2, <3>1, <3>2
  <2>5. dir' \in Places \ Cands /\ Exists(dir)' /\ root' \in {"main", "wt"} /\ f.cwd \notin Cands
    BY <2>2, <2>3, TreeFacts DEF Exists
  <2>6. QED
    BY <1>1, <2>1, <2>2, <2>3, <2>4, <2>5, Shift
<1>4. QED
  BY <1>2, <1>3

-----------------------------------------------------------------------------
(* Calls, and the subagents that make calls of their own.                  *)

LEMMA ClassifyFacts ==
    ASSUME NEW c
    PROVE  /\ permission_classify(c) \in {"deny", "allow", "ask"}
           /\ c.tool \notin WriteTools \cup ReadTools \cup {"bash", "enter_plan_mode"}
                => permission_classify(c) = "ask"
           /\ c.tool \in WriteTools /\ permission_classify(c) = "allow"
                => c.path \notin {"protected", "abs"}
           /\ c.tool = "bash" /\ permission_classify(c) = "allow" => is_safe_command(c.cmd)
<1>1. CASE c.tool = "bash"
  BY <1>1 DEF permission_classify, WriteTools, ReadTools
<1>2. CASE c.tool \in ReadTools
  BY <1>2 DEF permission_classify, WriteTools, ReadTools
<1>3. CASE c.tool \in WriteTools
  BY <1>3 DEF permission_classify, WriteTools, ReadTools
<1>4. CASE c.tool \notin WriteTools \cup ReadTools \cup {"bash"}
  BY <1>4 DEF permission_classify
<1>5. QED
  BY <1>1, <1>2, <1>3, <1>4

(* With strict permissions and nobody to ask, only what is allowed runs. *)
LEMMA StrictAdmits ==
    ASSUME profile.mode = "strict", ~profile.approver,
           NEW plan, NEW c, NEW asked, NEW warned, NEW risk,
           Admits(profile, plan, c, asked, warned, risk)
    PROVE  permission_classify(c) = "allow"
<1>1. permission_gate(profile, c) # "deny"
  BY DEF Admits
<1>2. QED
  BY <1>1, ClassifyFacts DEF permission_gate

LEMMA AdmittedStep ==
    ASSUME Plain, NEW c \in Calls, Admitted(c), UNCHANGED specVars
    PROVE  Plain'
<1>1. /\ pc = "idle" /\ pc' = "pre" /\ call' = c /\ Bounded(c)
      /\ UNCHANGED <<profile, dir, root, stack, edit, result, edits>>
      /\ UNCHANGED <<tree, added, exists, spec, registered>>
  BY DEF Admitted, treeVars, specVars
<1>2. g_harness' = g_harness /\ Working' = Working /\ Len(stack) = 1 /\ ~Working
  BY <1>1 DEF g_harness, Working, Plain, Control, Gate
<1>3. Typed'
  BY <1>1 DEF Plain, Typed, Gate
<1>4. Control'
  BY <1>1, <1>2 DEF Plain, Control, Gate, Busy, Filing
<1>5. Located'
  BY <1>1, <1>2 DEF Plain, Located, Exists, Bounded
<1>6. AtWork' /\ BestSoFar'
  BY <1>1, <1>2 DEF Plain, AtWork, BestSoFar, Good
<1>7. Speculation'
  BY <1>1, <1>2 DEF Plain, Speculation, Exists, TornDown
<1>8. Strict'
  <2>1. profile.mode = "strict" /\ ~profile.approver => permission_classify(c) = "allow"
    BY StrictAdmits DEF Admitted
  <2>2. QED
    BY <1>1, <1>2, <2>1 DEF Strict
<1>9. QED
  BY <1>3, <1>4, <1>5, <1>6, <1>7, <1>8 DEF Plain

LEMMA SubCallStep ==
    ASSUME Plain, NEW c \in Calls, WorkerCalls(c)
    PROVE  Plain'
<1> DEFINE f == [g_harness EXCEPT !.turns = @ - 1]
<1>1. /\ pc = "sub" /\ pc' = "run" /\ call' = c /\ SetHarness(f) /\ g_harness.turns > 0
      /\ UNCHANGED <<profile, dir, root, edit, result, edits>>
      /\ UNCHANGED <<tree, added, exists, registered>>
  BY DEF WorkerCalls, SubCalls, treeVars
<1>0. /\ spec' \in SpecType /\ (~spec'.strayed => ~spec.strayed /\ ~Strays(c))
      /\ spec'.n = spec.n /\ spec'.home = spec.home /\ spec'.cands = spec.cands
      /\ spec'.best = spec.best /\ spec'.before = spec.before
  <2>1. spec \in SpecType /\ spec' = [spec EXCEPT !.strayed = @ \/ Strays(c)]
    BY DEF WorkerCalls, Plain, Typed
  <2>2. Strays(c) \in BOOLEAN /\ spec.strayed \in BOOLEAN
    BY <2>1 DEF Strays, SpecType
  <2>3. QED
    BY <2>1, <2>2 DEF SpecType
<1>2. g_harness \in Frame /\ Len(stack) = 2 /\ Len(stack) \in 1 .. 2
  BY <1>1, HarnessFacts DEF Plain, Control
<1>3. /\ f \in Frame /\ f.kind = g_harness.kind /\ f.cwd = g_harness.cwd /\ f.list = g_harness.list
      /\ f.plan = g_harness.plan /\ f.inwt = g_harness.inwt /\ f.orig = g_harness.orig
  <2>1. g_harness.turns - 1 \in 0 .. SubTurns
    BY <1>1, <1>2, WorkspaceAssumption DEF Frame
  <2>2. QED
    BY <1>2, <2>1 DEF Frame
<1> HIDE DEF f
<1>4. stack' \in Seq(Frame) /\ Len(stack') = 2 /\ g_harness' = f /\ stack'[1] = stack[1]
  BY <1>1, <1>2, <1>3, SetHarnessFacts DEF Plain
<1>5. Working' = Working
  BY <1>2, <1>3, <1>4 DEF Working
<1>6. /\ c.tool \notin {"spawn_subagent", "dispatch_agent", "dispatch_worker_task"}
      /\ c.tool = "enter_worktree" /\ ~g_harness.inwt => dir \in {"main", "out"}
      /\ Working => c.tool \in WorkerTools
      /\ Working /\ ~spec'.strayed => ~spec.strayed /\ "cd" \notin c.cmd /\ c.path # "abs"
  <2>1. c.tool \notin {"spawn_subagent", "dispatch_agent"} /\ Bounded(c)
        /\ Whitelisted(g_harness.list, c.tool)
    BY DEF WorkerCalls, SubCalls
  <2>2. ASSUME Working
        PROVE  c.tool \in WorkerTools
    <3>1. g_harness.list = WorkerTools
      BY <2>2 DEF Plain, AtWork
    <3>2. WorkerTools # {} /\ WorkerTools # {"*"} /\ "edit_file" \in WorkerTools
      BY DEF WorkerTools
    <3>3. QED
      BY <2>1, <3>1, <3>2 DEF Whitelisted
  <2>3. Working /\ ~spec'.strayed => ~spec.strayed /\ "cd" \notin c.cmd /\ c.path # "abs"
    BY <1>0 DEF Strays, Working
  <2>4. QED
    BY <1>2, <2>1, <2>2, <2>3 DEF Bounded
<1>7. Typed'
  BY <1>1, <1>4, <1>0 DEF Plain, Typed, Busy
<1>8. Control'
  BY <1>0, <1>1, <1>2, <1>3, <1>4, <1>5, <1>6 DEF Plain, Control, Gate, Busy, Filing
<1>9. Located'
  BY <1>1, <1>3, <1>4, <1>5, <1>6 DEF Plain, Located, Exists
<1>10. AtWork'
  BY <1>0, <1>1, <1>3, <1>4, <1>5, <1>6 DEF Plain, AtWork, Candidate
<1>11. Speculation'
  BY <1>0, <1>1, <1>4, <1>5 DEF Plain, Speculation, Exists, TornDown
<1>12. BestSoFar' /\ Strict'
  BY <1>0, <1>1, <1>2 DEF Plain, BestSoFar, Good, Strict
<1>13. QED
  BY <1>7, <1>8, <1>9, <1>10, <1>11, <1>12 DEF Plain

LEMMA SpawnStep ==
    ASSUME Plain, UNCHANGED specVars, spawn_subagent \/ \E role \in Roles : dispatch_agent(role)
    PROVE  Plain'
<1>1. PICK list \in SUBSET ToolNames, restricted \in BOOLEAN, guarded \in BOOLEAN :
        Spawns(list, restricted, guarded)
  <2>1. CASE spawn_subagent
    BY <2>1 DEF spawn_subagent
  <2>2. ASSUME NEW role \in Roles, dispatch_agent(role)
        PROVE  \E list \in SUBSET ToolNames, restricted \in BOOLEAN, guarded \in BOOLEAN :
                 Spawns(list, restricted, guarded)
    <3>1. role.tools \in SUBSET ToolNames /\ role.restricted \in BOOLEAN
      BY CallsAssumption DEF ToolNames
    <3>2. HasWrite(role.tools) \in BOOLEAN
      BY DEF HasWrite
    <3>3. QED
      BY <2>2, <3>1, <3>2, Zenon DEF dispatch_agent
  <2>3. QED
    BY <2>1, <2>2
<1>2. pc = "run" /\ call.tool \in {"spawn_subagent", "dispatch_agent"}
  BY DEF spawn_subagent, dispatch_agent, Runs
<1>3. Len(stack) = 1 /\ stack \in Seq(Frame) /\ g_harness \in Frame /\ g_harness = stack[1]
  BY <1>2, HarnessFacts DEF Plain, Control, Typed
<1> DEFINE f == [Harness("sub", g_harness.cwd, list, SubTurns) EXCEPT
                   !.restricted = restricted,
                   !.rollback = guarded /\ dir # "out" /\ Exists(dir)]
<1>4. /\ stack' = Append(stack, f) /\ pc' = "sub" /\ call' = NoCall /\ call'.tool = "none"
      /\ UNCHANGED <<profile, dir, root, edit, result, edits>>
      /\ UNCHANGED <<tree, added, exists, spec, registered>>
  BY <1>1 DEF Spawns, treeVars, specVars, NoCall, Call
<1>5. f \in Frame /\ f.kind = "sub" /\ f.cwd = g_harness.cwd /\ ~f.inwt
  <2>1. g_harness.cwd \in Places /\ SubTurns \in 0 .. SubTurns
    BY <1>3, WorkspaceAssumption DEF Frame
  <2>2. (guarded /\ dir # "out" /\ Exists(dir)) \in BOOLEAN
    BY DEF Exists
  <2>3. QED
    BY <2>1, <2>2 DEF Frame, Harness
<1> HIDE DEF f
<1>6. stack' \in Seq(Frame) /\ Len(stack') = 2 /\ stack'[1] = stack[1] /\ g_harness' = f
  BY <1>3, <1>4, <1>5, StackFacts DEF g_harness
<1>7. ~Working /\ ~Working'
  BY <1>3, <1>5, <1>6 DEF Working
<1>8. Typed'
  BY <1>4, <1>6 DEF Plain, Typed
<1>9. Control'
  BY <1>4, <1>5, <1>6, <1>7 DEF Plain, Control, Gate, Busy, Filing
<1>10. Located'
  BY <1>3, <1>4, <1>5, <1>6, <1>7 DEF Plain, Located, Exists
<1>11. AtWork' /\ BestSoFar'
  BY <1>4, <1>7 DEF Plain, AtWork, BestSoFar, Good
<1>12. Speculation'
  BY <1>2, <1>4, <1>6, <1>7 DEF Plain, Speculation, Exists, TornDown
<1>13. Strict'
  <2>1. permission_classify(call) = "ask"
    BY <1>2, ClassifyFacts DEF WriteTools, ReadTools
  <2>2. QED
    BY <1>2, <1>4, <2>1 DEF Plain, Strict, Busy
<1>14. QED
  BY <1>8, <1>9, <1>10, <1>11, <1>12, <1>13 DEF Plain

LEMMA SubEndStep ==
    ASSUME Plain, NEW failed \in BOOLEAN, SubEnds(failed), UNCHANGED specVars
    PROVE  Plain'
<1>1. /\ pc = "sub" /\ g_harness.kind = "sub" /\ stack' = Front(stack) /\ BackAt(Parent.cwd)
      /\ ReturnsTo(Len(stack) - 1) /\ result' = "ok"
      /\ UNCHANGED <<profile, root, added, exists, edits, spec, registered>>
  BY DEF SubEnds, specVars
<1>2. Len(stack) = 2 /\ stack \in Seq(Frame) /\ Parent = stack[1] /\ stack[1] \in Frame /\ ~Working
  BY <1>1, HarnessFacts DEF Plain, Control, Typed, Working
<1>3. stack' \in Seq(Frame) /\ Len(stack') = 1 /\ stack'[1] = stack[1] /\ g_harness' = stack[1]
  BY <1>1, <1>2, StackFacts DEF g_harness
<1>4. pc' = "post" /\ call' = NoCall /\ call'.tool = "none" /\ edit' = NoEdit
  BY <1>1, <1>2 DEF ReturnsTo, NoCall, Call
<1>5. dir' = IF Exists(stack[1].cwd) THEN stack[1].cwd ELSE dir
  BY <1>1, <1>2 DEF BackAt
<1>6. ~Working'
  BY <1>3 DEF Working
<1>7. Typed'
  <2>1. tree' \in [Trees -> Text]
    BY DEF SubEnds, Plain, Typed, HEAD, Text
  <2>2. edit' \in [at : Trees, read : Text, new : Text]
    BY <1>4, TreeFacts DEF NoEdit, HEAD, Text
  <2>3. dir' \in Places
    BY <1>2, <1>5 DEF Plain, Typed, Frame
  <2>4. QED
    BY <1>1, <1>3, <1>4, <2>1, <2>2, <2>3 DEF Plain, Typed, Gate
<1>8. Control'
  BY <1>3, <1>4 DEF Plain, Control, Gate, Busy, Filing
<1>9. Located'
  BY <1>1, <1>2, <1>3, <1>4, <1>5, <1>6 DEF Plain, Located, Exists
<1>10. AtWork' /\ BestSoFar'
  BY <1>1, <1>6 DEF Plain, AtWork, BestSoFar, Good
<1>11. Speculation'
  <2>1. spec.n = 0 /\ registered = {}
    BY <1>1, <1>2, NoSpeculation
  <2>2. QED
    BY <1>1, <1>4, <1>6, <2>1 DEF Plain, Speculation
<1>12. Strict'
  BY <1>1, <1>2, <1>3, <1>4 DEF Plain, Strict, Busy, Filing
<1>13. QED
  BY <1>7, <1>8, <1>9, <1>10, <1>11, <1>12 DEF Plain

-----------------------------------------------------------------------------
(* The speculation.                                                        *)

LEMMA NoSpecFacts ==
    /\ NoSpec \in SpecType
    /\ NoSpec.n = 0 /\ NoSpec.cands = <<>> /\ NoSpec.best = 0 /\ ~NoSpec.mods
    /\ ~NoSpec.strayed
<1>1. [p \in Kept |-> HEAD] \in [Kept -> Text]
  BY DEF HEAD, Text
<1>2. 0 \in 0 .. MaxCands /\ <<>> \in Seq(Outcome) /\ 0 \in Nat /\ "main" \in Places
  BY WorkspaceAssumption, TreeFacts
<1>3. QED
  BY <1>1, <1>2 DEF NoSpec, SpecType

(* The candidate that is worked on has a tree of its own. *)
LEMMA CandidateFacts ==
    ASSUME Typed, Len(spec.cands) < spec.n
    PROVE  Candidate \in Cands /\ Candidate \in TornDown
<1>1. Len(spec.cands) \in Nat /\ spec.n \in 0 .. MaxCands /\ MaxCands \in Nat
  BY WorkspaceAssumption DEF Typed, SpecType
<1>2. Len(spec.cands) + 1 \in 1 .. MaxCands /\ Len(spec.cands) + 1 \in 1 .. spec.n
  BY <1>1
<1>3. QED
  BY <1>2, TreeFacts DEF Candidate, TornDown

(* One more candidate is compared with the best so far. *)
LEMMA BestStep ==
    ASSUME Typed, BestSoFar, NEW r \in Outcome,
           spec'.cands = Append(spec.cands, r), spec'.best = Best(r)
    PROVE  BestSoFar' /\ spec'.best \in Nat
<1> DEFINE cs == spec.cands
           k  == Len(spec.cands) + 1
           ok == r.mods /\ r.passed
<1>1. cs \in Seq(Outcome) /\ Len(cs) \in Nat /\ spec.best \in Nat /\ r.churn \in 0 .. 1
      /\ \A i \in 1 .. Len(cs) : cs[i] \in Outcome /\ cs[i].churn \in 0 .. 1
  <2>1. cs \in Seq(Outcome) /\ spec.best \in Nat
    BY DEF Typed, SpecType
  <2>2. \A o \in Outcome : o.churn \in 0 .. 1
    BY DEF Outcome
  <2>3. \A i \in 1 .. Len(cs) : cs[i] \in Outcome
    BY <2>1
  <2>4. QED
    BY <2>1, <2>2, <2>3
<1>2. /\ Len(spec'.cands) = k /\ spec'.cands[k] = r
      /\ \A i \in 1 .. Len(cs) : spec'.cands[i] = cs[i]
  BY <1>1, AppendProperties
<1>3. Good \subseteq 1 .. Len(cs) /\ k \notin Good /\ \A i \in Good : i < k
  BY <1>1 DEF Good
<1>4. Good' = IF ok THEN Good \cup {k} ELSE Good
  <2>1. Good' = {i \in 1 .. k : spec'.cands[i].mods /\ spec'.cands[i].passed}
    BY <1>2 DEF Good
  <2>2. 1 .. k = (1 .. Len(cs)) \cup {k}
    BY <1>1
  <2>3. QED
    BY <1>2, <2>1, <2>2 DEF Good
<1>5. CASE ~ok
  <2>1. spec'.best = spec.best /\ Good' = Good
    BY <1>4, <1>5 DEF Best
  <2>2. CASE spec.best = 0
    BY <2>1, <2>2 DEF BestSoFar
  <2>3. CASE spec.best # 0
    <3>1. /\ spec.best \in Good
          /\ \A i \in Good \ {spec.best} :
               \/ cs[spec.best].churn < cs[i].churn
               \/ cs[spec.best].churn = cs[i].churn /\ spec.best < i
      BY <2>3 DEF BestSoFar
    <3>2. \A i \in Good : spec'.cands[i] = cs[i]
      BY <1>2, <1>3
    <3>3. QED
      BY <1>1, <2>1, <2>3, <3>1, <3>2 DEF BestSoFar
  <2>4. QED
    BY <2>2, <2>3
<1>6. CASE ok /\ spec.best = 0
  <2>1. spec'.best = k /\ Good' = {k} /\ k # 0 /\ k \in Nat
    BY <1>1, <1>4, <1>6 DEF Best, BestSoFar
  <2>2. QED
    BY <2>1 DEF BestSoFar
<1>7. CASE ok /\ spec.best # 0
  <2>1. /\ spec.best \in Good
        /\ \A i \in Good \ {spec.best} :
             \/ cs[spec.best].churn < cs[i].churn
             \/ cs[spec.best].churn = cs[i].churn /\ spec.best < i
    BY <1>7 DEF BestSoFar
  <2>2. spec.best \in 1 .. Len(cs) /\ cs[spec.best].mods /\ cs[spec.best].passed
        /\ cs[spec.best].churn \in 0 .. 1
    BY <1>1, <2>1 DEF Good
  <2>3. Score(r) > Score(cs[spec.best]) <=> r.churn < cs[spec.best].churn
    BY <1>1, <1>7, <2>2 DEF Score
  <2>4. /\ \A i \in Good : spec'.cands[i] = cs[i] /\ cs[i].churn \in 0 .. 1 /\ i \in Nat /\ i < k
        /\ Good' = Good \cup {k}
    BY <1>1, <1>2, <1>3, <1>4, <1>7
  <2>5. CASE r.churn < cs[spec.best].churn
    <3>1. spec'.best = k
      BY <1>7, <2>3, <2>5 DEF Best
    <3>2. k # 0 /\ k \in Nat
      BY <1>1
    <3>3. \A i \in Good : r.churn < cs[i].churn
      BY <1>1, <2>1, <2>2, <2>4, <2>5
    <3>4. QED
      BY <1>2, <2>4, <3>1, <3>2, <3>3 DEF BestSoFar
  <2>6. CASE ~(r.churn < cs[spec.best].churn)
    <3>1. spec'.best = spec.best
      BY <1>7, <2>3, <2>6 DEF Best
    <3>2. cs[spec.best].churn < r.churn \/ (cs[spec.best].churn = r.churn /\ spec.best < k)
      BY <1>1, <2>1, <2>2, <2>4, <2>6
    <3>3. \A i \in Good' \ {spec.best} :
            \/ spec'.cands[spec.best].churn < spec'.cands[i].churn
            \/ spec'.cands[spec.best].churn = spec'.cands[i].churn /\ spec.best < i
      <4>1. spec'.cands[spec.best] = cs[spec.best] /\ spec'.cands[k] = r
        BY <1>2, <2>2
      <4>2. ASSUME NEW i \in Good' \ {spec.best}, i # k
            PROVE  spec'.cands[i] = cs[i] /\ i \in Good \ {spec.best}
        BY <2>4, <4>2
      <4>3. QED
        BY <2>1, <3>2, <4>1, <4>2
    <3>4. spec.best \in Good'
      BY <2>1, <2>4
    <3>5. /\ spec'.best # 0 /\ spec'.best \in Good'
          /\ \A i \in Good' \ {spec'.best} :
               \/ spec'.cands[spec'.best].churn < spec'.cands[i].churn
               \/ spec'.cands[spec'.best].churn = spec'.cands[i].churn /\ spec'.best < i
      BY <1>7, <3>1, <3>3, <3>4
    <3>6. spec'.best \in Nat
      BY <1>1, <3>1
    <3>7. QED
      BY <3>5, <3>6 DEF BestSoFar
  <2>7. QED
    BY <2>5, <2>6
<1>8. QED
  BY <1>5, <1>6, <1>7

LEMMA SpeculatesStep ==
    ASSUME Plain, Speculates
    PROVE  Plain'
<1>1. /\ pc = "run" /\ call.tool = "dispatch_worker_task" /\ pc' = "add"
      /\ UNCHANGED <<profile, dir, root, stack, call, edit, result, edits, registered>>
      /\ UNCHANGED <<tree, added, exists>>
  BY DEF Speculates, Runs, treeVars
<1>2. call \in Calls /\ call.n \in 1 .. MaxCands /\ Len(stack) = 1
  BY <1>1, CallsAssumption DEF Plain, Control, Busy, Typed
<1>3. Exists(dir) /\ dir \in Places /\ tree \in [Trees -> Text] /\ dir \notin Cands
  BY <1>2 DEF Plain, Located, Typed, Working
<1>4. /\ spec' \in SpecType
      /\ spec'.n = call.n /\ spec'.home = dir /\ spec'.cands = <<>> /\ spec'.best = 0
  <2>1. [p \in Kept |-> tree[p]] \in [Kept -> Text]
    BY <1>3, TreeFacts DEF Kept
  <2>2. spec' = [NoSpec EXCEPT !.n = call.n, !.home = dir, !.before = [p \in Kept |-> tree[p]]]
    BY <1>3 DEF Speculates
  <2>3. call.n \in 0 .. MaxCands
    BY <1>2
  <2>4. QED
    BY <1>3, <2>1, <2>2, <2>3, NoSpecFacts DEF SpecType
<1>5. g_harness' = g_harness /\ Working' = Working /\ ~Working /\ g_harness = stack[1]
  BY <1>1, <1>2, HarnessFacts DEF g_harness, Working, Plain
<1>6. spec.n = 0 /\ registered = {}
  BY <1>1, <1>5, NoSpeculation
<1>7. Typed'
  BY <1>1, <1>4 DEF Plain, Typed, SpecType
<1>8. Control'
  BY <1>1, <1>2, <1>5 DEF Plain, Control, Gate, Busy, Filing
<1>9. Located'
  BY <1>1, <1>5 DEF Plain, Located, Exists
<1>10. AtWork'
  BY <1>5 DEF AtWork
<1>11. Speculation'
  <2>1. spec'.n > 0 /\ Len(spec'.cands) <= spec'.n
    BY <1>2, <1>4
  <2>2. Exists(spec.home)' /\ (Exists(stack[1].cwd)' => spec'.home = stack'[1].cwd)
    BY <1>1, <1>3, <1>4, <1>5 DEF Plain, Located, Exists
  <2>3. QED
    BY <1>1, <1>3, <1>4, <1>6, <2>1, <2>2 DEF Speculation
<1>12. BestSoFar'
  BY <1>4 DEF BestSoFar, Good
<1>13. Strict'
  <2>1. permission_classify(call) = "ask"
    BY <1>1, ClassifyFacts DEF WriteTools, ReadTools
  <2>2. QED
    BY <1>1, <2>1 DEF Plain, Strict, Busy
<1>14. QED
  BY <1>7, <1>8, <1>9, <1>10, <1>11, <1>12, <1>13 DEF Plain

LEMMA SkippedStep ==
    ASSUME Plain, CandidateIsSkipped
    PROVE  Plain'
<1>1. /\ pc = "add" /\ Len(spec.cands) < spec.n
      /\ UNCHANGED <<profile, dir, root, stack, tree, added, exists, pc, call, edit,
                     result, edits, registered>>
  BY DEF CandidateIsSkipped, wsVars
<1>2. /\ spec' = [spec EXCEPT !.cands = Append(@, Skipped)] /\ spec \in SpecType
      /\ Skipped \in Outcome /\ ~Skipped.mods
  BY DEF CandidateIsSkipped, Plain, Typed, SpecType, Skipped, Outcome
<1>3. /\ spec' \in SpecType /\ spec'.cands = Append(spec.cands, Skipped) /\ spec'.best = spec.best
      /\ spec'.n = spec.n /\ spec'.home = spec.home /\ spec'.strayed = spec.strayed
  <2>1. spec.cands \in Seq(Outcome)
    BY <1>2 DEF SpecType
  <2>2. Append(spec.cands, Skipped) \in Seq(Outcome)
    BY <1>2, <2>1, AppendProperties
  <2>3. QED
    BY <1>2, <2>2 DEF SpecType
<1>4. Len(spec'.cands) <= spec.n
  BY <1>1, <1>2, <1>3 DEF SpecType
<1>5. BestSoFar'
  BY <1>2, <1>3, BestStep DEF Plain, Best
<1>6. g_harness' = g_harness /\ Working' = Working /\ ~Working
  BY <1>1 DEF g_harness, Working, Plain, Control
<1>7. Typed'
  BY <1>1, <1>3 DEF Plain, Typed, SpecType
<1>8. Control' /\ Located' /\ AtWork' /\ Strict'
  <2>1. is_secret_path' = is_secret_path
    BY <1>1 DEF is_secret_path
  <2>2. Control'
    BY <1>1, <1>6, <2>1 DEF Plain, Control
  <2>3. QED
    BY <1>1, <1>6, <2>2 DEF Plain, Located, AtWork, Strict, Exists
<1>9. Speculation'
  BY <1>1, <1>3, <1>4, <1>6 DEF Plain, Speculation, Exists, TornDown
<1>10. QED
  BY <1>5, <1>7, <1>8, <1>9 DEF Plain

LEMMA WorkerStartStep ==
    ASSUME Plain, WorkerStarts
    PROVE  Plain'
<1> DEFINE f == Harness("worker", Candidate, WorkerTools, SubTurns)
<1>1. /\ pc = "add" /\ Len(spec.cands) < spec.n /\ pc' = "sub"
      /\ exists' = exists \cup {Candidate} /\ registered' = registered \cup {Candidate}
      /\ stack' = Append(stack, f) /\ dir' = Candidate /\ call' = NoCall /\ call'.tool = "none"
      /\ Wiped({Candidate}) /\ UNCHANGED <<profile, root, edit, result, edits, spec>>
  BY DEF WorkerStarts, shadow_worktree_register, NoCall, Call
<1>2. Candidate \in Cands /\ Candidate \in TornDown /\ Candidate \in Places /\ Candidate \in Trees
      /\ Candidate # "main" /\ Candidate' = Candidate /\ TornDown' = TornDown
  BY <1>1, CandidateFacts, TreeFacts DEF Plain, Candidate, TornDown
<1>3. Len(stack) = 1 /\ stack \in Seq(Frame) /\ stack[1] \in Frame
  BY <1>1, HarnessFacts DEF Plain, Control, Typed
<1>4. /\ f \in Frame /\ f.kind = "worker" /\ f.cwd = Candidate /\ f.list = WorkerTools
      /\ ~f.plan /\ ~f.inwt
  <2>1. SubTurns \in 0 .. SubTurns
    BY WorkspaceAssumption
  <2>2. WorkerTools \in SUBSET ToolNames
    BY DEF ToolNames
  <2>3. QED
    BY <1>2, <2>1, <2>2 DEF Frame, Harness
<1> HIDE DEF f
<1>5. stack' \in Seq(Frame) /\ Len(stack') = 2 /\ stack'[1] = stack[1] /\ g_harness' = f
  BY <1>1, <1>3, <1>4, StackFacts DEF g_harness
<1>6. Working'
  BY <1>4, <1>5 DEF Working
<1>7. Typed'
  <2>1. tree' \in [Trees -> Text] /\ added' \subseteq Cands
    BY <1>1, WipedFacts DEF Plain
  <2>2. exists' \subseteq Trees \ {"main"}
    BY <1>1, <1>2 DEF Plain, Typed
  <2>3. QED
    BY <1>1, <1>2, <1>5, <2>1, <2>2 DEF Plain, Typed
<1>8. Control'
  BY <1>1, <1>4, <1>5, <1>6 DEF Plain, Control, Gate, Busy, Filing
<1>9. Located'
  BY <1>1, <1>2, <1>4, <1>5, <1>6 DEF Plain, Located, Exists
<1>10. AtWork'
  BY <1>1, <1>2, <1>4, <1>5 DEF AtWork, Busy, Filing
<1>11. Speculation'
  <2>1. spec.n > 0
    BY <1>1 DEF Plain, Speculation
  <2>2. registered' \subseteq exists' /\ registered' \subseteq TornDown'
    BY <1>1, <1>2 DEF Plain, Speculation
  <2>3. Exists(stack[1].cwd)' => Exists(stack[1].cwd)
    BY <1>1, <1>2, <1>5 DEF Plain, Located, Exists
  <2>4. Exists(spec.home)'
    BY <1>1, <2>1 DEF Plain, Speculation, Exists
  <2>5. QED
    BY <1>1, <1>5, <1>6, <2>1, <2>2, <2>3, <2>4 DEF Plain, Speculation
<1>12. BestSoFar' /\ Strict'
  BY <1>1 DEF Plain, BestSoFar, Good, Strict
<1>13. QED
  BY <1>7, <1>8, <1>9, <1>10, <1>11, <1>12 DEF Plain

LEMMA WorkerEndStep ==
    ASSUME Plain, WorkerEnds
    PROVE  Plain'
<1>1. /\ pc = "sub" /\ g_harness.kind = "worker" /\ pc' = "score"
      /\ UNCHANGED <<profile, dir, root, stack, call, edit, result, edits, registered>>
      /\ UNCHANGED <<tree, added, exists>>
  BY DEF WorkerEnds, treeVars
<1>2. Working /\ g_harness' = g_harness /\ Working' = Working
  BY <1>1 DEF g_harness, Working, Plain, Control
<1>3. /\ spec' = [spec EXCEPT !.mods = Modified(Candidate)] /\ spec \in SpecType
      /\ Modified(Candidate) \in BOOLEAN
  BY DEF WorkerEnds, Plain, Typed, SpecType, Modified
<1>4. /\ spec' \in SpecType /\ spec'.cands = spec.cands /\ spec'.best = spec.best
      /\ spec'.n = spec.n /\ spec'.home = spec.home /\ spec'.strayed = spec.strayed
  BY <1>3 DEF SpecType
<1>5. Typed'
  BY <1>1, <1>4 DEF Plain, Typed, SpecType
<1>6. Control'
  BY <1>1, <1>2 DEF Plain, Control, Gate, Busy, Filing
<1>7. Located'
  BY <1>1, <1>2 DEF Plain, Located, Exists
<1>8. AtWork'
  BY <1>1, <1>2, <1>4 DEF Plain, AtWork, Candidate, Busy, Filing
<1>9. Speculation'
  BY <1>1, <1>2, <1>4 DEF Plain, Speculation, Exists, TornDown
<1>10. BestSoFar' /\ Strict'
  BY <1>1, <1>4 DEF Plain, BestSoFar, Good, Strict
<1>11. QED
  BY <1>5, <1>6, <1>7, <1>8, <1>9, <1>10 DEF Plain

LEMMA ScoredStep ==
    ASSUME Plain, NEW passed \in BOOLEAN, CandidateIsScored(passed)
    PROVE  Plain'
<1> DEFINE r == [mods |-> spec.mods, passed |-> passed, churn |-> Churn(Candidate)]
<1>1. /\ pc = "score" /\ pc' = "add"
      /\ spec' = [spec EXCEPT !.cands = Append(@, r), !.best = Best(r), !.mods = FALSE]
      /\ stack' = Front(stack) /\ BackAt(spec.home)
      /\ UNCHANGED <<profile, root, call, edit, result, edits, registered>>
      /\ UNCHANGED <<tree, added, exists>>
  BY DEF CandidateIsScored, treeVars
<1>2. /\ Working /\ Len(stack) = 2 /\ stack \in Seq(Frame) /\ stack[1] \in Frame /\ call = NoCall
      /\ call.tool = "none"
  BY <1>1, HarnessFacts DEF Plain, Control, Typed, Working, NoCall, Call
<1>3. stack' \in Seq(Frame) /\ Len(stack') = 1 /\ stack'[1] = stack[1] /\ g_harness' = stack[1]
  BY <1>1, <1>2, StackFacts DEF g_harness
<1>4. /\ spec.n > 0 /\ Exists(spec.home) /\ spec.home \notin Cands /\ Len(spec.cands) < spec.n
      /\ Exists(stack[1].cwd) => spec.home = stack[1].cwd
  BY <1>1, <1>2 DEF Plain, Speculation, AtWork
<1>5. dir' = spec.home
  BY <1>1, <1>4 DEF BackAt
<1>6. r \in Outcome
  BY DEF Plain, Typed, SpecType, Outcome, Churn
<1> HIDE DEF r
<1>7. spec \in SpecType /\ spec.cands \in Seq(Outcome)
  BY DEF Plain, Typed, SpecType
<1>8. Append(spec.cands, r) \in Seq(Outcome) /\ Len(Append(spec.cands, r)) = Len(spec.cands) + 1
  BY <1>6, <1>7, AppendProperties
<1>9. /\ spec'.cands = Append(spec.cands, r) /\ spec'.best = Best(r) /\ ~spec'.mods
      /\ spec'.n = spec.n /\ spec'.home = spec.home /\ spec'.before = spec.before
  BY <1>1, <1>7 DEF SpecType
<1>10. BestSoFar' /\ spec'.best \in Nat
  BY <1>6, <1>9, BestStep DEF Plain
<1>11. spec' \in SpecType
  <2>1. Best(r) \in Nat
    BY <1>9, <1>10
  <2>2. QED
    BY <1>1, <1>7, <1>8, <2>1 DEF SpecType
<1>12. Len(spec'.cands) <= spec'.n
  BY <1>4, <1>7, <1>8, <1>9 DEF SpecType
<1>13. ~Working'
  BY <1>3 DEF Working
<1>14. Typed'
  <2>1. dir' \in Places
    BY <1>5, <1>7 DEF SpecType
  <2>2. QED
    BY <1>1, <1>3, <1>11, <2>1 DEF Plain, Typed, SpecType
<1>15. Control'
  BY <1>1, <1>2, <1>3, <1>13 DEF Plain, Control, Gate, Busy, Filing
<1>16. Located'
  BY <1>1, <1>3, <1>4, <1>5, <1>13 DEF Plain, Located, Exists
<1>17. AtWork'
  BY <1>13 DEF AtWork
<1>18. Speculation'
  <2>1. TornDown' = TornDown
    BY <1>9 DEF TornDown
  <2>2. Exists(spec.home)' /\ (Exists(stack[1].cwd)' => Exists(stack[1].cwd))
    BY <1>1, <1>3, <1>4, <1>9 DEF Exists
  <2>3. QED
    BY <1>1, <1>3, <1>4, <1>5, <1>9, <1>12, <2>1, <2>2 DEF Plain, Speculation
<1>19. Strict'
  BY <1>1 DEF Plain, Strict
<1>20. QED
  BY <1>10, <1>14, <1>15, <1>16, <1>17, <1>18, <1>19 DEF Plain

LEMMA MergesStep ==
    ASSUME Plain, Merges
    PROVE  Plain'
<1>1. /\ pc = "add" /\ pc' = "teardown" /\ Len(spec.cands) = spec.n
      /\ UNCHANGED <<profile, dir, root, stack, added, exists, call, edit, result, edits>>
      /\ UNCHANGED <<spec, registered>>
  BY DEF Merges, specVars
<1>2. tree' \in [Trees -> Text]
  <2>1. ASSUME spec.best # 0 PROVE Cand[spec.best] \in Trees
    <3>1. spec.best \in 1 .. Len(spec.cands)
      BY <2>1 DEF Plain, BestSoFar, Good
    <3>2. spec.n \in 0 .. MaxCands /\ MaxCands \in Nat
      BY WorkspaceAssumption DEF Plain, Typed, SpecType
    <3>3. spec.best \in 1 .. MaxCands
      BY <1>1, <3>1, <3>2
    <3>4. QED
      BY <3>3, TreeFacts
  <2>2. QED
    BY <2>1 DEF Merges, Applies, Plain, Typed
<1>3. g_harness' = g_harness /\ Working' = Working /\ ~Working /\ is_secret_path' = is_secret_path
  BY <1>1, SMTT(30) DEF g_harness, Working, Plain, Control, is_secret_path
<1>4. Typed'
  BY <1>1, <1>2 DEF Plain, Typed
<1>5. Control'
  BY <1>1, <1>3 DEF Plain, Control, Gate, Busy, Filing
<1>6. Located' /\ AtWork'
  BY <1>1, <1>3 DEF Plain, Located, AtWork, Exists
<1>7. Speculation'
  BY <1>1, <1>3 DEF Plain, Speculation, Exists, TornDown
<1>8. BestSoFar' /\ Strict'
  BY <1>1 DEF Plain, BestSoFar, Good, Strict
<1>9. QED
  BY <1>4, <1>5, <1>6, <1>7, <1>8 DEF Plain

LEMMA TearDownStep ==
    ASSUME Plain, NEW removed \in SUBSET Cands, TearsDown(removed)
    PROVE  Plain'
<1>1. /\ pc = "teardown" /\ spec' = NoSpec /\ Returns("ok")
      /\ exists' = exists \ removed /\ registered' = registered \ TornDown /\ Wiped(removed)
      /\ UNCHANGED <<profile, dir, root, stack, edits>>
  BY DEF TearsDown, shadow_worktree_unregister
<1>2. Len(stack) = 1 /\ ~Working /\ g_harness' = g_harness /\ ~Working'
  BY <1>1 DEF g_harness, Working, Plain, Control
<1>3. /\ pc' = "post" /\ call' = NoCall /\ call'.tool = "none" /\ result' = "ok" /\ edit' = NoEdit
  BY <1>1, <1>2 DEF Returns, ReturnsTo, NoCall, Call
<1>4. removed \subseteq Cands /\ "main" \notin removed
  BY TreeFacts
<1>5. registered' = {}
  BY <1>1 DEF Plain, Speculation
<1>6. Typed'
  <2>1. tree' \in [Trees -> Text] /\ added' \subseteq Cands
    BY <1>1, WipedFacts DEF Plain
  <2>2. edit' \in [at : Trees, read : Text, new : Text]
    BY <1>3, TreeFacts DEF NoEdit, HEAD, Text
  <2>3. exists' \subseteq Trees \ {"main"}
    BY <1>1 DEF Plain, Typed
  <2>4. spec' \in SpecType
    BY <1>1, NoSpecFacts
  <2>5. QED
    BY <1>1, <1>3, <2>1, <2>2, <2>3, <2>4 DEF Plain, Typed, SpecType, Gate
<1>7. Control'
  BY <1>1, <1>2, <1>3 DEF Plain, Control, Gate, Busy, Filing
<1>8. Located'
  <2>1. dir \notin Cands /\ Exists(dir)
    BY <1>2 DEF Plain, Located
  <2>2. Exists(dir)' /\ (Exists(g_harness.cwd)' => Exists(g_harness.cwd))
    BY <1>1, <1>2, <1>4, <2>1 DEF Exists
  <2>3. QED
    BY <1>1, <1>2, <1>3, <2>1, <2>2 DEF Plain, Located
<1>9. AtWork'
  BY <1>2 DEF AtWork
<1>10. Speculation'
  BY <1>1, <1>2, <1>3, <1>5, NoSpecFacts DEF Speculation
<1>11. BestSoFar'
  BY <1>1, NoSpecFacts DEF BestSoFar, Good
<1>12. Strict'
  BY <1>1, <1>2, <1>3 DEF Strict, Plain, Busy, Filing
<1>13. QED
  BY <1>6, <1>7, <1>8, <1>9, <1>10, <1>11, <1>12 DEF Plain

LEMMA TestsStep ==
    ASSUME Plain, NEW text \in Text, TestsWrite(text)
    PROVE  Plain'
<1>1. /\ UNCHANGED <<profile, dir, root, stack, exists, spec, registered, call, pc>>
      /\ UNCHANGED <<added, edit, edits, result>>
      /\ pc = "score" /\ tree' = [tree EXCEPT ![Candidate] = text]
  BY DEF TestsWrite, specVars
<1>2. DataTyped'
  <2>1. tree' \in [Trees -> Text]
    BY <1>1 DEF Plain, Typed
  <2>2. QED
    BY <1>1, <2>1, TypedData DEF Plain, DataTyped
<1>3. g_harness' = g_harness /\ Working' = Working /\ is_secret_path' = is_secret_path
  BY <1>1 DEF g_harness, Working, is_secret_path
<1>4. Control'
  BY <1>1, <1>3 DEF Plain, Control
<1>5. call' \in Calls \cup {NoCall}
  BY <1>1 DEF Plain, Typed
<1>6. QED
  BY <1>1, <1>2, <1>4, <1>5, Steady DEF Busy, Filing

(* What the edits of others leave of the speculation. *)
LEMMA OthersSpec ==
    ASSUME Typed, NEW p \in Trees, NEW text \in Text, OthersEdit(p, text)
    PROVE  /\ spec' \in SpecType /\ spec'.n = spec.n /\ spec'.home = spec.home
           /\ spec'.cands = spec.cands /\ spec'.best = spec.best /\ spec'.mods = spec.mods
           /\ spec'.strayed = spec.strayed
           /\ \A q \in Kept : tree[q] = spec.before[q] /\ spec.n > 0 => tree'[q] = spec'.before[q]
<1>1. spec \in SpecType /\ tree \in [Trees -> Text] /\ Kept \subseteq Trees
  BY TreeFacts DEF Typed, SpecType, Kept
<1>2. tree' = [tree EXCEPT ![p] = text]
  BY DEF OthersEdit
<1>3. CASE p \in Kept /\ spec.n > 0
  <2>1. spec' = [spec EXCEPT !.before = [spec.before EXCEPT ![p] = text]]
    BY <1>3 DEF OthersEdit
  <2>2. [spec.before EXCEPT ![p] = text] \in [Kept -> Text]
    BY <1>1 DEF SpecType
  <2>3. /\ spec' \in SpecType /\ spec'.before = [spec.before EXCEPT ![p] = text]
        /\ spec'.n = spec.n /\ spec'.home = spec.home
        /\ spec'.cands = spec.cands /\ spec'.best = spec.best /\ spec'.mods = spec.mods
        /\ spec'.strayed = spec.strayed
    BY <1>1, <2>1, <2>2 DEF SpecType
  <2>4. \A q \in Kept : tree[q] = spec.before[q] => tree'[q] = spec'.before[q]
    BY <1>1, <1>2, <2>3 DEF SpecType
  <2>5. QED
    BY <2>3, <2>4
<1>4. CASE ~(p \in Kept /\ spec.n > 0)
  BY <1>1, <1>2, <1>4 DEF OthersEdit
<1>5. QED
  BY <1>3, <1>4

LEMMA OthersStep ==
    ASSUME Plain, NEW p \in Trees, NEW text \in Text, OthersEdit(p, text)
    PROVE  Plain'
<1>1. /\ UNCHANGED <<profile, dir, root, stack, added, exists, pc, call, edit, result, registered>>
      /\ edits < MaxEdits /\ edits' = edits + 1
  BY DEF OthersEdit
<1>2. /\ spec' \in SpecType /\ spec'.n = spec.n /\ spec'.home = spec.home
      /\ spec'.cands = spec.cands /\ spec'.best = spec.best /\ spec'.strayed = spec.strayed
  BY OthersSpec DEF Plain
<1>3. g_harness' = g_harness /\ Working' = Working /\ is_secret_path' = is_secret_path
  BY <1>1 DEF g_harness, Working, is_secret_path
<1>4. Typed'
  <2>1. tree' \in [Trees -> Text]
    BY DEF OthersEdit, Plain, Typed
  <2>2. edits' \in 0 .. MaxEdits
    BY <1>1, WorkspaceAssumption DEF Plain, Typed
  <2>3. QED
    BY <1>1, <1>2, <2>1, <2>2 DEF Plain, Typed, SpecType
<1>5. Control'
  BY <1>1, <1>2, <1>3 DEF Plain, Control
<1>6. Located' /\ AtWork'
  BY <1>1, <1>2, <1>3 DEF Plain, Located, AtWork, Exists, Candidate
<1>7. Speculation'
  BY <1>1, <1>2, <1>3 DEF Plain, Speculation, Exists, TornDown
<1>8. BestSoFar' /\ Strict'
  BY <1>1, <1>2 DEF Plain, BestSoFar, Good, Strict
<1>9. QED
  BY <1>4, <1>5, <1>6, <1>7, <1>8 DEF Plain

-----------------------------------------------------------------------------
(* The invariant.                                                          *)

LEMMA InitPlain == Init => Plain
<1> SUFFICES ASSUME Init PROVE Plain
  OBVIOUS
<1> DEFINE f == Harness("top", "main", profile.tools, 0)
<1>1. /\ profile \in Profiles /\ dir = "main" /\ root = "main" /\ stack = <<f>>
      /\ tree = [p \in Trees |-> HEAD] /\ added = {} /\ exists = {} /\ pc = "idle"
      /\ call = NoCall /\ call.tool = "none" /\ edit = NoEdit /\ result = "ok" /\ edits = 0
      /\ spec = NoSpec /\ registered = {}
  BY DEF Init, InitWorkspace, NoCall, Call
<1>2. /\ f \in Frame /\ f.kind = "top" /\ f.cwd = "main" /\ ~f.inwt
  <2>1. profile.tools \in SUBSET ToolNames
    BY <1>1 DEF ToolNames
  <2>2. 0 \in 0 .. SubTurns /\ "main" \in Places
    BY WorkspaceAssumption, TreeFacts
  <2>3. QED
    BY <2>1, <2>2 DEF Frame, Harness
<1> HIDE DEF f
<1>3. stack \in Seq(Frame) /\ Len(stack) = 1 /\ stack[1] = f /\ g_harness = f
  BY <1>1, <1>2 DEF g_harness, Last
<1>4. ~Working
  BY <1>3 DEF Working
<1>5. Typed
  <2>1. tree \in [Trees -> Text]
    BY <1>1 DEF HEAD, Text
  <2>2. edit \in [at : Trees, read : Text, new : Text] /\ dir \in Places
    BY <1>1, TreeFacts DEF NoEdit, HEAD, Text
  <2>3. edits \in 0 .. MaxEdits
    BY <1>1, WorkspaceAssumption
  <2>4. spec \in SpecType
    BY <1>1, NoSpecFacts
  <2>5. QED
    BY <1>1, <1>3, <2>1, <2>2, <2>3, <2>4 DEF Typed, SpecType, Gate
<1>6. Control
  BY <1>1, <1>2, <1>3 DEF Control, Gate, Busy, Filing
<1>7. Located /\ AtWork
  BY <1>1, <1>2, <1>3, <1>4, TreeFacts DEF Located, AtWork, Exists
<1>8. Speculation /\ BestSoFar
  BY <1>1, <1>4, NoSpecFacts DEF Speculation, BestSoFar, Good
<1>9. Strict
  BY <1>1, <1>3 DEF Strict, Busy, Filing
<1>10. QED
  BY <1>5, <1>6, <1>7, <1>8, <1>9 DEF Plain

LEMMA PlainStep == Plain /\ [Next]_vars => Plain'
<1> SUFFICES ASSUME Plain, [Next]_vars PROVE Plain'
  OBVIOUS
<1>1. CASE UNCHANGED vars
  <2>1. /\ g_harness' = g_harness /\ Working' = Working /\ is_secret_path' = is_secret_path
        /\ UNCHANGED <<Candidate, TornDown, Good>>
    BY <1>1 DEF vars, g_harness, Working, is_secret_path, Candidate, TornDown, Good
  <2>2. Typed' /\ Control' /\ Strict'
    BY <1>1, <2>1 DEF vars, Plain, Typed, Control, Strict
  <2>3. Located' /\ AtWork' /\ Speculation' /\ BestSoFar'
    BY <1>1, <2>1 DEF vars, Plain, Located, AtWork, Speculation, BestSoFar, Exists
  <2>4. QED
    BY <2>2, <2>3 DEF Plain
<1>2. CASE Progress
  BY <1>2, HookStep, QuietStep, FileReadStep, FileWriteStep, StartStep, ChangesDirStep, PlanStep,
     LeaveStep, EnterStep, SpawnStep, SubEndStep, SpeculatesStep, SkippedStep, WorkerStartStep,
     WorkerEndStep, MergesStep, TearDownStep
     DEF Progress
<1>3. CASE ProgramsExit
  BY <1>3, HookStep, FileWriteStep, QuietStep, ScoredStep DEF ProgramsExit
<1>4. CASE /\ \/ \E c \in Calls : Admitted(c)
              \/ \E blocks \in BOOLEAN : HookEnds(blocks)
              \/ \E p \in Trees, text \in Text : ProgramWrites(p, text)
              \/ \E p \in Cands : ProgramAdds(p)
              \/ \E diag \in BOOLEAN : PreflightEnds(diag)
              \/ ProgramEnds
              \/ HookIsWaitedFor \/ PreflightIsWaitedFor \/ TestIsWaitedFor
           /\ UNCHANGED specVars
  BY <1>4, AdmittedStep, HookStep, WriteStep, FileWriteStep, QuietStep, StartStep
<1>5. CASE \/ \E c \in Calls : WorkerCalls(c)
           \/ \E text \in Text : TestsWrite(text)
           \/ \E p \in Trees, text \in Text : OthersEdit(p, text)
  BY <1>5, SubCallStep, TestsStep, OthersStep
<1>6. QED
  BY <1>1, <1>2, <1>3, <1>4, <1>5 DEF Next

(* The inductive invariant of the workspace and its workers. *)
THEOREM WorkersInvariant == Spec => []Plain
  BY InitPlain, PlainStep, PTL DEF Spec

(* Between calls the directory of the process is the one the harness shows *)
(* and starts its shells in, after any nesting of cd, worktrees, subagents *)
(* and workers, as long as that directory exists.                          *)
THEOREM DirectoriesAgree == Spec => []CwdAgrees
<1>1. Plain => CwdAgrees
  BY DEF Plain, Located, CwdAgrees
<1>2. QED
  BY <1>1, WorkersInvariant, PTL

LEMMA PlainTypeOK == Plain => TypeOK
<1> SUFFICES ASSUME Plain PROVE TypeOK
  OBVIOUS
<1>1. registered \subseteq exists /\ Len(spec.cands) <= spec.n
  BY DEF Plain, Speculation
<1>2. spec.best \in 0 .. Len(spec.cands)
  <2>1. spec.best \in Nat /\ Len(spec.cands) \in Nat
    BY DEF Plain, Typed, SpecType
  <2>2. spec.best = 0 \/ spec.best \in 1 .. Len(spec.cands)
    BY DEF Plain, BestSoFar, Good
  <2>3. QED
    BY <2>1, <2>2
<1>3. QED
  BY <1>1, <1>2 DEF Plain, Typed, SpecType, TypeOK, Gate, Busy, Filing

LEMMA PlainMerges == Plain => BestIsMerged
<1> SUFFICES ASSUME Plain PROVE BestIsMerged
  OBVIOUS
<1>1. ASSUME pc = "teardown" PROVE Len(spec.cands) = spec.n
  BY <1>1 DEF Plain, Speculation
<1>2. BestIsMerged
  BY <1>1 DEF Plain, BestSoFar, Good, BestIsMerged
<1>3. QED
  BY <1>2

-----------------------------------------------------------------------------
(* What changes a tree.                                                    *)

(* The programs of a call, and what they do to a tree. *)
ProgramChanges ==
    \E text \in Text : \E p \in Writable(text) :
        tree' = [tree EXCEPT ![p] = text] /\ UNCHANGED <<pc, call, stack, spec>>

(* All that may be left of a speculation's worktrees. *)
Teardown == \E removed \in SUBSET Cands : TearsDown(removed)

LEMMA TreeChange ==
    ASSUME Plain, Next, tree' # tree, Own
    PROVE  \/ pc = "write" /\ UNCHANGED call
           \/ pc \in {"check", "checkwait"} /\ \E diag \in BOOLEAN : FileToolEnds(diag)
           \/ pc \in {"sh", "tool", "test", "testwait"} /\ ProgramChanges
           \/ pc = "run" /\ call.tool \in {"enter_worktree", "leave_worktree"}
           \/ pc = "sub" /\ g_harness.kind = "sub"
           \/ WorkerStarts \/ Merges \/ Teardown
           \/ pc = "score" /\ \E text \in Text : TestsWrite(text)
<1>1. ~\E p \in Trees, text \in Text : OthersEdit(p, text)
  <2>1. edits \in Nat
    BY WorkspaceAssumption DEF Plain, Typed
  <2>2. QED
    BY <2>1 DEF OthersEdit, Own
<1>2. ASSUME NEW p \in Trees, NEW text \in Text, ProgramWrites(p, text), UNCHANGED specVars
      PROVE  pc \in {"sh", "tool", "test", "testwait"} /\ ProgramChanges
  BY <1>2 DEF ProgramWrites, Writable, ProgramChanges, specVars
<1>3. ASSUME Progress
      PROVE  \/ FileToolWrites \/ PreflightTimesOut
             \/ leave_worktree \/ \E ok \in BOOLEAN : enter_worktree(ok)
             \/ \E failed \in BOOLEAN : SubEnds(failed)
             \/ WorkerStarts \/ Merges \/ Teardown
  BY <1>3 DEF Progress, HookTimesOut, AfterHook, read_file, FileToolRefuses, FileToolReads,
     FileToolCannotWrite, BashRefuses, BashInBackground, BashChangesDir, BashStarts, exec_remote,
     ScriptStarts, NoRunnerFound, ProgramIsKilled, Teardown, SetsPlanMode, spawn_subagent,
     dispatch_agent, Spawns,
     Speculates, CandidateIsSkipped, WorkerEnds, treeVars, wsVars
<1>4. ASSUME ProgramsExit PROVE \E diag \in BOOLEAN : PreflightExits(diag)
  BY <1>4 DEF ProgramsExit, HookExits, AfterHook, TestExits, CandidateIsScored, treeVars
<1>5. ASSUME \/ \E c \in Calls : Admitted(c) \/ WorkerCalls(c)
             \/ \E blocks \in BOOLEAN : HookEnds(blocks)
             \/ \E p \in Cands : ProgramAdds(p)
             \/ ProgramEnds \/ HookIsWaitedFor \/ PreflightIsWaitedFor \/ TestIsWaitedFor
      PROVE  FALSE
  BY <1>5 DEF Admitted, WorkerCalls, SubCalls, HookEnds, AfterHook, ProgramAdds, ProgramEnds,
     HookIsWaitedFor, PreflightIsWaitedFor, TestIsWaitedFor, treeVars
<1>6. \/ FileToolWrites \/ \E diag \in BOOLEAN : PreflightEnds(diag) \/ PreflightExits(diag)
      \/ PreflightTimesOut
      \/ leave_worktree \/ \E ok \in BOOLEAN : enter_worktree(ok)
      \/ \E failed \in BOOLEAN : SubEnds(failed)
      \/ WorkerStarts \/ Merges \/ Teardown
      \/ pc \in {"sh", "tool", "test", "testwait"} /\ ProgramChanges
      \/ \E text \in Text : TestsWrite(text)
  BY <1>1, <1>2, <1>3, <1>4, <1>5 DEF Next
<1>7. QED
  BY <1>6 DEF FileToolWrites, PreflightEnds, PreflightExits, PreflightTimesOut, leave_worktree,
     enter_worktree, SubEnds, TestsWrite, Runs

(* The configuration of the process is read once, and only others edit. *)
LEMMA StepFrame ==
    Next => profile' = profile /\ (Own \/ \E p \in Trees, text \in Text : OthersEdit(p, text))
<1>1. Progress => profile' = profile /\ Own
  BY DEF Progress, HookTimesOut, AfterHook, read_file, FileToolRefuses, FileToolReads,
     FileToolWrites, FileToolCannotWrite, PreflightTimesOut, FileToolEnds,
     BashRefuses, BashInBackground, BashChangesDir, BashStarts, exec_remote, ScriptStarts,
     NoRunnerFound, ProgramIsKilled, SetsPlanMode, leave_worktree, enter_worktree,
     spawn_subagent, dispatch_agent, Spawns, SubEnds,
     Speculates, CandidateIsSkipped, WorkerStarts, WorkerEnds, Merges, Teardown, TearsDown,
     wsVars, Own
<1>2. ProgramsExit => profile' = profile /\ Own
  BY DEF ProgramsExit, HookExits, AfterHook, PreflightExits, FileToolEnds, TestExits,
     CandidateIsScored, Own
<1>3. QED
  BY <1>1, <1>2 DEF Next, Admitted, WorkerCalls, SubCalls, TestsWrite, HookEnds, AfterHook,
     ProgramWrites, ProgramAdds, PreflightEnds, FileToolEnds, ProgramEnds, HookIsWaitedFor,
     PreflightIsWaitedFor,
     TestIsWaitedFor, OthersEdit, Own

(* A call that is over while its compiler runs ends as FileToolEnds says. *)
LEMMA CheckEnds ==
    ASSUME Next, pc \in {"check", "checkwait"}, call' # call
    PROVE  \E diag \in BOOLEAN : FileToolEnds(diag)
<1>1. CASE Progress
  BY <1>1 DEF Progress, HookTimesOut, read_file, FileToolRefuses, FileToolReads,
     FileToolWrites, FileToolCannotWrite, PreflightTimesOut,
     BashRefuses, BashInBackground, BashChangesDir, BashStarts, exec_remote, ScriptStarts,
     NoRunnerFound, ProgramIsKilled, SetsPlanMode, leave_worktree, enter_worktree,
     spawn_subagent, dispatch_agent, SubEnds,
     Speculates, CandidateIsSkipped, WorkerStarts, WorkerEnds, Merges, Teardown,
     TearsDown, Runs
<1>2. CASE ProgramsExit
  BY <1>2 DEF ProgramsExit, HookExits, PreflightExits, TestExits, CandidateIsScored
<1>3. QED
  BY <1>1, <1>2 DEF Next, Admitted, WorkerCalls, SubCalls, TestsWrite, HookEnds, ProgramWrites,
     ProgramAdds, PreflightEnds, ProgramEnds, HookIsWaitedFor, PreflightIsWaitedFor,
     TestIsWaitedFor, OthersEdit

-----------------------------------------------------------------------------
(* The action properties.                                                  *)

(* Where a program confined by the kernel can write: in the trees below    *)
(* the cwd of its harness and in those of the candidates; in plan mode     *)
(* only in these, but for files that are emptied.                          *)
LEMMA ConfinedFacts ==
    ASSUME Landlock, NEW text, NEW p \in Writable(text), pc = "sh"
    PROVE  /\ p \in Trees /\ sandbox_apply(p)
           /\ g_harness.plan => p \in Cands \/ text = Empty
  BY DEF Writable, Confined, apply_plan_mode_kernel_sandbox

(* In plan mode no file tool changes a tree of the operator's, and no      *)
(* command in the foreground does more than empty a file, whatever calls,  *)
(* hooks, subagents and worktrees came before, on a kernel that confines   *)
(* what sandbox_apply asks it to: the texts plan mode looks for do not     *)
(* stop every command that writes.                                         *)
THEOREM PlanModeHolds ==
    ASSUME Landlock
    PROVE  Spec => PlanHolds
<1> DEFINE A == Own /\ g_harness.plan /\ call.tool \in WriteTools \cup {"bash"} =>
                  \A p \in Kept : tree'[p] = tree[p] \/ (call.tool = "bash" /\ tree'[p] = Empty)
<1>1. Plain /\ [Next]_vars => [A]_vars
  <2> SUFFICES ASSUME Plain, Next, Own, g_harness.plan, call.tool \in WriteTools \cup {"bash"},
                      tree' # tree, NEW q \in Kept, tree'[q] # tree[q]
               PROVE  call.tool = "bash" /\ tree'[q] = Empty
    OBVIOUS
  <2>1. pc \notin Filing
    BY DEF Plain, Control
  <2>2. CASE pc \in {"sh", "tool", "test", "testwait"} /\ ProgramChanges
    <3>1. pc = "sh" /\ call.tool = "bash"
      BY <2>2 DEF Plain, Control, WriteTools
    <3>2. PICK text \in Text : \E p \in Writable(text) : tree' = [tree EXCEPT ![p] = text]
      BY <2>2 DEF ProgramChanges
    <3>3. PICK p \in Writable(text) : tree' = [tree EXCEPT ![p] = text]
      BY <3>2
    <3>4. tree \in [Trees -> Text] /\ q \in Trees /\ q \notin Cands
      BY TreeFacts DEF Plain, Typed, Kept
    <3>5. p = q
      BY <3>3, <3>4
    <3>6. text = Empty
      BY <3>1, <3>4, <3>5, ConfinedFacts
    <3>7. QED
      BY <3>1, <3>3, <3>4, <3>5, <3>6
  <2>3. ~(pc = "run" /\ call.tool \in {"enter_worktree", "leave_worktree"})
    BY DEF WriteTools
  <2>4. pc # "sub" /\ pc # "score"
    BY DEF Plain, Control, NoCall, Call, WriteTools
  <2>5. pc \notin {"add", "teardown"}
    BY DEF Plain, Control, WriteTools
  <2>6. ~(WorkerStarts \/ Merges \/ Teardown)
    BY <2>5 DEF WorkerStarts, Merges, Teardown, TearsDown
  <2>7. QED
    BY <2>1, <2>2, <2>3, <2>4, <2>6, TreeChange DEF Filing
<1>2. QED
  BY <1>1, WorkersInvariant, PTL DEF Spec, PlanHolds

(* With strict permissions and nobody to ask, no sequence of calls gets a  *)
(* subagent, a worker or a script started, or a tree changed by anything   *)
(* but a file tool on a relative path or a command of the allowlist.       *)
THEOREM StrictContains == Spec => StrictIsContained
<1> DEFINE Safe == \/ call.tool \in WriteTools /\ call.path = "rel"
                   \/ call.tool = "bash" /\ is_safe_command(call.cmd)
                   \/ call.tool \in {"enter_worktree", "leave_worktree"}
           A == profile.mode = "strict" /\ ~profile.approver =>
                  /\ Len(stack') = 1
                  /\ Own /\ tree' # tree => Safe
<1>1. Plain /\ Plain' /\ [Next]_vars => [A]_vars
  <2> SUFFICES ASSUME Plain, Plain', Next, profile.mode = "strict", ~profile.approver
               PROVE  Len(stack') = 1 /\ (Own /\ tree' # tree => Safe)
    OBVIOUS
  <2>1. Len(stack') = 1
    BY StepFrame DEF Plain, Strict
  <2>2. ASSUME Own, tree' # tree PROVE Safe
    <3>1. Len(stack) = 1 /\ pc \notin {"sub", "add", "score", "teardown"}
          /\ (pc \in Busy => permission_classify(call) = "allow")
      BY DEF Plain, Strict
    <3>2. ~(WorkerStarts \/ Merges \/ Teardown)
      BY <3>1 DEF WorkerStarts, Merges, Teardown, TearsDown
    <3>3. CASE pc \in Filing
      <4>1. /\ call.tool \in WriteTools /\ call.path \notin {"protected", "secret"}
            /\ call \in Calls /\ pc \in Busy
        BY <3>3 DEF Plain, Control, is_secret_path, Busy
      <4>2. call.path \notin {"protected", "abs"}
        BY <3>1, <4>1, ClassifyFacts
      <4>3. call.path \in {"rel", "abs", "secret", "protected"}
        BY <4>1, CallsAssumption
      <4>4. QED
        BY <4>1, <4>2, <4>3
    <3>4. CASE pc = "sh"
      <4>1. call.tool = "bash" /\ permission_classify(call) = "allow"
        BY <3>1, <3>4 DEF Plain, Control, Busy
      <4>2. QED
        BY <4>1, ClassifyFacts
    <3>5. CASE pc \in {"tool", "test", "testwait"}
      <4>1. call.tool \in {"custom", "run_test_cycle"} /\ permission_classify(call) = "allow"
        BY <3>1, <3>5 DEF Plain, Control, Busy
      <4>2. permission_classify(call) = "ask"
        BY <4>1, ClassifyFacts DEF WriteTools, ReadTools
      <4>3. QED
        BY <4>1, <4>2
    <3>6. QED
      BY <2>2, <3>1, <3>2, <3>3, <3>4, <3>5, TreeChange DEF Filing
  <2>3. QED
    BY <2>1, <2>2
<1>2. QED
  BY <1>1, WorkersInvariant, PTL DEF Spec, StrictIsContained

(* A file tool that reports failure leaves the file as it found it, for    *)
(* any interleaving with hooks, compilers and the edits of others: a patch *)
(* is applied in all its blocks or not at all, and an edit that does not   *)
(* compile is taken back to the text that was read, where the file can be  *)
(* opened for that.                                                        *)
THEOREM FailureChangesNothing == Spec => FailedChangesNothing
<1> DEFINE A == call.tool \in WriteTools /\ pc # "pre" /\ call' = NoCall /\ result' = "failed" =>
                  IF pc \in {"check", "checkwait"} THEN tree'[edit.at] = edit.read
                                                   ELSE tree' = tree
<1>1. Plain /\ [Next]_vars => [A]_vars
  <2> SUFFICES ASSUME Plain, Next, call.tool \in WriteTools, call' = NoCall, result' = "failed"
               PROVE  IF pc \in {"check", "checkwait"} THEN tree'[edit.at] = edit.read
                                                       ELSE tree' = tree
    OBVIOUS
  <2>1. call' # call
    BY DEF NoCall, Call, WriteTools
  <2>2. Own
    BY <2>1, StepFrame DEF OthersEdit
  <2>3. CASE pc \in {"check", "checkwait"}
    <3>1. PICK diag \in BOOLEAN : FileToolEnds(diag)
      BY <2>1, <2>3, CheckEnds
    <3>2. tree' = [tree EXCEPT ![edit.at] = edit.read]
      BY <3>1 DEF FileToolEnds, Returns
    <3>3. tree \in [Trees -> Text] /\ edit.at \in Trees
      BY DEF Plain, Typed
    <3>4. QED
      BY <2>3, <3>2, <3>3
  <2>4. CASE pc \notin {"check", "checkwait"}
    <3> SUFFICES ASSUME tree' # tree PROVE FALSE
      BY <2>4
    <3>1. pc \notin {"sub", "add", "score", "teardown"}
      BY DEF Plain, Control, NoCall, Call, WriteTools
    <3>2. ~(WorkerStarts \/ Merges \/ Teardown)
      BY <3>1 DEF WorkerStarts, Merges, Teardown, TearsDown
    <3>3. ~(call.tool \in {"enter_worktree", "leave_worktree"})
      BY DEF WriteTools
    <3>4. pc \notin {"sh", "tool", "test", "testwait"}
      BY DEF Plain, Control, WriteTools
    <3>5. QED
      BY <2>1, <2>2, <2>4, <3>1, <3>2, <3>3, <3>4, TreeChange
  <2>5. QED
    BY <2>3, <2>4
<1>2. QED
  BY <1>1, WorkersInvariant, PTL DEF Spec, FailedChangesNothing

-----------------------------------------------------------------------------
(* A speculation that is rejected.                                         *)

(* The programs of a worker that does not stray stay in the candidates'    *)
(* trees.                                                                  *)
LEMMA WorkerStays ==
    ASSUME Plain, Landlock, Working, ~spec.strayed, NEW text, NEW p \in Writable(text),
           pc \in {"sh", "tool", "test", "testwait"}
    PROVE  p \notin Kept
<1>1. g_harness.cwd = Candidate /\ dir = Candidate /\ Candidate \in Cands
  BY CandidateFacts DEF Plain, AtWork
<1>2. Candidate \notin Kept /\ Candidate # "main" /\ \A q \in Cands : q \notin Kept
  BY <1>1, TreeFacts DEF Kept
<1>3. CASE pc = "sh"
  <2>1. Inside(p, Candidate) \/ p \in Cands
    BY <1>1, <1>3, ConfinedFacts DEF sandbox_apply
  <2>2. QED
    BY <1>2, <2>1 DEF Inside
<1>4. CASE pc \in {"tool", "test", "testwait"}
  <2>1. p = dir
    BY <1>4 DEF Writable
  <2>2. QED
    BY <1>1, <1>2, <2>1
<1>5. QED
  BY <1>3, <1>4

(* After the merge nothing of the call is left to do but to tear down. *)
LEMMA TearDownAlone ==
    ASSUME Next, pc = "teardown"
    PROVE  Teardown \/ \E p \in Trees, text \in Text : OthersEdit(p, text)
<1>1. CASE Progress
  BY <1>1 DEF Progress, HookTimesOut, read_file, FileToolRefuses, FileToolReads,
     FileToolWrites, FileToolCannotWrite, PreflightTimesOut,
     BashRefuses, BashInBackground, BashChangesDir, BashStarts, exec_remote, ScriptStarts,
     NoRunnerFound, ProgramIsKilled, SetsPlanMode, leave_worktree, enter_worktree,
     spawn_subagent, dispatch_agent, SubEnds,
     Speculates, CandidateIsSkipped, WorkerStarts, WorkerEnds, Merges, Teardown, Runs
<1>2. CASE ProgramsExit
  BY <1>2 DEF ProgramsExit, HookExits, PreflightExits, TestExits, CandidateIsScored
<1>3. QED
  BY <1>1, <1>2 DEF Next, Admitted, WorkerCalls, SubCalls, TestsWrite, HookEnds, ProgramWrites, ProgramAdds, Writable,
     PreflightEnds, ProgramEnds, HookIsWaitedFor, PreflightIsWaitedFor, TestIsWaitedFor

LEMMA UntouchedStep ==
    ASSUME Landlock, Plain, Plain', Untouched, [Next]_vars
    PROVE  Untouched'
<1>0. Kept \subseteq Trees /\ tree \in [Trees -> Text]
  BY TreeFacts DEF Kept, Plain, Typed
<1>1. CASE UNCHANGED vars
  BY <1>1 DEF vars, Untouched
<1>2. CASE Speculates
  <2>1. spec'.before = [p \in Kept |-> tree[p]] /\ tree' = tree
    BY <1>2 DEF Speculates, NoSpec, treeVars
  <2>2. QED
    BY <2>1 DEF Untouched
<1>3. CASE Teardown
  BY <1>3, NoSpecFacts DEF Teardown, TearsDown, Untouched
<1>4. CASE \E p \in Trees, text \in Text : OthersEdit(p, text)
  <2>1. PICK p \in Trees, text \in Text : OthersEdit(p, text)
    BY <1>4
  <2>2. /\ spec'.n = spec.n /\ spec'.best = spec.best /\ spec'.strayed = spec.strayed /\ pc' = pc
        /\ \A q \in Kept : tree[q] = spec.before[q] /\ spec.n > 0 => tree'[q] = spec'.before[q]
    BY <2>1, OthersSpec DEF Plain, OthersEdit
  <2>3. QED
    BY <2>2 DEF Untouched
<1>5. ASSUME Next, ~Speculates, ~Teardown, ~\E p \in Trees, text \in Text : OthersEdit(p, text)
      PROVE  Untouched'
  <2>1. /\ spec'.n = spec.n /\ spec'.before = spec.before /\ (~spec'.strayed => ~spec.strayed)
        /\ pc # "teardown" /\ (pc' = "teardown" => spec'.best = spec.best)
    <3>1. pc # "teardown"
      BY <1>5, TearDownAlone
    <3>2. \/ UNCHANGED spec \/ CandidateIsSkipped \/ WorkerEnds
          \/ \E c \in Calls : WorkerCalls(c)
          \/ \E passed \in BOOLEAN : CandidateIsScored(passed)
      BY <1>5 DEF Next, Progress, ProgramsExit, WorkerStarts, Merges, Teardown, TestsWrite, specVars
    <3>3. spec \in SpecType
      BY DEF Plain, Typed, SpecType
    <3>4. CASE CandidateIsSkipped \/ WorkerEnds
      BY <3>3, <3>4 DEF CandidateIsSkipped, WorkerEnds, SpecType
    <3>5. ASSUME NEW passed \in BOOLEAN, CandidateIsScored(passed)
          PROVE  /\ spec'.n = spec.n /\ spec'.before = spec.before /\ pc' # "teardown"
                 /\ spec'.strayed = spec.strayed
      BY <3>3, <3>5 DEF CandidateIsScored, SpecType
    <3>6. ASSUME NEW c \in Calls, WorkerCalls(c)
          PROVE  /\ spec'.n = spec.n /\ spec'.before = spec.before /\ spec'.best = spec.best
                 /\ ~spec'.strayed => ~spec.strayed
      BY <3>3, <3>6 DEF WorkerCalls, SpecType
    <3>7. QED
      BY <3>1, <3>2, <3>4, <3>5, <3>6
  <2>2. ASSUME spec.n > 0, ~spec.strayed, pc' = "teardown" => spec.best = 0, NEW q \in Kept
        PROVE  tree'[q] = tree[q]
    <3> SUFFICES ASSUME tree' # tree PROVE tree'[q] = tree[q]
      OBVIOUS
    <3>1. Own
      BY <1>5, StepFrame
    <3>2. Working \/ pc = "add"
      BY <2>1, <2>2 DEF Plain, Speculation
    <3>3. CASE pc \in {"sh", "tool", "test", "testwait"} /\ ProgramChanges
      <4>1. PICK text \in Text : \E p \in Writable(text) : tree' = [tree EXCEPT ![p] = text]
        BY <3>3 DEF ProgramChanges
      <4>4. PICK p \in Writable(text) : tree' = [tree EXCEPT ![p] = text]
        BY <4>1
      <4>2. p # q
        BY <2>2, <3>2, <3>3, WorkerStays
      <4>3. QED
        BY <1>0, <4>2, <4>4
    <3>4. CASE WorkerStarts
      <4>1. Candidate \in Cands /\ q \notin Cands /\ q \in Trees
        BY <1>0, <3>4, CandidateFacts, TreeFacts DEF WorkerStarts, Plain, Kept
      <4>2. QED
        BY <1>0, <3>4, <4>1 DEF WorkerStarts, Wiped
    <3>5. CASE Merges
      BY <2>2, <3>5 DEF Merges
    <3>6. pc \notin Filing
      BY <2>2, <3>2 DEF Plain, Control, Filing
    <3>7. ~(pc = "run" /\ call.tool \in {"enter_worktree", "leave_worktree"})
      BY <3>2, NotAWorker
    <3>8. ~(pc = "sub" /\ g_harness.kind = "sub")
      BY <3>2 DEF Working
    <3>9. ASSUME NEW text \in Text, TestsWrite(text)
          PROVE  tree'[q] = tree[q]
      <4>1. Candidate \in Cands /\ q \notin Cands /\ q \in Trees
        <5>1. Working
          BY <3>9 DEF TestsWrite, Plain, Control
        <5>2. QED
          BY <1>0, <5>1, CandidateFacts, TreeFacts DEF Plain, AtWork, Kept
      <4>2. QED
        BY <1>0, <3>9, <4>1 DEF TestsWrite
    <3>10. QED
      BY <1>5, <3>1, <3>3, <3>4, <3>5, <3>6, <3>7, <3>8, <3>9, TreeChange DEF Filing
  <2>3. QED
    BY <2>1, <2>2 DEF Untouched
<1>6. QED
  BY <1>1, <1>2, <1>3, <1>4, <1>5

(* The speculation keeps what it promises for any number of candidates,    *)
(* calls and edits by others, on a kernel that confines the workers'       *)
(* programs: the merged candidate is the first of the best, and one that   *)
(* is rejected, and whose workers named no absolute path and changed no    *)
(* directory, leaves the operator's trees alone.                           *)
THEOREM SpeculationIsSound ==
    ASSUME Landlock
    PROVE  Spec => []SpeculationInv
<1>1. Init => Untouched
  BY NoSpecFacts DEF Init, Untouched
<1>2. Plain /\ Plain' /\ Untouched /\ [Next]_vars => Untouched'
  BY UntouchedStep
<1>3. Plain /\ Untouched => SpeculationInv
  <2> SUFFICES ASSUME Plain, Untouched PROVE SpeculationInv
    OBVIOUS
  <2>1. RejectedIsSilent
    BY DEF Untouched, RejectedIsSilent, Plain, Speculation
  <2>2. QED
    BY <2>1, PlainTypeOK, PlainMerges DEF SpeculationInv
<1>4. QED
  BY <1>1, <1>2, <1>3, WorkersInvariant, PTL DEF Spec

=============================================================================
