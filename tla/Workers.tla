------------------------------- MODULE Workers -------------------------------
(***************************************************************************)
(* dispatch_worker_task of belya_harness.c on top of the workspace: one to *)
(* three candidates, each by a worker in a worktree of its own under /tmp, *)
(* one after the other; the tests decide, and the patch of the best is     *)
(* applied to the tree the process was in.  git status, git diff and git   *)
(* apply are taken to run; what they come to is modelled.                  *)
(***************************************************************************)
EXTENDS Workspace

VARIABLES
    spec,         \* the speculation: candidates wanted, saved_cwd, cands[],
                  \* best_cand_idx, whether a worker left its worktree, and
                  \* the trees as others left them
    registered    \* g_active_shadow_worktrees

vars == <<profile, dir, root, stack, tree, added, exists, pc, call, edit,
          result, edits, spec, registered>>
specVars == <<spec, registered>>

Kept   == {"main", "wt"}
NoSpec == [n |-> 0, home |-> "main", cands |-> <<>>, best |-> 0, mods |-> FALSE,
           strayed |-> FALSE, before |-> [p \in Kept |-> HEAD]]
Init   == InitWorkspace /\ spec = NoSpec /\ registered = {}

Candidate == Cand[Len(spec.cands) + 1]
Skipped   == [mods |-> FALSE, passed |-> FALSE, churn |-> 0]

WorkerTools == {"read_file", "write_file", "edit_file", "apply_patch", "bash",
                "run_test_cycle"}

shadow_worktree_register(p)    == registered' = registered \cup {p}
shadow_worktree_unregister(ps) == registered' = registered \ ps

Speculates ==
    /\ Runs({"dispatch_worker_task"})
    /\ spec' = [NoSpec EXCEPT !.n = call.n,
                              !.home = IF Exists(dir) THEN dir ELSE g_harness.cwd,
                              !.before = [p \in Kept |-> tree[p]]]
    /\ pc' = "add"
    /\ UNCHANGED <<profile, dir, root, stack, call, edit, result, edits, registered>>
    /\ UNCHANGED treeVars

(* git worktree add fails twice, or there is no memory for the worker,     *)
(* whose worktree is then removed again.                                   *)
CandidateIsSkipped ==
    /\ pc = "add" /\ Len(spec.cands) < spec.n
    /\ spec' = [spec EXCEPT !.cands = Append(@, Skipped)]
    /\ UNCHANGED wsVars /\ UNCHANGED registered

(* The new worktree has a name no other had: what a tree of the model held *)
(* that could not be removed (TearsDown) is looked at no more.             *)
WorkerStarts ==
    /\ pc = "add" /\ Len(spec.cands) < spec.n /\ dir # "out" /\ Exists(dir)
    /\ exists' = exists \cup {Candidate} /\ Wiped({Candidate})
    /\ shadow_worktree_register(Candidate)
    /\ stack' = Append(stack, Harness("worker", Candidate, WorkerTools, SubTurns))
    /\ dir' = Candidate /\ pc' = "sub" /\ call' = NoCall
    /\ UNCHANGED <<profile, root, edit, result, edits, spec>>

WorkerCalls(c) ==
    /\ SubCalls(c)
    /\ spec' = [spec EXCEPT !.strayed = @ \/ Strays(c)]
    /\ UNCHANGED registered

(* git status --porcelain lists untracked files, too. *)
Modified(c) == tree[c] # HEAD \/ c \in added

WorkerEnds ==
    /\ pc = "sub" /\ g_harness.kind = "worker"
    /\ spec' = [spec EXCEPT !.mods = Modified(Candidate)]
    /\ pc' = "score"
    /\ UNCHANGED <<profile, dir, root, stack, call, edit, result, edits, registered>>
    /\ UNCHANGED treeVars

(* git diff --shortstat HEAD counts tracked lines only. *)
Churn(c) == IF tree[c] = HEAD THEN 0 ELSE 1

Score(r) == IF r.mods /\ r.passed THEN 10000 - 2 * r.churn ELSE -1000

Best(r) ==
    IF r.mods /\ r.passed
       /\ (spec.best = 0 \/ Score(r) > Score(spec.cands[spec.best]))
    THEN Len(spec.cands) + 1 ELSE spec.best

(* The tests run in the worktree, for as long as they like and confined by *)
(* nothing; what they change there is part of the patch.                   *)
TestsWrite(text) ==
    /\ pc = "score" /\ spec.mods /\ tree[Candidate] # text
    /\ tree' = [tree EXCEPT ![Candidate] = text]
    /\ UNCHANGED <<profile, dir, root, stack, added, exists, pc, call, edit, result, edits>>
    /\ UNCHANGED specVars

(* They have exited, or popen could not start them, which counts as passed *)
(* just like a status of zero; nothing modified counts as failed.          *)
CandidateIsScored(passed) ==
    LET r == [mods |-> spec.mods, passed |-> passed, churn |-> Churn(Candidate)]
    IN  /\ pc = "score"
        /\ passed => spec.mods
        /\ spec' = [spec EXCEPT !.cands = Append(@, r), !.best = Best(r), !.mods = FALSE]
        /\ stack' = Front(stack) /\ BackAt(spec.home)
        /\ pc' = "add"
        /\ UNCHANGED <<profile, root, call, edit, result, edits, registered>>
        /\ UNCHANGED treeVars

(* git diff HEAD, then git apply, all or nothing and its status ignored:   *)
(* an empty patch and one that does not fit change nothing.                *)
Applies(home, c) == home \in Trees /\ tree[home] = HEAD /\ tree[c] # HEAD

Merges ==
    /\ pc = "add" /\ Len(spec.cands) = spec.n
    /\ tree' = IF spec.best # 0 /\ Applies(spec.home, Cand[spec.best])
               THEN [tree EXCEPT ![spec.home] = tree[Cand[spec.best]]] ELSE tree
    /\ pc' = "teardown"
    /\ UNCHANGED <<profile, dir, root, stack, added, exists, call, edit, result, edits>>
    /\ UNCHANGED specVars

TornDown == {Cand[i] : i \in 1 .. spec.n}

(* A worktree that git cannot remove is unregistered like the others, and  *)
(* is nobody's from then on.                                               *)
TearsDown(removed) ==
    /\ pc = "teardown" /\ removed \subseteq TornDown
    /\ exists' = exists \ removed /\ Wiped(removed)
    /\ shadow_worktree_unregister(TornDown)
    /\ spec' = NoSpec
    /\ Returns("ok")
    /\ UNCHANGED <<profile, dir, root, stack, edits>>

(* The operator, background tasks, and what a killed program left behind. *)
OthersEdit(p, text) ==
    /\ edits < MaxEdits /\ Exists(p) /\ tree[p] # text
    /\ tree' = [tree EXCEPT ![p] = text] /\ edits' = edits + 1
    /\ spec' = IF p \in Kept /\ spec.n > 0 THEN [spec EXCEPT !.before[p] = text] ELSE spec
    /\ UNCHANGED <<profile, dir, root, stack, added, exists, pc, call, edit, result, registered>>

(* What the process and its time limits do on their own. *)
Progress ==
    \/ /\ \/ HookTimesOut
          \/ read_file \/ FileToolRefuses \/ FileToolReads
          \/ FileToolWrites \/ FileToolCannotWrite
          \/ PreflightTimesOut
          \/ \E risk \in evaluate_command_risk(profile, call.cmd) :
                BashRefuses(risk) \/ BashInBackground(risk) \/ BashChangesDir(risk)
                                  \/ BashStarts(risk) \/ exec_remote(risk)
          \/ ScriptStarts \/ NoRunnerFound \/ ProgramIsKilled
          \/ SetsPlanMode \/ leave_worktree
          \/ \E ok \in BOOLEAN : enter_worktree(ok)
          \/ spawn_subagent \/ \E role \in Roles : dispatch_agent(role)
          \/ \E failed \in BOOLEAN : SubEnds(failed)
       /\ UNCHANGED specVars
    \/ Speculates \/ CandidateIsSkipped \/ WorkerStarts \/ WorkerEnds
    \/ Merges \/ \E removed \in SUBSET Cands : TearsDown(removed)

(* A program that closed its output, and the tests of a candidate, end by  *)
(* themselves, or never: nothing in the code makes them.                   *)
ProgramsExit ==
    \/ /\ \/ \E blocks \in BOOLEAN : HookExits(blocks)
          \/ \E diag \in BOOLEAN : PreflightExits(diag)
          \/ TestExits
       /\ UNCHANGED specVars
    \/ \E passed \in BOOLEAN : CandidateIsScored(passed)

Next == \/ Progress \/ ProgramsExit
        \/ /\ \/ \E c \in Calls : Admitted(c)
              \/ \E blocks \in BOOLEAN : HookEnds(blocks)
              \/ \E p \in Trees, text \in Text : ProgramWrites(p, text)
              \/ \E p \in Cands : ProgramAdds(p)
              \/ \E diag \in BOOLEAN : PreflightEnds(diag)
              \/ ProgramEnds
              \/ HookIsWaitedFor \/ PreflightIsWaitedFor \/ TestIsWaitedFor
           /\ UNCHANGED specVars
        \/ \E c \in Calls : WorkerCalls(c)
        \/ \E text \in Text : TestsWrite(text)
        \/ \E p \in Trees, text \in Text : OthersEdit(p, text)

Spec == Init /\ [][Next]_vars /\ WF_vars(Progress)

-----------------------------------------------------------------------------
(* Properties.                                                             *)

ToolNames == WorkerTools \cup UNION {x.tools : x \in Profiles \cup Roles}

Frame == [kind : {"top", "sub", "worker"}, cwd : Places, list : SUBSET ToolNames,
          turns : 0 .. SubTurns, plan : BOOLEAN, inwt : BOOLEAN, orig : {"main", "out"},
          restricted : BOOLEAN, rollback : BOOLEAN]

TypeOK ==
    /\ profile \in Profiles /\ dir \in Places /\ root \in {"main", "wt"}
    /\ stack \in Seq(Frame) /\ Len(stack) \in 1 .. 2
    /\ tree \in [Trees -> Text] /\ added \subseteq Cands
    /\ exists \subseteq Trees \ {"main"} /\ registered \subseteq exists
    /\ pc \in {"idle", "pre", "prewait", "run", "write", "check", "checkwait",
               "sh", "tool", "test", "testwait", "sub", "add", "score",
               "teardown", "post", "postwait"}
    /\ call \in Calls \cup {NoCall}
    /\ edit.at \in Trees /\ {edit.read, edit.new} \subseteq Text
    /\ result \in {"ok", "failed", "stuck"} /\ edits \in 0 .. MaxEdits
    /\ spec.n \in 0 .. MaxCands /\ spec.home \in Places /\ Len(spec.cands) <= spec.n
    /\ spec.best \in 0 .. Len(spec.cands)

(* A step that is not an edit by others. *)
Own == edits' = edits

(* Between calls the directory of the process is the one the harness shows *)
(* the model and starts its shells in, whatever subagents and workers did  *)
(* to it; unless that directory was taken away.                            *)
CwdAgrees == pc = "idle" /\ Exists(g_harness.cwd) => dir = g_harness.cwd

(* While its harness is in plan mode no file tool changes a tree, and a    *)
(* shell in the foreground can do no more to a file of the operator's than *)
(* to empty it.  (Scripts, the test runner, background tasks, subagents    *)
(* and the worktree tools are not held by plan mode.)                      *)
PlanHolds ==
    [][Own /\ g_harness.plan /\ call.tool \in WriteTools \cup {"bash"} =>
         \A p \in Kept : tree'[p] = tree[p] \/ (call.tool = "bash" /\ tree'[p] = Empty)]_vars

(* With strict permissions and nobody to ask, no subagent, worker or       *)
(* script ever starts, and what changes a tree is a file tool on a         *)
(* relative path or a command of the allowlist.                            *)
StrictIsContained ==
    [][profile.mode = "strict" /\ ~profile.approver =>
         /\ Len(stack') = 1
         /\ Own /\ tree' # tree =>
              \/ call.tool \in WriteTools /\ call.path = "rel"
              \/ call.tool = "bash" /\ is_safe_command(call.cmd)
              \/ call.tool \in {"enter_worktree", "leave_worktree"}]_vars

(* A file tool that reports failure leaves the file as it found it: no     *)
(* block of a patch is applied without the others, and an edit that does   *)
(* not compile is taken back to the text that was read, unless the file    *)
(* cannot be opened for that ("stuck", which the model is not told).       *)
FailedChangesNothing ==
    [][call.tool \in WriteTools /\ pc # "pre" /\ call' = NoCall /\ result' = "failed" =>
         IF pc \in {"check", "checkwait"} THEN tree'[edit.at] = edit.read ELSE tree' = tree]_vars

(* The candidate merged passed its tests (or they could not be started),   *)
(* and no other that did has a smaller diff, or as small a one and came    *)
(* first.                                                                  *)
BestIsMerged ==
    pc = "teardown" =>
        LET Good == {i \in 1 .. spec.n : spec.cands[i].mods /\ spec.cands[i].passed}
        IN  IF spec.best = 0 THEN Good = {}
            ELSE /\ spec.best \in Good
                 /\ \A i \in Good \ {spec.best} :
                      \/ spec.cands[spec.best].churn < spec.cands[i].churn
                      \/ spec.cands[spec.best].churn = spec.cands[i].churn /\ spec.best < i

(* "Worktrees silently discarded; zero noise emitted to operator           *)
(* workspace": after a speculation that is rejected, the operator's trees  *)
(* are as they were, but for what others did to them meanwhile, provided   *)
(* that no worker named an absolute path or changed directory.             *)
RejectedIsSilent ==
    pc = "teardown" /\ spec.best = 0 /\ ~spec.strayed =>
        \A p \in Kept : tree[p] = spec.before[p]

(* A speculation is well formed and ends as it should: the best candidate  *)
(* is the one merged, and a rejected one is silent.                        *)
SpeculationInv == TypeOK /\ BestIsMerged /\ RejectedIsSilent

(* What is waited for without a limit: hooks, compilers and test runners   *)
(* that closed their output, and the tests of a candidate.                 *)
Unlimited == {"prewait", "postwait", "checkwait", "testwait", "score"}

(* Every call comes back to the model, or to a wait that has no limit: a   *)
(* silent hook, shell, script or test runner is cut off, and subagents and *)
(* workers run out of turns.                                               *)
EveryCallReturns == pc # "idle" ~> pc \in {"idle"} \cup Unlimited

=============================================================================
