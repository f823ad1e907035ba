------------------------------ MODULE Workspace ------------------------------
(***************************************************************************)
(* The tool calls of belya_harness.c and what they do to the working       *)
(* trees: the gates of a call, the lifecycle hooks around it, the file     *)
(* tools, the shell and the other programs with their time limits, plan    *)
(* mode, worktrees, and the subagents that make calls of their own.        *)
(*                                                                         *)
(* The current directory of the process and the root of the path jail are  *)
(* globals that every harness shares; each harness has its own cwd.  The   *)
(* harnesses of a call are a stack, whose last one is g_harness.           *)
(*                                                                         *)
(* A tree is the file the calls are about, abstracted to the number of     *)
(* times old_text occurs in it.  "wt" is the worktree below the project;   *)
(* the trees of Cand (see Workers) are worktrees under /tmp.               *)
(***************************************************************************)
EXTENDS Integers, Sequences, SequencesExt, ToolGate

CONSTANTS Profiles,   \* approver, permission mode, backend, risk service, tools
          Calls,      \* the calls the model makes
          Roles,      \* manifests of dispatch_agent: whitelist, bash_restricted
          MaxCands,   \* candidates of one speculation (3 in the code)
          SubTurns,   \* turns of a subagent (5 or the manifest's; 8 of a worker)
          MaxEdits,   \* bound: edits by others
          Landlock    \* the kernel supports what sandbox_apply asks for

Cand   == <<"c1", "c2", "c3">>
Cands  == {Cand[i] : i \in 1 .. MaxCands}
Trees  == {"main", "wt"} \cup Cands
Places == Trees \cup {"out"}
Text   == 0 .. 2
Empty  == 0             \* it does not occur in a file that was emptied
HEAD   == 1             \* old_text occurs once in the file as committed

ASSUME WorkspaceAssumption ==
    /\ MaxCands \in 1 .. 3 /\ SubTurns \in Nat \ {0} /\ MaxEdits \in Nat
    /\ Landlock \in BOOLEAN

(* What a model may ask for: cd names a directory there may be, a file     *)
(* tool a file, and a speculation is clipped to what the code allows.      *)
ASSUME CallsAssumption ==
    /\ \A c \in Calls :
         /\ "cd" \in c.cmd => c.path \in {"main", "wt", "out"}
         /\ c.tool \in WriteTools => c.path \in {"rel", "abs", "secret", "protected"}
         /\ c.tool = "write_file" => c.n \in Text
         /\ c.tool = "dispatch_worker_task" => c.n \in 1 .. MaxCands
    /\ \A role \in Roles : role.restricted \in BOOLEAN

VARIABLES
    profile,    \* how the process was configured
    dir, root,  \* the current directory of the process; g_workspace_root
    stack,      \* the harnesses, g_harness last
    tree,       \* the text of the file in each tree
    added,      \* the candidates' trees that hold a file git does not track
    exists,     \* the worktrees there are
    pc, call,   \* where the call of g_harness is, and the call
    edit,       \* what a file tool read and is about to write
    result,     \* what the call came to, until the next one
    edits       \* edits by others so far

treeVars == <<tree, added, exists>>
wsVars   == <<profile, dir, root, stack, tree, added, exists, pc, call, edit,
              result, edits>>

g_harness == Last(stack)
Parent    == stack[Len(stack) - 1]
Exists(p) == p \in {"main", "out"} \cup exists
Inside(p, r) == p = r \/ (p = "wt" /\ r = "main")

NoEdit == [at |-> "main", read |-> HEAD, new |-> HEAD]

(* belya_harness_init_bounded: not in plan mode, in no worktree.  The      *)
(* router's is_router repeats in the tools what its whitelist leaves out.  *)
Harness(kind, cwd, list, turns) ==
    [kind |-> kind, cwd |-> cwd, list |-> list, turns |-> turns,
     plan |-> FALSE, inwt |-> FALSE, orig |-> "main",
     restricted |-> FALSE, rollback |-> FALSE]

InitWorkspace ==
    /\ profile \in Profiles
    /\ dir = "main" /\ root = "main"
    /\ stack = <<Harness("top", "main", profile.tools, 0)>>
    /\ tree = [p \in Trees |-> HEAD] /\ added = {} /\ exists = {}
    /\ pc = "idle" /\ call = NoCall /\ edit = NoEdit
    /\ result = "ok" /\ edits = 0

SetHarness(f) == stack' = [stack EXCEPT ![Len(stack)] = f]

(* A worktree that is removed and one that is added anew hold no changes. *)
Wiped(ps) == /\ tree' = [p \in Trees |-> IF p \in ps THEN HEAD ELSE tree[p]]
             /\ added' = added \ ps

(* Back to the turn of the model, or to the loop of the subagent. *)
ReturnsTo(depth) == /\ pc' = IF depth = 1 THEN "post" ELSE "sub"
                    /\ call' = NoCall /\ edit' = NoEdit
Returns(r) == ReturnsTo(Len(stack)) /\ result' = r

-----------------------------------------------------------------------------
(* The gates and the hooks of a call of the top harness.                   *)

(* Left out of the model: worktrees inside worktrees, and speculations of  *)
(* subagents.                                                              *)
Bounded(c) ==
    /\ c.tool = "enter_worktree" /\ ~g_harness.inwt => dir \in {"main", "out"}
    /\ c.tool = "dispatch_worker_task" => Len(stack) = 1

(* A call that is refused changes nothing here (see TurnLoop). *)
Admitted(c) ==
    /\ pc = "idle"
    /\ Whitelisted(g_harness.list, c.tool) /\ Bounded(c)
    /\ \E asked, warned \in terminal_permission_prompt, risk \in check_tool_risk(profile) :
           Admits(profile, g_harness.plan, c, asked, warned, risk)
    /\ pc' = "pre" /\ call' = c
    /\ UNCHANGED <<profile, dir, root, stack, edit, result, edits>>
    /\ UNCHANGED treeVars

AfterHook(blocks) ==
    /\ pc' = IF pc \in {"pre", "prewait"} /\ ~blocks THEN "run" ELSE "idle"
    /\ IF pc' = "run" THEN UNCHANGED <<call, result>>
                      ELSE call' = NoCall /\ result' = "ok"
    /\ UNCHANGED <<profile, dir, root, stack, edit, edits>> /\ UNCHANGED treeVars

(* Exit status 2 blocks; no script, or a script that fails, does not. *)
HookEnds(blocks) == pc \in {"pre", "post"} /\ AfterHook(blocks)

(* Fault: a hook that says nothing is waited for. *)
HookTimesOut_Waits == pc = "none" /\ AfterHook(FALSE)

(* Three seconds of silence: killed, and not taken for a refusal. *)
HookTimesOut == pc \in {"pre", "post"} /\ AfterHook(FALSE)

(* It closed its output, or wrote more than is read: waitpid, no limit. *)
HookIsWaitedFor ==
    /\ pc \in {"pre", "post"}
    /\ pc' = IF pc = "pre" THEN "prewait" ELSE "postwait"
    /\ UNCHANGED <<profile, dir, root, stack, call, edit, result, edits>>
    /\ UNCHANGED treeVars

HookExits(blocks) == pc \in {"prewait", "postwait"} /\ AfterHook(blocks)

-----------------------------------------------------------------------------
(* The file tools.                                                         *)

Runs(tools) == pc = "run" /\ call.tool \in tools

(* Where the path of the call leads. *)
Target == IF call.path = "abs" THEN "main" ELSE dir

is_secret_path == call.path \in {"protected", "secret"}

(* Links and paths with .. never; a read of a relative path that does not  *)
(* exist goes on to fopen.  The entry "/tmp/" of the read list matches no  *)
(* file below /tmp: the match ends in a slash and is to be followed by one.*)
is_path_jailed(write) ==
    /\ ~is_secret_path
    /\ IF Exists(Target) THEN Inside(Target, root) ELSE ~write

read_file ==
    /\ Runs(ReadTools)
    /\ Returns(IF is_path_jailed(FALSE) /\ Exists(Target) THEN "ok" ELSE "failed")
    /\ UNCHANGED <<profile, dir, root, stack, edits>> /\ UNCHANGED treeVars

FileToolRefuses ==
    /\ Runs(WriteTools)
    /\ g_harness.plan \/ ~is_path_jailed(TRUE)
    /\ Returns("failed")
    /\ UNCHANGED <<profile, dir, root, stack, edits>> /\ UNCHANGED treeVars

(* old_text must occur once, but for a match that ignores white space. *)
edit_file_matches == tree[Target] = 1

(* Each block replaces the first occurrence of its text in the document in *)
(* memory; a block without a match, or no block at all, ends the call.     *)
apply_patch_matches == call.n \in 1 .. tree[Target]

Matches == CASE call.tool = "write_file" -> TRUE
             [] call.tool = "edit_file" -> edit_file_matches
             [] call.tool = "apply_patch" -> apply_patch_matches
Updated == IF call.tool = "write_file" THEN call.n
           ELSE tree[Target] - (IF call.tool = "edit_file" THEN 1 ELSE call.n)

(* Fault: the blocks that match are written before the next one is tried. *)
FileToolReads_Eager ==
    /\ Runs(WriteTools) /\ ~g_harness.plan /\ is_path_jailed(TRUE)
    /\ IF Matches
       THEN /\ edit' = [at |-> Target, read |-> tree[Target], new |-> Updated]
            /\ pc' = "write"
            /\ UNCHANGED <<tree, call, result>>
       ELSE /\ Returns("failed")
            /\ tree' = IF call.tool = "apply_patch" /\ call.n > 0
                       THEN [tree EXCEPT ![Target] = 0] ELSE tree
    /\ UNCHANGED <<profile, dir, root, stack, added, exists, edits>>

(* fopen, fread, the search in memory. *)
FileToolReads ==
    /\ Runs(WriteTools) /\ ~g_harness.plan /\ is_path_jailed(TRUE)
    /\ IF Matches
       THEN /\ edit' = [at |-> Target, read |-> tree[Target], new |-> Updated]
            /\ pc' = "write"
            /\ UNCHANGED <<call, result>>
       ELSE Returns("failed")
    /\ UNCHANGED <<profile, dir, root, stack, edits>> /\ UNCHANGED treeVars

FileToolCannotWrite ==
    /\ pc = "write"
    /\ Returns("failed")
    /\ UNCHANGED <<profile, dir, root, stack, edits>> /\ UNCHANGED treeVars

(* What is written is taken to arrive: fwrite and fclose are not looked at.*)
FileToolWrites ==
    /\ pc = "write"
    /\ tree' = [tree EXCEPT ![edit.at] = edit.new]
    /\ pc' = "check"
    /\ UNCHANGED <<profile, dir, root, stack, added, exists, call, edit, result, edits>>

(* Fault: the file is left as the edit made it. *)
FileToolEnds_Keeps(diag) ==
    /\ UNCHANGED tree
    /\ Returns(IF diag /\ call.tool = "edit_file" /\ call.flag THEN "failed" ELSE "ok")
    /\ UNCHANGED <<profile, dir, root, stack, added, exists, edits>>

(* edit_file with verify_compile writes the content it read back when      *)
(* there is a diagnosis; otherwise the diagnosis is only reported.  If the *)
(* file cannot be opened for that, the model is told all the same that it  *)
(* was reverted: "stuck" is "failed" for the model.                        *)
FileToolEnds(diag) ==
    /\ \/ /\ diag /\ call.tool = "edit_file" /\ call.flag
          /\ \/ tree' = [tree EXCEPT ![edit.at] = edit.read] /\ Returns("failed")
             \/ UNCHANGED tree /\ Returns("stuck")
       \/ ~(diag /\ call.tool = "edit_file" /\ call.flag) /\ UNCHANGED tree /\ Returns("ok")
    /\ UNCHANGED <<profile, dir, root, stack, added, exists, edits>>

(* preflight_syntax_check: a compiler, by the extension of the file, and   *)
(* then the language server.  A missing compiler has nothing to say.       *)
PreflightEnds(diag) == pc = "check" /\ FileToolEnds(diag)

(* Two seconds of silence: killed, and taken for a file that compiles. *)
PreflightTimesOut == pc = "check" /\ FileToolEnds(FALSE)

(* It closed its output, or wrote more than 8 KB: waitpid, no limit. *)
PreflightIsWaitedFor ==
    /\ pc = "check"
    /\ pc' = "checkwait"
    /\ UNCHANGED <<profile, dir, root, stack, call, edit, result, edits>>
    /\ UNCHANGED treeVars

PreflightExits(diag) == pc = "checkwait" /\ FileToolEnds(diag)

-----------------------------------------------------------------------------
(* The shell and the other programs.                                       *)

(* The risk guard's block (its "confirm" is not looked at here), and the   *)
(* texts of the plan mode guard.                                           *)
ShellGuard(risk) == /\ risk # "block"
                    /\ ~(g_harness.plan /\ "listed" \in call.cmd)

(* The tester's list comes after the background branch. *)
Background == call.flag
TesterMay  == g_harness.restricted => "testable" \in call.cmd

BashRefuses(risk) ==
    /\ Runs({"bash"})
    /\ ~ShellGuard(risk) \/ (~Background /\ ~TesterMay)
    /\ Returns("failed")
    /\ UNCHANGED <<profile, dir, root, stack, edits>> /\ UNCHANGED treeVars

(* belya_harness_spawn_task: from now on the task is one of the others. *)
BashInBackground(risk) ==
    /\ Runs({"bash"}) /\ ShellGuard(risk) /\ Background
    /\ Returns("ok")
    /\ UNCHANGED <<profile, dir, root, stack, edits>> /\ UNCHANGED treeVars

(* chdir, and the harness remembers. *)
Moved(p) == dir' = p /\ SetHarness([g_harness EXCEPT !.cwd = p])

(* cd is done by the process itself; what follows it is run by a shell. *)
BashChangesDir(risk) ==
    /\ Runs({"bash"}) /\ ShellGuard(risk) /\ ~Background /\ TesterMay
    /\ ~profile.remote /\ "cd" \in call.cmd
    /\ IF ~Exists(call.path)
       THEN UNCHANGED <<dir, stack>> /\ Returns("failed")
       ELSE /\ Moved(call.path)
            /\ IF "more" \in call.cmd
               THEN pc' = "sh" /\ UNCHANGED <<call, edit, result>>
               ELSE Returns("ok")
    /\ UNCHANGED <<profile, root, edits>> /\ UNCHANGED treeVars

BashStarts(risk) ==
    /\ Runs({"bash"}) /\ ShellGuard(risk) /\ ~Background /\ TesterMay
    /\ ~profile.remote /\ "cd" \notin call.cmd
    /\ pc' = "sh"
    /\ UNCHANGED <<profile, dir, root, stack, call, edit, result, edits>>
    /\ UNCHANGED treeVars

(* docker exec or ssh, with the command on its standard input: cd and all  *)
(* else is for the shell over there, and no tree of ours is.               *)
exec_remote(risk) ==
    /\ Runs({"bash"}) /\ ShellGuard(risk) /\ ~Background /\ TesterMay
    /\ profile.remote
    /\ pc' = "sh"
    /\ UNCHANGED <<profile, dir, root, stack, call, edit, result, edits>>
    /\ UNCHANGED treeVars

(* tool_custom_script_runner and tool_run_test_cycle. *)
ScriptStarts ==
    /\ Runs({"custom", "run_test_cycle"})
    /\ pc' = IF call.tool = "custom" THEN "tool" ELSE "test"
    /\ UNCHANGED <<profile, dir, root, stack, call, edit, result, edits>>
    /\ UNCHANGED treeVars

NoRunnerFound ==
    /\ Runs({"run_test_cycle"})
    /\ Returns("failed")
    /\ UNCHANGED <<profile, dir, root, stack, edits>> /\ UNCHANGED treeVars

(* Landlock, below the cwd and below /tmp. *)
sandbox_apply(p) == Inside(p, g_harness.cwd) \/ p \in Cands

(* Plan mode's own policy: below /tmp only.  It says nothing of truncate,  *)
(* so a file may be emptied by its path wherever the other one allows it.  *)
apply_plan_mode_kernel_sandbox(p, text) == p \in Cands \/ text = Empty

(* Fault: plan mode has no policy of its own. *)
Confined_NoPlan(p, text) == sandbox_apply(p)

(* Fault: only the plan mode's own policy is applied. *)
Confined_PlanOnly(p, text) == g_harness.plan => apply_plan_mode_kernel_sandbox(p, text)

(* The policies are stacked: what both allow. *)
Confined(p, text) == /\ sandbox_apply(p)
                     /\ g_harness.plan => apply_plan_mode_kernel_sandbox(p, text)

(* The trees in which the running program can make the file hold the text. *)
(* The scripts and the test runner are confined by nothing, and work where *)
(* they are started.                                                       *)
Writable(text) ==
    {p \in Trees :
       /\ Exists(p)
       /\ CASE pc = "sh" -> /\ ~profile.remote /\ "writes" \in call.cmd
                            /\ Exists(g_harness.cwd)
                            /\ Landlock => Confined(p, text)
            [] pc \in {"tool", "test", "testwait"} -> p = dir
            [] OTHER -> FALSE}

ProgramWrites(p, text) ==
    /\ p \in Writable(text) /\ tree[p] # text
    /\ tree' = [tree EXCEPT ![p] = text]
    /\ UNCHANGED <<profile, dir, root, stack, added, exists, pc, call, edit, result, edits>>

ProgramAdds(p) ==
    /\ p \in Writable(HEAD) \cap Cands
    /\ added' = added \cup {p}
    /\ UNCHANGED <<profile, dir, root, stack, tree, exists, pc, call, edit, result, edits>>

ProgramEnds ==
    /\ pc \in {"sh", "tool", "test"}
    /\ Returns("ok")
    /\ UNCHANGED <<profile, dir, root, stack, edits>> /\ UNCHANGED treeVars

(* 30, 15 and 45 seconds, or too much output: killed and reaped.  What it  *)
(* started itself lives on, as one of the others.                          *)
ProgramIsKilled ==
    /\ pc \in {"sh", "tool", "test"}
    /\ Returns("failed")
    /\ UNCHANGED <<profile, dir, root, stack, edits>> /\ UNCHANGED treeVars

(* A test runner that closed its output, or wrote more than 50 KB, is      *)
(* waited for without a limit.                                             *)
TestIsWaitedFor ==
    /\ pc = "test"
    /\ pc' = "testwait"
    /\ UNCHANGED <<profile, dir, root, stack, call, edit, result, edits>>
    /\ UNCHANGED treeVars

TestExits ==
    /\ pc = "testwait"
    /\ Returns("ok")
    /\ UNCHANGED <<profile, dir, root, stack, edits>> /\ UNCHANGED treeVars

-----------------------------------------------------------------------------
(* Plan mode and worktrees.                                                *)

SetsPlanMode ==
    /\ Runs({"enter_plan_mode", "exit_plan_mode"})
    /\ SetHarness([g_harness EXCEPT !.plan = call.tool = "enter_plan_mode"])
    /\ Returns("ok")
    /\ UNCHANGED <<profile, dir, root, edits>> /\ UNCHANGED treeVars

(* What an earlier worktree of the name held is gone, even if none can be  *)
(* added in its place.                                                     *)
enter_worktree(ok) ==
    /\ Runs({"enter_worktree"})
    /\ IF g_harness.inwt
       THEN UNCHANGED <<dir, root, stack>> /\ UNCHANGED treeVars
       ELSE IF dir = "out" \/ ~ok
       THEN /\ SetHarness([g_harness EXCEPT !.orig = dir])
            /\ IF dir = "main" THEN exists' = exists \ {"wt"} /\ Wiped({"wt"})
                               ELSE UNCHANGED treeVars
            /\ UNCHANGED <<dir, root>>
       ELSE /\ SetHarness([g_harness EXCEPT !.cwd = "wt", !.inwt = TRUE, !.orig = dir])
            /\ exists' = exists \cup {"wt"} /\ Wiped({"wt"})
            /\ dir' = "wt" /\ root' = "wt"
    /\ Returns("ok")
    /\ UNCHANGED <<profile, edits>>

leave_worktree ==
    /\ Runs({"leave_worktree"})
    /\ IF ~g_harness.inwt
       THEN UNCHANGED <<dir, root, stack>> /\ UNCHANGED treeVars
       ELSE /\ SetHarness([g_harness EXCEPT !.cwd = g_harness.orig, !.inwt = FALSE])
            /\ dir' = g_harness.orig /\ root' = g_harness.orig
            /\ IF call.flag THEN UNCHANGED treeVars
                            ELSE exists' = exists \ {"wt"} /\ Wiped({"wt"})
    /\ Returns("ok")
    /\ UNCHANGED <<profile, edits>>

-----------------------------------------------------------------------------
(* Subagents.                                                              *)

(* spawn_subagent and dispatch_agent: a new harness that starts where its  *)
(* parent is.  A role that may write has HEAD recorded, in a repository.   *)
Spawns(list, restricted, guarded) ==
    /\ stack' = Append(stack, [Harness("sub", g_harness.cwd, list, SubTurns) EXCEPT
                                  !.restricted = restricted,
                                  !.rollback = guarded /\ dir # "out" /\ Exists(dir)])
    /\ pc' = "sub" /\ call' = NoCall
    /\ UNCHANGED <<profile, dir, root, edit, result, edits>> /\ UNCHANGED treeVars

spawn_subagent == Runs({"spawn_subagent"}) /\ Spawns({}, FALSE, FALSE)
dispatch_agent(role) ==
    Runs({"dispatch_agent"}) /\ Spawns(role.tools, role.restricted, HasWrite(role.tools))

(* cd and the absolute paths of the project take a worker out of its       *)
(* worktree: nothing keeps it there.                                       *)
Strays(c) == g_harness.kind = "worker" /\ ("cd" \in c.cmd \/ c.path = "abs")

(* Calls of a subagent go straight to the tool: no gate, no hook, and no   *)
(* subagents of its own.                                                   *)
SubCalls(c) ==
    /\ pc = "sub" /\ g_harness.turns > 0
    /\ c.tool \notin {"spawn_subagent", "dispatch_agent"}
    /\ Whitelisted(g_harness.list, c.tool) /\ Bounded(c)
    /\ SetHarness([g_harness EXCEPT !.turns = @ - 1])
    /\ pc' = "run" /\ call' = c
    /\ UNCHANGED <<profile, dir, root, edit, result, edits>> /\ UNCHANGED treeVars

(* Fault: the process stays where the subagent left it. *)
BackAt_Stays(p) == dir' = dir

(* chdir to the cwd of the harness below, if that is still there. *)
BackAt(p) == dir' = IF Exists(p) THEN p ELSE dir

(* It fails when its turns are used up, on an API error, or when the       *)
(* breaker tripped; then git checkout -- . in the parent's directory.      *)
SubEnds(failed) ==
    /\ pc = "sub" /\ g_harness.kind = "sub"
    /\ g_harness.turns = 0 => failed
    /\ IF failed /\ g_harness.rollback /\ Parent.cwd \in Trees /\ Exists(Parent.cwd)
       THEN tree' = [tree EXCEPT ![Parent.cwd] = HEAD] ELSE UNCHANGED tree
    /\ stack' = Front(stack) /\ BackAt(Parent.cwd)
    /\ ReturnsTo(Len(stack) - 1) /\ result' = "ok"
    /\ UNCHANGED <<profile, root, added, exists, edits>>

=============================================================================
