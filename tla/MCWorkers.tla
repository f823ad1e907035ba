------------------------------ MODULE MCWorkers ------------------------------
(* Instances for model checking Workers: the ways the process may be set   *)
(* up, and the calls the model makes.                                      *)
EXTENDS Workers

Profile(approver, mode, remote, key, tools) ==
    [approver |-> approver, mode |-> mode, remote |-> remote, key |-> key, tools |-> tools]

(* A harness has every tool; these are the ones the model calls. *)
Lead   == {"dispatch_worker_task", "read_file", "write_file"}
Agent  == {"bash", "read_file", "write_file", "edit_file", "apply_patch", "custom",
           "run_test_cycle", "enter_plan_mode", "exit_plan_mode", "enter_worktree",
           "leave_worktree", "spawn_subagent", "dispatch_agent"}

MCProfiles == {Profile(TRUE, "permissive", FALSE, TRUE, Agent),
               Profile(FALSE, "strict", FALSE, FALSE, {}),
               Profile(TRUE, "strict", TRUE, FALSE, {"bash", "read_file"}),
               Profile(FALSE, "permissive", FALSE, FALSE, Lead)}

(* ls, git stash, chmod, a script, and rm -rf /. *)
Look   == {"safe0", "testable"}
Stash  == {"safe0", "git", "gitsafe", "testable", "writes"}
Chmod  == {"listed", "writes", "elevated"}
Script == {"slash0", "writes"}
Wipe   == {"rm0", "destroys", "root", "listed", "severe", "writes"}

MCCalls ==
    {Call("bash", "none", c, 0, FALSE) : c \in {Stash, Chmod, Script, Wipe}}
    \cup {Call("bash", "none", Look, 0, TRUE)}
    \cup {Call("bash", p, {"cd"}, 0, FALSE) : p \in {"main", "wt", "out"}}
    \cup {Call("bash", "main", {"cd", "more", "meta", "writes"}, 0, FALSE)}
    \cup {Call("read_file", p, {}, 0, FALSE) : p \in {"rel", "protected"}}
    \cup {Call("write_file", p, {}, 2, FALSE) : p \in {"rel", "abs", "secret", "protected"}}
    \cup {Call("edit_file", "rel", {}, 0, f) : f \in BOOLEAN}
    \cup {Call("apply_patch", "rel", {}, n, FALSE) : n \in 0 .. 2}
    \cup {Call(t, "none", {}, 0, FALSE) :
            t \in {"custom", "run_test_cycle", "enter_plan_mode", "exit_plan_mode",
                   "enter_worktree", "spawn_subagent", "dispatch_agent"}}
    \cup {Call("leave_worktree", "none", {}, 0, f) : f \in BOOLEAN}
    \cup {Call("dispatch_worker_task", "none", {}, n, FALSE) : n \in {2}}

MCRoles == {[tools |-> {"read_file", "edit_file", "bash"}, restricted |-> FALSE],
            [tools |-> {"read_file", "bash"}, restricted |-> TRUE]}

=============================================================================
